------------------------- MODULE ParallelRunProofs -------------------------
(***************************************************************************)
(* Proofs about ParallelRun, for every number of event builders, big data  *)
(* ranks and events.                                                       *)
(*                                                                         *)
(* Every sequence of transitions in a StepHistory or given to a rank is    *)
(* one that the files begin with: Upto(T, n) are the transitions among the *)
(* first n events.  Leads(T, c, s, d) says of the events s, on their way   *)
(* to someone who was given the transitions c, that each of them comes     *)
(* when exactly the transitions before it were given, and that those up to *)
(* d are given after the last.  What is under way to an event builder      *)
(* leads from the transitions it has noted to those smd0 has noted for it  *)
(* (EbFlow); what a big data rank was given leads from none to those its   *)
(* event builder has noted for it (BdFlow).                                *)
(*                                                                         *)
(* An L1Accept is in one place: in what comes to an event builder, in a    *)
(* batch of its dictionary, or in what a rank was given (PlaceInv).        *)
(***************************************************************************)
EXTENDS ParallelRun, FiniteSetTheorems, SequenceTheorems, WellFoundedInduction, TLAPS

\* The transitions among the first n events, T being all of them.
Upto(T, n) == Select(Interval(1, n), T)

\* What was given after the first k events of s to who had c before.
After(T, c, s, k) == IF k = 0 THEN c ELSE Upto(T, s[k])

Leads(T, c, s, d) ==
  /\ \A k \in 1 .. Len(s) : Upto(T, s[k] - 1) = After(T, c, s, k - 1)
  /\ After(T, c, s, Len(s)) = d

\* What is in s, the L1Accepts in it, and that each of these is there once.
Elems(s) == {s[k] : k \in 1 .. Len(s)}
L1(T, s) == Elems(s) \ T
Once(T, s) == \A j, k \in 1 .. Len(s) : s[j] = s[k] => s[j] \in T \/ j = k

-----------------------------------------------------------------------------
(* The invariant                                                             *)

Items(mail) == IF mail = Nothing THEN <<>> ELSE mail[1].items
Ends(mail) == mail # Nothing /\ mail[1].end

Mails == {Nothing, Null} \cup {Data(s) : s \in Seq(Events)}
Dests == {0} \cup {1 + (i % Cardinality(BdsOf(e))) : e \in Ebs, i \in Events}
Dicts == UNION {[D -> Seq(Events)] : D \in SUBSET Dests}
EbState(e) == [pc : {"receive", "send", "waiting", "last", "kill", "done"},
               todo : Seq(Events), dict : Dicts, waiting : Seq(BdsOf(e)), turns : 0 .. NumBds,
               hist : [bufs : Seq(Events), sent : [BdsOf(e) -> Nat]]]

\* A function of who there is.
Fcn(f, S) == f = [x \in S |-> f[x]]

TypeInv ==
  /\ run \in [steps : SUBSET Events, batch : Nat \ {0}, destined : BOOLEAN, eager : BOOLEAN]
  /\ smd0 \in [pc : {"chunk", "steps", "kill", "done"}, read : 0 .. NumEvents,
               turns : 0 .. NumEbs - 1, hist : [bufs : Seq(Events), sent : [Ebs -> Nat]]]
  /\ asking \subseteq Ebs /\ chunkTo \in [Ebs -> Mails]
  /\ Fcn(eb, Ebs) /\ \A e \in Ebs : eb[e] \in EbState(e)
  /\ Fcn(bdAsking, Ebs) /\ \A e \in Ebs : bdAsking[e] \subseteq BdsOf(e)
  /\ Fcn(batchTo, Ebs) /\ \A e \in Ebs : batchTo[e] \in [BdsOf(e) -> Mails]
  /\ Fcn(bd, Ebs) /\ \A e \in Ebs : bd[e] \in [BdsOf(e) -> {"ask", "wait", "done"}]
  /\ Fcn(seen, Ebs) /\ \A e \in Ebs : seen[e] \in [BdsOf(e) -> Seq(Events)]
  /\ terminated \in BOOLEAN

\* Who asks waits for an answer, and has one at most.
EbAsks(e) ==
  /\ e \in asking \/ chunkTo[e] # Nothing => eb[e].pc = "receive"
  /\ e \in asking => chunkTo[e] = Nothing
  /\ eb[e].pc # "send" => eb[e].dict = <<>> /\ eb[e].todo = <<>>
  /\ eb[e].pc = "kill" => eb[e].turns > 0
  /\ \A j, k \in 1 .. Len(eb[e].waiting) : eb[e].waiting[j] = eb[e].waiting[k] => j = k

Waits(e, b) == \E k \in 1 .. Len(eb[e].waiting) : eb[e].waiting[k] = b

BdAsks(e, b) ==
  /\ bd[e][b] # "wait" => batchTo[e][b] = Nothing /\ b \notin bdAsking[e]
  /\ b \in bdAsking[e] => batchTo[e][b] = Nothing
  /\ Waits(e, b) => b \notin bdAsking[e] /\ bd[e][b] # "ask"
  /\ Waits(e, b) /\ eb[e].pc \notin {"kill", "done"} => batchTo[e][b] = Nothing
  /\ Waits(e, b) /\ batchTo[e][b] # Nothing => Ends(batchTo[e][b])
  /\ bd[e][b] = "done" \/ Ends(batchTo[e][b]) => eb[e].pc \in {"kill", "done"}

AskInv == \A e \in Ebs : EbAsks(e) /\ \A b \in BdsOf(e) : BdAsks(e, b)

\* The transitions that e was sent, those it has sent to b, and what b was given.
Got(e) == SubSeq(smd0.hist.bufs, 1, smd0.hist.sent[e])
Sent(e, b) == SubSeq(eb[e].hist.bufs, 1, eb[e].hist.sent[b])
Given(e, b) == seen[e][b] \o Items(batchTo[e][b])

\* What comes to e: what is left of its chunk, or the chunk on its way.
Coming(e) == eb[e].todo \o Items(chunkTo[e])

\* The transitions that are noted when the batches of a dictionary are sent.
Noted(T, bufs, dict) == IF 0 \in DOMAIN dict THEN bufs \o Select(dict[0], T) ELSE bufs

Ahead(T, bufs, dict, todo, d) ==
  /\ 0 \in DOMAIN dict => DOMAIN dict = {0}
  /\ \A k \in DOMAIN dict : Leads(T, bufs, dict[k], Noted(T, bufs, dict))
  /\ Leads(T, Noted(T, bufs, dict), todo, d)

EbFlow(e) ==
  /\ smd0.hist.sent[e] <= Len(smd0.hist.bufs)
  /\ Ahead(run.steps, eb[e].hist.bufs, eb[e].dict, Coming(e), Got(e))
  /\ \E n \in 0 .. NumEvents : eb[e].hist.bufs = Upto(run.steps, n)

BdFlow(e, b) ==
  /\ eb[e].hist.sent[b] <= Len(eb[e].hist.bufs)
  /\ Leads(run.steps, <<>>, Given(e, b), Sent(e, b))

FlowInv ==
  /\ smd0.hist.bufs = Upto(run.steps, smd0.read)
  /\ \A e \in Ebs : EbFlow(e) /\ \A b \in BdsOf(e) : BdFlow(e, b)

\* The L1Accepts that e or a rank of it has or is being sent.
Among(T, dict) == UNION {L1(T, dict[d]) : d \in DOMAIN dict}
Owned(e) == UNION {L1(run.steps, Given(e, b)) : b \in BdsOf(e)}
Held(e) == L1(run.steps, Coming(e)) \cup Among(run.steps, eb[e].dict) \cup Owned(e)

Placed(T, e, dict, coming, given) ==
  /\ Once(T, coming)
  /\ \A d \in DOMAIN dict :
      /\ Once(T, dict[d]) /\ L1(T, dict[d]) \cap L1(T, coming) = {}
      /\ \A i \in L1(T, dict[d]) : Destination(e, i) = d
  /\ \A b \in BdsOf(e) :
      /\ Once(T, given[b]) /\ L1(T, given[b]) \cap L1(T, coming) = {}
      /\ \A d \in DOMAIN dict : L1(T, given[b]) \cap L1(T, dict[d]) = {}
      /\ \A c \in BdsOf(e) \ {b} : L1(T, given[b]) \cap L1(T, given[c]) = {}
      /\ \A i \in L1(T, given[b]) : Destination(e, i) \in {0, b}

EbPlaced(e) == Placed(run.steps, e, eb[e].dict, Coming(e), [b \in BdsOf(e) |-> Given(e, b)])

PlaceInv ==
  \A e \in Ebs :
    /\ EbPlaced(e)
    /\ Held(e) \subseteq 1 .. smd0.read
    /\ \A f \in Ebs \ {e} : Held(e) \cap Held(f) = {}

\* Nothing is left out.
Whole == run.destined => run.batch = 1
CoverInv == Whole => \A i \in 1 .. smd0.read : i \in run.steps \/ \E e \in Ebs : i \in Held(e)

Inv == TypeInv /\ AskInv /\ FlowInv /\ PlaceInv /\ CoverInv

\* What becomes of the events todo when the next batch of them is built.
Cut(e, todo, dict, rest) ==
  \E m \in 0 .. Len(todo) :
    LET batch == SubSeq(todo, 1, m)
    IN /\ rest = SubSeq(todo, m + 1, Len(todo))
       /\ \A d \in DOMAIN dict : dict[d] = Select(batch, {i \in Events : Destination(e, i) = d})
       /\ 0 \in DOMAIN dict => DOMAIN dict = {0}
       /\ 0 \notin DOMAIN dict \/ Whole => \A i \in Elems(batch) : Destination(e, i) \in DOMAIN dict

\* A step that leaves alone what e has and what its ranks were given.
SameAt(e) ==
  /\ eb'[e].hist = eb[e].hist /\ eb'[e].dict = eb[e].dict /\ Coming(e)' = Coming(e)
  /\ \A b \in BdsOf(e) : Given(e, b)' = Given(e, b)

\* Batch k of the dictionary of e goes to b.
Sends(e, b, k) ==
  /\ UNCHANGED <<run, smd0>> /\ seen'[e] = seen[e] /\ chunkTo'[e] = chunkTo[e]
  /\ batchTo'[e][b] = Data(Missing(eb[e].hist, b) \o eb[e].dict[k])
  /\ \A c \in BdsOf(e) \ {b} : batchTo'[e][c] = batchTo[e][c]
  /\ eb'[e] \in EbState(e) /\ eb'[e].hist = Extended(eb[e].hist, b, eb[e].dict[k])
  /\ \/ eb'[e].dict = Without(eb[e].dict, k) /\ eb'[e].todo = eb[e].todo
     \/ /\ DOMAIN Without(eb[e].dict, k) = {}
        /\ Cut(e, eb[e].todo, eb'[e].dict, eb'[e].todo)

-----------------------------------------------------------------------------
(***************************************************************************)
(* Selecting elements of a sequence                                        *)
(***************************************************************************)

LEMMA LeastNat ==
  ASSUME NEW P \in SUBSET Nat, P # {}
  PROVE  \E x \in P : \A y \in P : x <= y
<1> DEFINE R == OpToRel(<, Nat)
<1>1. IsWellFoundedOn(R, Nat)
  BY NatLessThanWellFounded
<1>2. R = {pair \in Nat \X Nat : pair[1] < pair[2]}
  BY DEF OpToRel
<1>3. PICK x \in P : \A y \in P : ~(<<y, x>> \in R)
  <2> HIDE DEF R
  <2> QED
    BY <1>1, WFMin
<1>4. ASSUME NEW y \in P
      PROVE  x <= y
  <2>1. <<y, x>> \in Nat \X Nat /\ <<y, x>>[1] = y /\ <<y, x>>[2] = x
    OBVIOUS
  <2> HIDE DEF R
  <2>2. ~(y < x)
    BY <1>2, <1>3, <2>1
  <2> QED
    BY <2>2
<1> QED
  BY <1>4

\* A set that holds 0 and with a number the next one, up to a bound, holds them all.
LEMMA UpTo ==
  ASSUME NEW N \in Nat, NEW P \in SUBSET Nat, 0 \in P, \A n \in 0 .. N - 1 : n \in P => n + 1 \in P
  PROVE  0 .. N \subseteq P
<1> SUFFICES ASSUME ~(0 .. N \subseteq P)
             PROVE  FALSE
  OBVIOUS
<1> DEFINE Q == {n \in 0 .. N : n \notin P}
<1>1. Q \in SUBSET Nat /\ Q # {}
  OBVIOUS
<1>2. PICK x \in Q : \A y \in Q : x <= y
  <2> HIDE DEF Q
  <2> QED
    BY <1>1, LeastNat
<1>3. x \in 0 .. N /\ x \notin P /\ x # 0
  BY <1>2
<1>4. x - 1 \in 0 .. N - 1 /\ x - 1 \in 0 .. N /\ ~(x <= x - 1) /\ x - 1 + 1 = x
  BY <1>3
<1>5. x - 1 \in P
  BY <1>2, <1>4
<1> QED
  BY <1>3, <1>4, <1>5

\* The function that Select defines.
Steps(f, s, T, N) ==
  f = [n \in 0 .. N |->
         IF n = 0 THEN <<>> ELSE IF s[n] \in T THEN Append(f[n - 1], s[n]) ELSE f[n - 1]]

LEMMA StepsAt ==
  ASSUME NEW s, NEW T, NEW N \in Nat, NEW f, Steps(f, s, T, N), NEW n \in 1 .. N
  PROVE  f[n] = IF s[n] \in T THEN Append(f[n - 1], s[n]) ELSE f[n - 1]
<1>1. n \in 0 .. N /\ n # 0
  OBVIOUS
<1> QED
  BY <1>1 DEF Steps

LEMMA StepsAgree ==
  ASSUME NEW s, NEW t, NEW T, NEW M \in Nat, NEW N \in Nat, M <= N,
         \A i \in 1 .. M : s[i] = t[i],
         NEW f, NEW g, Steps(f, s, T, M), Steps(g, t, T, N)
  PROVE  \A n \in 0 .. M : f[n] = g[n]
<1> DEFINE P == {n \in Nat : n <= M => f[n] = g[n]}
<1>4. ASSUME NEW n \in 1 .. M
      PROVE  f[n] = IF s[n] \in T THEN Append(f[n - 1], s[n]) ELSE f[n - 1]
  BY StepsAt
<1>5. ASSUME NEW n \in 1 .. N
      PROVE  g[n] = IF t[n] \in T THEN Append(g[n - 1], t[n]) ELSE g[n - 1]
  BY StepsAt
<1>1. 0 \in P
  <2>1. f[0] = <<>> /\ g[0] = <<>>
    BY DEF Steps
  <2> QED
    BY <2>1
<1>2. ASSUME NEW n \in 0 .. M - 1, n \in P
      PROVE  n + 1 \in P
  <2>1. n + 1 \in 1 .. M /\ n + 1 \in 1 .. N /\ n + 1 - 1 = n /\ n <= M
    OBVIOUS
  <2>2. f[n + 1] = IF s[n + 1] \in T THEN Append(f[n + 1 - 1], s[n + 1]) ELSE f[n + 1 - 1]
    BY <2>1, <1>4, <1>5
  <2>3. g[n + 1] = IF t[n + 1] \in T THEN Append(g[n + 1 - 1], t[n + 1]) ELSE g[n + 1 - 1]
    BY <2>1, <1>4, <1>5
  <2>4. f[n + 1] = g[n + 1]
    BY <1>2, <2>1, <2>2, <2>3
  <2> QED
    BY <2>4
<1>3. 0 .. M \subseteq P
  <2> HIDE DEF P
  <2>1. P \in SUBSET Nat
    BY DEF P
  <2> QED
    BY <1>1, <1>2, <2>1, UpTo
<1> QED
  BY <1>3

LEMMA StepsNext ==
  ASSUME NEW s, NEW T, NEW N \in Nat, NEW f, Steps(f, s, T, N)
  PROVE  \E g : Steps(g, s, T, N + 1)
<1> DEFINE g == [n \in 0 .. N + 1 |->
                   IF n = N + 1 THEN IF s[n] \in T THEN Append(f[N], s[n]) ELSE f[N] ELSE f[n]]
<1>1. ASSUME NEW n \in 0 .. N + 1
      PROVE  g[n] = IF n = 0 THEN <<>> ELSE IF s[n] \in T THEN Append(g[n - 1], s[n]) ELSE g[n - 1]
  <2>1. CASE n = 0
    BY <2>1 DEF Steps
  <2>2. CASE n # 0 /\ n <= N
    <3>1. n \in 0 .. N /\ n - 1 \in 0 .. N + 1 /\ n # N + 1 /\ n - 1 # N + 1
      BY <2>2
    <3>2. f[n] = IF s[n] \in T THEN Append(f[n - 1], s[n]) ELSE f[n - 1]
      BY <2>2, <3>1 DEF Steps
    <3>3. g[n] = f[n] /\ g[n - 1] = f[n - 1]
      BY <3>1
    <3> QED
      BY <2>2, <3>2, <3>3
  <2>3. CASE n = N + 1
    <3>1. n - 1 = N /\ N \in 0 .. N + 1 /\ N # N + 1 /\ n # 0
      BY <2>3
    <3>2. g[N] = f[N] /\ g[n] = IF s[n] \in T THEN Append(f[N], s[n]) ELSE f[N]
      BY <2>3, <3>1
    <3> QED
      BY <3>1, <3>2
  <2> QED
    BY <2>1, <2>2, <2>3
<1>2. Steps(g, s, T, N + 1)
  BY <1>1 DEF Steps
<1> QED
  BY <1>2

LEMMA StepsExist ==
  ASSUME NEW s, NEW T, NEW N \in Nat
  PROVE  \E f : Steps(f, s, T, N)
<1> DEFINE P == {n \in Nat : \E f : Steps(f, s, T, n)}
<1>1. 0 \in P
  <2>1. Steps([n \in 0 .. 0 |-> <<>>], s, T, 0)
    BY DEF Steps
  <2> QED
    BY <2>1
<1>2. ASSUME NEW n \in 0 .. N - 1, n \in P
      PROVE  n + 1 \in P
  BY <1>2, StepsNext
<1>3. 0 .. N \subseteq P
  <2> HIDE DEF P
  <2>1. P \in SUBSET Nat
    BY DEF P
  <2> QED
    BY <1>1, <1>2, <2>1, UpTo
<1>4. N \in 0 .. N
  OBVIOUS
<1> QED
  BY <1>3, <1>4

LEMMA SelectIs ==
  ASSUME NEW S, NEW s \in Seq(S), NEW T
  PROVE  \E f : Steps(f, s, T, Len(s)) /\ Select(s, T) = f[Len(s)]
<1> DEFINE F == CHOOSE f : Steps(f, s, T, Len(s))
<1>1. Len(s) \in Nat
  OBVIOUS
<1>2. Steps(F, s, T, Len(s))
  BY <1>1, StepsExist
<1>3. Select(s, T) = F[Len(s)]
  BY DEF Select, Steps
<1> QED
  BY <1>2, <1>3

LEMMA SelectEmpty ==
  ASSUME NEW T
  PROVE  Select(<<>>, T) = <<>>
<1>1. <<>> \in Seq({}) /\ Len(<<>>) = 0
  OBVIOUS
<1>2. PICK f : Steps(f, <<>>, T, 0) /\ Select(<<>>, T) = f[0]
  BY <1>1, SelectIs
<1>3. f[0] = <<>>
  BY <1>2 DEF Steps
<1> QED
  BY <1>2, <1>3

LEMMA SelectAppend ==
  ASSUME NEW S, NEW s \in Seq(S), NEW x \in S, NEW T
  PROVE  Select(Append(s, x), T) = IF x \in T THEN Append(Select(s, T), x) ELSE Select(s, T)
<1> DEFINE t == Append(s, x)
           M == Len(s)
<1>1. t \in Seq(S) /\ Len(t) = M + 1 /\ t[M + 1] = x /\ \A i \in 1 .. M : s[i] = t[i]
  OBVIOUS
<1>2. M \in Nat /\ M + 1 \in Nat /\ M <= M + 1 /\ M + 1 \in 1 .. M + 1 /\ M + 1 - 1 = M
      /\ M \in 0 .. M
  OBVIOUS
<1>3. PICK f : Steps(f, s, T, M) /\ Select(s, T) = f[M]
  BY SelectIs
<1> HIDE DEF t, M
<1>4. PICK g : Steps(g, t, T, M + 1) /\ Select(t, T) = g[M + 1]
  BY <1>1, SelectIs
<1>5. f[M] = g[M]
  <2>1. Steps(f, s, T, M) /\ Steps(g, t, T, M + 1)
    BY <1>3, <1>4
  <2>2. \A n \in 0 .. M : f[n] = g[n]
    BY <1>1, <1>2, <2>1, StepsAgree
  <2> QED
    BY <1>2, <2>2
<1>6. g[M + 1] = IF t[M + 1] \in T THEN Append(g[M + 1 - 1], t[M + 1]) ELSE g[M + 1 - 1]
  BY <1>2, <1>4, StepsAt
<1> QED
  BY <1>1, <1>2, <1>3, <1>4, <1>5, <1>6 DEF t

LEMMA PrefixFacts ==
  ASSUME NEW S, NEW s \in Seq(S), NEW k \in 0 .. Len(s)
  PROVE  /\ SubSeq(s, 1, k) \in Seq(S) /\ Len(SubSeq(s, 1, k)) = k
         /\ \A i \in 1 .. k : SubSeq(s, 1, k)[i] = s[i] /\ s[i] \in S
         /\ SubSeq(s, 1, 0) = <<>> /\ SubSeq(s, 1, Len(s)) = s
  OBVIOUS

LEMMA NextPrefix ==
  ASSUME NEW S, NEW s \in Seq(S), NEW k \in 0 .. Len(s), k # Len(s)
  PROVE  /\ SubSeq(s, 1, k + 1) = Append(SubSeq(s, 1, k), s[k + 1])
         /\ s[k + 1] \in S /\ SubSeq(s, 1, k) \in Seq(S) /\ k + 1 \in 1 .. Len(s)
  OBVIOUS

LEMMA SelectNext ==
  ASSUME NEW S, NEW s \in Seq(S), NEW k \in 0 .. Len(s), k # Len(s), NEW T
  PROVE  Select(SubSeq(s, 1, k + 1), T)
           = IF s[k + 1] \in T THEN Append(Select(SubSeq(s, 1, k), T), s[k + 1])
             ELSE Select(SubSeq(s, 1, k), T)
<1> DEFINE p == SubSeq(s, 1, k)
           x == s[k + 1]
<1>1. SubSeq(s, 1, k + 1) = Append(p, x) /\ p \in Seq(S) /\ x \in S
  BY NextPrefix
<1> HIDE DEF p, x
<1>2. Select(Append(p, x), T) = IF x \in T THEN Append(Select(p, T), x) ELSE Select(p, T)
  BY <1>1, SelectAppend
<1> QED
  BY <1>1, <1>2 DEF p, x

LEMMA ElemsAppend ==
  ASSUME NEW S, NEW s \in Seq(S), NEW x \in S
  PROVE  /\ Elems(Append(s, x)) = Elems(s) \cup {x}
         /\ \A T : Once(T, Append(s, x)) <=> Once(T, s) /\ (x \in T \/ x \notin Elems(s))
<1> DEFINE t == Append(s, x)
<1>1. Len(t) = Len(s) + 1 /\ t[Len(s) + 1] = x /\ \A i \in 1 .. Len(s) : t[i] = s[i]
  OBVIOUS
<1>2. Len(s) \in Nat /\ 1 .. Len(s) + 1 = 1 .. Len(s) \cup {Len(s) + 1} /\ Len(s) + 1 \notin 1 .. Len(s)
  OBVIOUS
<1> HIDE DEF t
<1>3. Elems(t) = Elems(s) \cup {x}
  BY <1>1, <1>2 DEF Elems
<1>4. ASSUME NEW T
      PROVE  Once(T, t) <=> Once(T, s) /\ (x \in T \/ x \notin Elems(s))
  BY <1>1, <1>2 DEF Elems, Once
<1> QED
  BY <1>3, <1>4 DEF t

LEMMA ElemsEmpty ==
  /\ Elems(<<>>) = {} /\ \A T : Once(T, <<>>)
<1>1. Len(<<>>) = 0 /\ 1 .. 0 = {}
  OBVIOUS
<1> QED
  BY <1>1 DEF Elems, Once

\* What selecting gives.
LEMMA SelectFacts ==
  ASSUME NEW S, NEW s \in Seq(S), NEW U
  PROVE  /\ Select(s, U) \in Seq(S) /\ Select(s, U) \in Seq(U)
         /\ Elems(Select(s, U)) = Elems(s) \cap U
         /\ \A T : Once(T, s) => Once(T, Select(s, U))
<1> DEFINE Pre(k) == SubSeq(s, 1, k)
           Sel(k) == Select(Pre(k), U)
           P == {k \in Nat : k <= Len(s) =>
                   /\ Sel(k) \in Seq(S \cap U) /\ Elems(Sel(k)) = Elems(Pre(k)) \cap U
                   /\ \A T : Once(T, Pre(k)) => Once(T, Sel(k))}
<1>1. 0 \in P
  <2>1. 0 \in 0 .. Len(s) /\ <<>> \in Seq(S \cap U)
    OBVIOUS
  <2>2. Pre(0) = <<>> /\ Sel(0) = <<>>
    <3>1. SubSeq(s, 1, 0) = <<>>
      OBVIOUS
    <3> QED
      BY <3>1, SelectEmpty
  <2> HIDE DEF Pre, Sel
  <2> QED
    BY <2>1, <2>2, ElemsEmpty
<1>2. ASSUME NEW k \in 0 .. Len(s) - 1, k \in P
      PROVE  k + 1 \in P
  <2>1. k \in 0 .. Len(s) /\ k # Len(s) /\ k <= Len(s) /\ k + 1 <= Len(s) /\ k + 1 \in Nat
    OBVIOUS
  <2>2. Pre(k + 1) = Append(Pre(k), s[k + 1]) /\ s[k + 1] \in S /\ Pre(k) \in Seq(S)
    BY <2>1, NextPrefix
  <2>3. Sel(k + 1) = IF s[k + 1] \in U THEN Append(Sel(k), s[k + 1]) ELSE Sel(k)
    BY <2>1, SelectNext
  <2> HIDE DEF Pre, Sel
  <2>4. /\ Sel(k) \in Seq(S \cap U) /\ Elems(Sel(k)) = Elems(Pre(k)) \cap U
        /\ \A T : Once(T, Pre(k)) => Once(T, Sel(k))
    BY <1>2, <2>1
  <2> DEFINE x == s[k + 1]
  <2> HIDE DEF x
  <2>5. /\ Elems(Pre(k + 1)) = Elems(Pre(k)) \cup {x}
        /\ \A T : Once(T, Pre(k + 1)) <=> Once(T, Pre(k)) /\ (x \in T \/ x \notin Elems(Pre(k)))
    <3>1. Pre(k + 1) = Append(Pre(k), x) /\ x \in S /\ Pre(k) \in Seq(S)
      BY <2>2 DEF x
    <3>2. Elems(Append(Pre(k), x)) = Elems(Pre(k)) \cup {x}
      BY <3>1, ElemsAppend
    <3>3. \A T : Once(T, Append(Pre(k), x)) <=> Once(T, Pre(k)) /\ (x \in T \/ x \notin Elems(Pre(k)))
      BY <3>1, ElemsAppend
    <3> QED
      BY <3>1, <3>2, <3>3
  <2>6. CASE x \in U
    <3>1. Sel(k + 1) = Append(Sel(k), x) /\ x \in S \cap U
      BY <2>2, <2>3, <2>6 DEF x
    <3>2. /\ Elems(Sel(k + 1)) = Elems(Sel(k)) \cup {x}
          /\ \A T : Once(T, Sel(k + 1)) <=> Once(T, Sel(k)) /\ (x \in T \/ x \notin Elems(Sel(k)))
      <4>1. Sel(k) \in Seq(S \cap U) /\ x \in S \cap U
        BY <2>4, <3>1
      <4>2. Elems(Append(Sel(k), x)) = Elems(Sel(k)) \cup {x}
        BY <4>1, ElemsAppend
      <4>3. \A T : Once(T, Append(Sel(k), x)) <=> Once(T, Sel(k)) /\ (x \in T \/ x \notin Elems(Sel(k)))
        BY <4>1, ElemsAppend
      <4> QED
        BY <3>1, <4>2, <4>3
    <3>3. Sel(k + 1) \in Seq(S \cap U)
      BY <2>4, <3>1
    <3>4. Elems(Sel(k + 1)) = Elems(Pre(k + 1)) \cap U
      BY <2>4, <2>5, <2>6, <3>2
    <3>5. \A T : Once(T, Pre(k + 1)) => Once(T, Sel(k + 1))
      BY <2>4, <2>5, <3>2
    <3> QED
      BY <2>1, <3>3, <3>4, <3>5
  <2>7. CASE x \notin U
    <3>1. Sel(k + 1) = Sel(k)
      BY <2>3, <2>7 DEF x
    <3> QED
      BY <2>1, <2>4, <2>5, <2>7, <3>1
  <2> QED
    BY <2>6, <2>7
<1>3. Len(s) \in P
  <2>1. P \in SUBSET Nat /\ Len(s) \in Nat /\ Len(s) \in 0 .. Len(s)
    OBVIOUS
  <2> HIDE DEF P
  <2> QED
    BY <1>1, <1>2, <2>1, UpTo
<1>4. Pre(Len(s)) = s
  OBVIOUS
<1>5. /\ Select(s, U) \in Seq(S \cap U) /\ Elems(Select(s, U)) = Elems(s) \cap U
      /\ \A T : Once(T, s) => Once(T, Select(s, U))
  <2>1. Len(s) \in Nat /\ Len(s) <= Len(s)
    OBVIOUS
  <2> HIDE DEF Pre
  <2> QED
    BY <1>3, <1>4, <2>1
<1>6. S \cap U \subseteq S /\ S \cap U \subseteq U
  OBVIOUS
<1>7. Seq(S \cap U) \subseteq Seq(S) /\ Seq(S \cap U) \subseteq Seq(U)
  BY <1>6
<1> QED
  BY <1>5, <1>7

LEMMA NoElems ==
  ASSUME NEW S, NEW s \in Seq(S), Elems(s) = {}
  PROVE  s = <<>>
<1>1. Len(s) \in Nat /\ \A k \in 1 .. Len(s) : s[k] \in Elems(s)
  BY DEF Elems
<1>2. Len(s) = 0
  BY <1>1
<1> QED
  BY <1>2

LEMMA SelectNone ==
  ASSUME NEW S, NEW s \in Seq(S), NEW U, Elems(s) \cap U = {}
  PROVE  Select(s, U) = <<>>
<1>1. Select(s, U) \in Seq(S) /\ Elems(Select(s, U)) = {}
  BY SelectFacts
<1> QED
  BY <1>1, NoElems

LEMMA SelectAll ==
  ASSUME NEW S, NEW s \in Seq(S), NEW U, Elems(s) \subseteq U
  PROVE  Select(s, U) = s
<1> DEFINE Pre(k) == SubSeq(s, 1, k)
           P == {k \in Nat : k <= Len(s) => Select(Pre(k), U) = Pre(k)}
<1>1. 0 \in P
  <2>1. 0 \in 0 .. Len(s)
    OBVIOUS
  <2>2. Pre(0) = <<>>
    OBVIOUS
  <2> HIDE DEF Pre
  <2> QED
    BY <2>2, SelectEmpty
<1>2. ASSUME NEW k \in 0 .. Len(s) - 1, k \in P
      PROVE  k + 1 \in P
  <2>1. k \in 0 .. Len(s) /\ k # Len(s) /\ k <= Len(s) /\ k + 1 <= Len(s) /\ k + 1 \in Nat
        /\ k + 1 \in 1 .. Len(s)
    OBVIOUS
  <2>2. Pre(k + 1) = Append(Pre(k), s[k + 1])
    BY <2>1, NextPrefix
  <2>3. s[k + 1] \in U
    BY <2>1 DEF Elems
  <2>4. Select(Pre(k + 1), U) = Append(Select(Pre(k), U), s[k + 1])
    BY <2>1, <2>3, SelectNext
  <2> HIDE DEF Pre
  <2> QED
    BY <1>2, <2>1, <2>2, <2>4
<1>3. Len(s) \in P
  <2>1. P \in SUBSET Nat /\ Len(s) \in Nat /\ Len(s) \in 0 .. Len(s)
    OBVIOUS
  <2> HIDE DEF P
  <2> QED
    BY <1>1, <1>2, <2>1, UpTo
<1>4. Pre(Len(s)) = s
  OBVIOUS
<1> QED
  <2>1. Len(s) \in Nat /\ Len(s) <= Len(s)
    OBVIOUS
  <2> HIDE DEF Pre
  <2> QED
    BY <1>3, <1>4, <2>1

-----------------------------------------------------------------------------
(***************************************************************************)
(* The transitions that the files begin with                               *)
(***************************************************************************)

LEMMA IntervalFacts ==
  ASSUME NEW a \in Nat \ {0}, NEW b \in Nat, a <= b + 1
  PROVE  /\ Len(Interval(a, b)) = b - a + 1
         /\ \A k \in 1 .. b - a + 1 : Interval(a, b)[k] = a + k - 1
         /\ Interval(a, b) \in Seq(a .. b)
         /\ Elems(Interval(a, b)) = a .. b
         /\ \A T : Once(T, Interval(a, b))
<1> DEFINE n == b - a + 1
           s == Interval(a, b)
<1>1. n \in Nat /\ s = [k \in 1 .. n |-> a + k - 1]
  BY DEF Interval
<1>2. \A k \in 1 .. n : a + k - 1 \in a .. b
  OBVIOUS
<1>3. s \in Seq(a .. b) /\ Len(s) = n /\ \A k \in 1 .. n : s[k] = a + k - 1
  <2> HIDE DEF n
  <2>1. s \in [1 .. n -> a .. b]
    BY <1>1, <1>2
  <2> QED
    BY <1>1, <2>1, SMTT(30)
<1>4. Elems(s) = a .. b
  <2>1. ASSUME NEW i \in a .. b
        PROVE  i - a + 1 \in 1 .. n /\ a + (i - a + 1) - 1 = i
    OBVIOUS
  <2> HIDE DEF n, s
  <2>2. ASSUME NEW i \in a .. b
        PROVE  s[i - a + 1] = i /\ i - a + 1 \in 1 .. n
    <3>1. i - a + 1 \in 1 .. n /\ a + (i - a + 1) - 1 = i
      BY <2>1
    <3>2. s[i - a + 1] = a + (i - a + 1) - 1
      BY <1>3, <3>1
    <3> QED
      BY <3>1, <3>2
  <2>3. \A k \in 1 .. n : s[k] \in a .. b
    BY <1>2, <1>3
  <2> QED
    BY <1>3, <2>2, <2>3 DEF Elems
<1>5. ASSUME NEW T
      PROVE  Once(T, s)
  <2>1. \A j, k \in 1 .. n : a + j - 1 = a + k - 1 => j = k
    BY <1>1
  <2> HIDE DEF n, s
  <2> QED
    BY <1>3, <2>1 DEF Once
<1> QED
  BY <1>3, <1>4, <1>5

LEMMA UptoZero ==
  ASSUME NEW T
  PROVE  Upto(T, 0) = <<>>
<1>1. Interval(1, 0) \in Seq(1 .. 0) /\ Elems(Interval(1, 0)) = 1 .. 0
  BY IntervalFacts
<1>2. 1 .. 0 = {}
  OBVIOUS
<1> QED
  BY <1>1, <1>2, SelectNone DEF Upto

LEMMA UptoType ==
  ASSUME NEW T, NEW n \in Nat
  PROVE  Upto(T, n) \in Seq(1 .. n) /\ Upto(T, n) \in Seq(T)
<1>1. Interval(1, n) \in Seq(1 .. n)
  BY IntervalFacts
<1> QED
  BY <1>1, SelectFacts DEF Upto

LEMMA FirstEvents ==
  ASSUME NEW n \in Nat
  PROVE  Interval(1, n) \in Seq(1 .. n) /\ Len(Interval(1, n)) = n /\ \A k \in 1 .. n : Interval(1, n)[k] = k
<1>1. PICK a : a = 1
  OBVIOUS
<1> DEFINE s == Interval(a, n)
<1>2. a \in Nat \ {0} /\ a <= n + 1
  BY <1>1
<1>3. s \in Seq(a .. n) /\ Len(s) = n - a + 1
  BY <1>2, IntervalFacts
<1>4. \A k \in 1 .. n - a + 1 : s[k] = a + k - 1
  BY <1>2, IntervalFacts
<1> HIDE DEF s
<1>5. s \in Seq(1 .. n) /\ Len(s) = n /\ \A k \in 1 .. n : s[k] = k
  BY <1>1, <1>3, <1>4
<1> QED
  BY <1>1, <1>5 DEF s

LEMMA PrefixAppend ==
  ASSUME NEW S, NEW u \in Seq(S), NEW x \in S
  PROVE  /\ \A j \in 0 .. Len(u) : SubSeq(Append(u, x), 1, j) = SubSeq(u, 1, j)
         /\ \A j \in 1 .. Len(u) : Append(u, x)[j] = u[j]
         /\ SubSeq(Append(u, x), 1, Len(u) + 1) = Append(u, x)
         /\ Append(u, x)[Len(u) + 1] = x /\ Len(Append(u, x)) = Len(u) + 1
         /\ SubSeq(u, 1, Len(u)) = u /\ Len(u) \in Nat
  OBVIOUS

LEMMA UptoNext ==
  ASSUME NEW T, NEW n \in Nat
  PROVE  Upto(T, n + 1) = IF n + 1 \in T THEN Append(Upto(T, n), n + 1) ELSE Upto(T, n)
<1> DEFINE s == Interval(1, n)
           t == Interval(1, n + 1)
<1>1. s \in Seq(1 .. n) /\ Len(s) = n /\ \A k \in 1 .. n : s[k] = k
  BY FirstEvents
<1>2. t \in Seq(1 .. n + 1) /\ Len(t) = n + 1 /\ \A k \in 1 .. n + 1 : t[k] = k
  BY FirstEvents
<1> HIDE DEF s, t
<1>3. t = Append(s, n + 1)
  BY <1>1, <1>2
<1>4. s \in Seq(Nat) /\ n + 1 \in Nat
  BY <1>1
<1>5. Select(Append(s, n + 1), T) = IF n + 1 \in T THEN Append(Select(s, T), n + 1) ELSE Select(s, T)
  BY <1>4, SelectAppend, ZenonT(30)
<1> QED
  BY <1>3, <1>5 DEF Upto, s, t

\* Which transition is at which place.
LEMMA UptoPlace ==
  ASSUME NEW T, NEW N \in Nat, NEW k \in 1 .. Len(Upto(T, N))
  PROVE  /\ Upto(T, N)[k] \in 1 .. N /\ Upto(T, N)[k] \in T
         /\ Upto(T, Upto(T, N)[k] - 1) = SubSeq(Upto(T, N), 1, k - 1)
         /\ Upto(T, Upto(T, N)[k]) = SubSeq(Upto(T, N), 1, k)
<1> DEFINE U(n) == Upto(T, n)
           P == {n \in Nat : \A j \in 1 .. Len(U(n)) :
                   U(U(n)[j] - 1) = SubSeq(U(n), 1, j - 1) /\ U(U(n)[j]) = SubSeq(U(n), 1, j)}
<1>1. 0 \in P
  <2>1. U(0) = <<>>
    BY UptoZero
  <2> HIDE DEF U
  <2> QED
    BY <2>1
<1>2. ASSUME NEW n \in 0 .. N - 1, n \in P
      PROVE  n + 1 \in P
  <2>1. n \in Nat /\ n + 1 \in Nat /\ n + 1 - 1 = n
    OBVIOUS
  <2>2. U(n + 1) = IF n + 1 \in T THEN Append(U(n), n + 1) ELSE U(n)
    BY <2>1, UptoNext
  <2>3. U(n) \in Seq(1 .. n)
    BY <2>1, UptoType
  <2> HIDE DEF U
  <2>4. CASE n + 1 \in T
    <3>1. U(n + 1) = Append(U(n), n + 1)
      BY <2>2, <2>4
    <3> DEFINE u == U(n)
               v == U(n + 1)
               l == Len(u)
    <3>2. u \in Seq(Nat) /\ n + 1 \in Nat
      BY <2>3
    <3>3. /\ \A j \in 0 .. l : SubSeq(v, 1, j) = SubSeq(u, 1, j)
          /\ \A j \in 1 .. l : v[j] = u[j]
          /\ SubSeq(v, 1, l + 1) = v /\ v[l + 1] = n + 1 /\ Len(v) = l + 1
          /\ SubSeq(u, 1, l) = u /\ l \in Nat
      <4> HIDE DEF u, l
      <4>1. v = Append(u, n + 1)
        BY <3>1 DEF u
      <4> HIDE DEF v
      <4>2. /\ \A j \in 0 .. l : SubSeq(v, 1, j) = SubSeq(u, 1, j)
            /\ \A j \in 1 .. l : v[j] = u[j]
        BY <3>2, <4>1, PrefixAppend DEF l
      <4>3. /\ SubSeq(v, 1, l + 1) = v /\ v[l + 1] = n + 1 /\ Len(v) = l + 1
            /\ SubSeq(u, 1, l) = u /\ l \in Nat
        BY <3>2, <4>1, PrefixAppend DEF l
      <4> QED
        BY <4>2, <4>3
    <3>4. \A j \in 1 .. l : U(u[j] - 1) = SubSeq(u, 1, j - 1) /\ U(u[j]) = SubSeq(u, 1, j)
      BY <1>2
    <3>5. U(n + 1) = v /\ U(n) = u
      OBVIOUS
    <3> HIDE DEF u, v, l
    <3>6. ASSUME NEW j \in 1 .. Len(v)
          PROVE  U(v[j] - 1) = SubSeq(v, 1, j - 1) /\ U(v[j]) = SubSeq(v, 1, j)
      <4>1. CASE j \in 1 .. l
        <5>1. j \in 0 .. l /\ j - 1 \in 0 .. l
          BY <3>3, <4>1
        <5> QED
          BY <3>3, <3>4, <4>1, <5>1
      <4>2. CASE j = l + 1
        <5>1. j - 1 = l /\ l \in 0 .. l
          BY <3>3, <4>2
        <5>2. v[j] = n + 1 /\ v[j] - 1 = n
          BY <2>1, <3>3, <4>2
        <5>3. SubSeq(v, 1, j - 1) = u /\ SubSeq(v, 1, j) = v
          BY <3>3, <4>2, <5>1
        <5> QED
          BY <3>5, <5>2, <5>3
      <4> QED
        BY <3>3, <4>1, <4>2
    <3>8. \A j \in 1 .. Len(U(n + 1)) :
            U(U(n + 1)[j] - 1) = SubSeq(U(n + 1), 1, j - 1) /\ U(U(n + 1)[j]) = SubSeq(U(n + 1), 1, j)
      BY <3>5, <3>6
    <3> QED
      BY <2>1, <3>8
  <2>5. CASE n + 1 \notin T
    BY <1>2, <2>1, <2>2, <2>5
  <2> QED
    BY <2>4, <2>5
<1>3. N \in P
  <2>1. P \in SUBSET Nat /\ N \in 0 .. N
    OBVIOUS
  <2> HIDE DEF P
  <2> QED
    BY <1>1, <1>2, <2>1, UpTo
<1>4. U(N) \in Seq(1 .. N) /\ U(N) \in Seq(T)
  BY UptoType
<1>5. U(N)[k] \in 1 .. N /\ U(N)[k] \in T
  BY <1>4
<1> QED
  BY <1>3, <1>5

LEMMA UptoPrefix ==
  ASSUME NEW T, NEW m \in Nat, NEW N \in Nat, m <= N
  PROVE  /\ Len(Upto(T, m)) <= Len(Upto(T, N))
         /\ SubSeq(Upto(T, N), 1, Len(Upto(T, m))) = Upto(T, m)
<1> DEFINE U(n) == Upto(T, n)
           P == {n \in Nat : m <= n => Len(U(m)) <= Len(U(n)) /\ SubSeq(U(n), 1, Len(U(m))) = U(m)}
<1>0. U(m) \in Seq(Nat) /\ Len(U(m)) \in Nat
  <2>1. U(m) \in Seq(1 .. m)
    BY UptoType
  <2> HIDE DEF U
  <2> QED
    BY <2>1
<1>4. Len(U(m)) <= Len(U(m)) /\ SubSeq(U(m), 1, Len(U(m))) = U(m)
  <2> HIDE DEF U
  <2> QED
    BY <1>0
<1>1. 0 \in P
  <2>1. m <= 0 => m = 0
    OBVIOUS
  <2> HIDE DEF U
  <2> QED
    BY <1>4, <2>1
<1>2. ASSUME NEW n \in 0 .. N - 1, n \in P
      PROVE  n + 1 \in P
  <2>1. n \in Nat /\ n + 1 \in Nat /\ (m <= n + 1 => m <= n \/ m = n + 1)
    OBVIOUS
  <2>2. U(n + 1) = IF n + 1 \in T THEN Append(U(n), n + 1) ELSE U(n)
    BY <2>1, UptoNext
  <2>3. U(n) \in Seq(1 .. n)
    BY <2>1, UptoType
  <2> HIDE DEF U
  <2>4. U(n) \in Seq(Nat) /\ Len(U(n)) \in Nat
    BY <2>3
  <2>5. CASE m = n + 1
    BY <1>4, <2>1, <2>5
  <2>6. CASE m <= n
    <3>1. Len(U(m)) <= Len(U(n)) /\ SubSeq(U(n), 1, Len(U(m))) = U(m)
      BY <1>2, <2>6
    <3>2. CASE n + 1 \in T
      <4> DEFINE l == Len(U(m))
                 u == U(n)
      <4>1. l \in Nat /\ l <= Len(u) /\ u \in Seq(Nat) /\ U(n + 1) = Append(u, n + 1) /\ SubSeq(u, 1, l) = U(m)
        BY <1>0, <2>2, <2>4, <3>1, <3>2
      <4> HIDE DEF l, u
      <4>2. l <= Len(Append(u, n + 1)) /\ SubSeq(Append(u, n + 1), 1, l) = SubSeq(u, 1, l)
        BY <2>1, <4>1
      <4>3. Len(U(m)) <= Len(U(n + 1)) /\ SubSeq(U(n + 1), 1, Len(U(m))) = U(m)
        BY <4>1, <4>2 DEF l
      <4> QED
        BY <2>1, <4>3
    <3>3. CASE n + 1 \notin T
      BY <2>1, <2>2, <3>1, <3>3
    <3> QED
      BY <3>2, <3>3
  <2> QED
    BY <2>1, <2>5, <2>6
<1>3. N \in P
  <2>1. P \in SUBSET Nat /\ N \in 0 .. N
    OBVIOUS
  <2> HIDE DEF P
  <2> QED
    BY <1>1, <1>2, <2>1, UpTo
<1> QED
  BY <1>3

-----------------------------------------------------------------------------
(***************************************************************************)
(* Events that come when the transitions before them were given            *)
(***************************************************************************)

LEMMA UptoEvent ==
  ASSUME NEW T, NEW i \in Events
  PROVE  /\ Upto(T, i) = IF i \in T THEN Append(Upto(T, i - 1), i) ELSE Upto(T, i - 1)
         /\ Upto(T, i - 1) \in Seq(Events) /\ Upto(T, i) \in Seq(Events)
<1>1. PICK n : n = i - 1
  OBVIOUS
<1>2. NumEvents \in Nat /\ n \in Nat /\ i \in Nat /\ n + 1 = i /\ 1 .. i \subseteq Events /\ 1 .. n \subseteq Events
  BY <1>1, CountsAssumption DEF Events
<1>3. Upto(T, n + 1) = IF n + 1 \in T THEN Append(Upto(T, n), n + 1) ELSE Upto(T, n)
  BY <1>2, UptoNext
<1>4. Upto(T, n) \in Seq(1 .. n) /\ Upto(T, i) \in Seq(1 .. i)
  BY <1>2, UptoType
<1> QED
  BY <1>1, <1>2, <1>3, <1>4

LEMMA UptoSeq ==
  ASSUME NEW T, NEW n \in 0 .. NumEvents
  PROVE  Upto(T, n) \in Seq(Events)
<1>1. n \in Nat /\ 1 .. n \subseteq Events
  BY CountsAssumption DEF Events
<1> QED
  BY <1>1, UptoType

LEMMA ConcatFacts ==
  ASSUME NEW S, NEW s \in Seq(S), NEW t \in Seq(S)
  PROVE  /\ s \o t \in Seq(S) /\ Len(s \o t) = Len(s) + Len(t)
         /\ \A k \in 1 .. Len(s) : (s \o t)[k] = s[k]
         /\ \A k \in 1 .. Len(t) : (s \o t)[Len(s) + k] = t[k]
         /\ \A k \in 1 .. Len(s \o t) :
              k \in 1 .. Len(s) \/ \E j \in 1 .. Len(t) : k = Len(s) + j
<1> DEFINE r == s \o t
<1>1. r \in Seq(S) /\ Len(r) = Len(s) + Len(t) /\ Len(s) \in Nat /\ Len(t) \in Nat
  OBVIOUS
<1>2. \A k \in 1 .. Len(s) : r[k] = s[k]
  OBVIOUS
<1>3. \A k \in 1 .. Len(t) : r[Len(s) + k] = t[k]
  OBVIOUS
<1> HIDE DEF r
<1>4. ASSUME NEW k \in 1 .. Len(r), k \notin 1 .. Len(s)
      PROVE  \E j \in 1 .. Len(t) : k = Len(s) + j
  <2>1. k - Len(s) \in 1 .. Len(t) /\ k = Len(s) + (k - Len(s))
    BY <1>1, <1>4
  <2> QED
    BY <2>1
<1> QED
  BY <1>1, <1>2, <1>3, <1>4 DEF r

LEMMA LeadsEmpty ==
  ASSUME NEW T, NEW c, NEW d
  PROVE  Leads(T, c, <<>>, d) <=> c = d
<1>1. Len(<<>>) = 0 /\ 1 .. 0 = {}
  OBVIOUS
<1> QED
  BY <1>1 DEF Leads, After

LEMMA LeadsConcat ==
  ASSUME NEW T, NEW c, NEW d, NEW f, NEW s \in Seq(Events), NEW t \in Seq(Events),
         Leads(T, c, s, d), Leads(T, d, t, f)
  PROVE  Leads(T, c, s \o t, f)
<1> DEFINE r == s \o t
           m == Len(s)
           n == Len(t)
<1>1. /\ Len(r) = m + n /\ m \in Nat /\ n \in Nat
      /\ \A k \in 1 .. m : r[k] = s[k]
      /\ \A k \in 1 .. n : r[m + k] = t[k]
      /\ \A k \in 1 .. Len(r) : k \in 1 .. m \/ \E j \in 1 .. n : k = m + j
  <2>1. m \in Nat /\ n \in Nat
    OBVIOUS
  <2>2. Len(r) = m + n
    BY ConcatFacts
  <2>3. \A k \in 1 .. m : r[k] = s[k]
    BY ConcatFacts
  <2>4. \A k \in 1 .. n : r[m + k] = t[k]
    BY ConcatFacts
  <2>5. \A k \in 1 .. Len(r) : k \in 1 .. m \/ \E j \in 1 .. n : k = m + j
    BY ConcatFacts
  <2> QED
    BY <2>1, <2>2, <2>3, <2>4, <2>5
<1>2. /\ \A k \in 1 .. m : Upto(T, s[k] - 1) = After(T, c, s, k - 1)
      /\ After(T, c, s, m) = d
  BY DEF Leads
<1>3. /\ \A k \in 1 .. n : Upto(T, t[k] - 1) = After(T, d, t, k - 1)
      /\ After(T, d, t, n) = f
  BY DEF Leads
<1> HIDE DEF r, m, n
<1>4. \A k \in 0 .. m : After(T, c, r, k) = After(T, c, s, k)
  BY <1>1 DEF After
<1>5. ASSUME NEW k \in 0 .. n
      PROVE  After(T, c, r, m + k) = After(T, d, t, k)
  <2>1. CASE k = 0
    <3>1. m \in 0 .. m /\ m + k = m
      BY <1>1, <2>1
    <3> QED
      BY <1>2, <1>4, <2>1, <3>1 DEF After
  <2>2. CASE k # 0
    <3>1. k \in 1 .. n /\ m + k # 0
      BY <1>1, <2>2
    <3> QED
      BY <1>1, <2>2, <3>1 DEF After
  <2> QED
    BY <2>1, <2>2
<1>6. ASSUME NEW k \in 1 .. Len(r)
      PROVE  Upto(T, r[k] - 1) = After(T, c, r, k - 1)
  <2>1. CASE k \in 1 .. m
    <3>1. k - 1 \in 0 .. m
      BY <1>1, <2>1
    <3> QED
      BY <1>1, <1>2, <1>4, <2>1, <3>1
  <2>2. CASE \E j \in 1 .. n : k = m + j
    <3>1. PICK j \in 1 .. n : k = m + j
      BY <2>2
    <3>2. k - 1 = m + (j - 1) /\ j - 1 \in 0 .. n
      BY <1>1, <3>1
    <3>3. After(T, c, r, m + (j - 1)) = After(T, d, t, j - 1)
      BY <1>5, <3>2
    <3>4. Upto(T, t[j] - 1) = After(T, d, t, j - 1) /\ r[k] = t[j]
      BY <1>1, <1>3, <3>1
    <3> QED
      BY <3>2, <3>3, <3>4
  <2> QED
    BY <1>1, <2>1, <2>2
<1>7. After(T, c, r, Len(r)) = f
  <2>1. n \in 0 .. n
    BY <1>1
  <2> QED
    BY <1>1, <1>3, <1>5, <2>1
<1> QED
  BY <1>6, <1>7 DEF Leads, r

\* A sequence may be cut anywhere.
LEMMA LeadsSplit ==
  ASSUME NEW T, NEW c, NEW d, NEW s \in Seq(Events), NEW m \in 0 .. Len(s), Leads(T, c, s, d)
  PROVE  /\ Leads(T, c, SubSeq(s, 1, m), After(T, c, s, m))
         /\ Leads(T, After(T, c, s, m), SubSeq(s, m + 1, Len(s)), d)
<1> DEFINE p == SubSeq(s, 1, m)
           q == SubSeq(s, m + 1, Len(s))
           n == Len(s) - m
           g == After(T, c, s, m)
<1>1. /\ Len(p) = m /\ m \in Nat /\ \A k \in 1 .. m : p[k] = s[k]
      /\ Len(q) = n /\ n \in Nat /\ \A k \in 1 .. n : q[k] = s[m + k]
      /\ Len(s) = m + n
  OBVIOUS
<1>2. /\ \A k \in 1 .. m + n : Upto(T, s[k] - 1) = After(T, c, s, k - 1)
      /\ After(T, c, s, m + n) = d
  BY <1>1 DEF Leads
<1> HIDE DEF p, q, n
<1>3. \A k \in 0 .. m : After(T, c, p, k) = After(T, c, s, k)
  BY <1>1 DEF After
<1>4. ASSUME NEW k \in 0 .. n
      PROVE  After(T, g, q, k) = After(T, c, s, m + k)
  <2>1. CASE k = 0
    BY <1>1, <2>1 DEF After
  <2>2. CASE k # 0
    <3>1. k \in 1 .. n /\ m + k # 0
      BY <1>1, <2>2
    <3> QED
      BY <1>1, <2>2, <3>1 DEF After
  <2> QED
    BY <2>1, <2>2
<1> HIDE DEF g
<1>5. Leads(T, c, p, g)
  <2>1. ASSUME NEW k \in 1 .. m
        PROVE  Upto(T, p[k] - 1) = After(T, c, p, k - 1)
    <3>1. k - 1 \in 0 .. m /\ k \in 1 .. m + n
      BY <1>1
    <3> QED
      BY <1>1, <1>2, <1>3, <3>1
  <2>2. m \in 0 .. m
    BY <1>1
  <2>3. After(T, c, p, m) = g
    BY <1>3, <2>2 DEF g
  <2> QED
    BY <1>1, <2>1, <2>3 DEF Leads
<1>6. Leads(T, g, q, d)
  <2>1. ASSUME NEW k \in 1 .. n
        PROVE  Upto(T, q[k] - 1) = After(T, g, q, k - 1)
    <3>1. k - 1 \in 0 .. n /\ m + k \in 1 .. m + n /\ m + k - 1 = m + (k - 1)
      BY <1>1
    <3>2. Upto(T, s[m + k] - 1) = After(T, c, s, m + k - 1)
      BY <1>2, <3>1
    <3>3. After(T, g, q, k - 1) = After(T, c, s, m + (k - 1))
      BY <1>4, <3>1
    <3> QED
      BY <1>1, <3>1, <3>2, <3>3
  <2>2. n \in 0 .. n
    BY <1>1
  <2>3. After(T, g, q, n) = d
    BY <1>2, <1>4, <2>2
  <2> QED
    BY <1>1, <2>1, <2>3 DEF Leads
<1> QED
  BY <1>5, <1>6 DEF p, q, g

LEMMA AfterSeq ==
  ASSUME NEW T, NEW c \in Seq(Events), NEW s \in Seq(Events), NEW k \in 0 .. Len(s)
  PROVE  After(T, c, s, k) \in Seq(Events)
<1>1. CASE k = 0
  BY <1>1 DEF After
<1>2. CASE k # 0
  <2>1. k \in 1 .. Len(s)
    BY <1>2
  <2>2. s[k] \in Events
    BY <2>1
  <2>3. Upto(T, s[k]) \in Seq(Events)
    BY <2>2, UptoEvent
  <2> QED
    BY <1>2, <2>3 DEF After
<1> QED
  BY <1>1, <1>2

\* What the events lead to: the transitions among them are added.
LEMMA LeadsSteps ==
  ASSUME NEW T, NEW c \in Seq(Events), NEW d, NEW s \in Seq(Events), Leads(T, c, s, d)
  PROVE  /\ \A k \in 0 .. Len(s) : After(T, c, s, k) = c \o Select(SubSeq(s, 1, k), T)
         /\ d = c \o Select(s, T) /\ d \in Seq(Events)
<1> DEFINE Pre(k) == SubSeq(s, 1, k)
           Sel(k) == Select(Pre(k), T)
           P == {k \in Nat : k <= Len(s) => After(T, c, s, k) = c \o Sel(k)}
<1>1. 0 \in P
  <2>1. Pre(0) = <<>>
    OBVIOUS
  <2> HIDE DEF Pre
  <2>2. Sel(0) = <<>>
    BY <2>1, SelectEmpty
  <2> HIDE DEF Sel
  <2>3. c \o <<>> = c
    OBVIOUS
  <2> QED
    BY <2>2, <2>3 DEF After
<1>2. ASSUME NEW k \in 0 .. Len(s) - 1, k \in P
      PROVE  k + 1 \in P
  <2>1. k \in 0 .. Len(s) /\ k # Len(s) /\ k <= Len(s) /\ k + 1 <= Len(s) /\ k + 1 \in Nat
        /\ k + 1 \in 1 .. Len(s) /\ k + 1 # 0 /\ k + 1 - 1 = k /\ s[k + 1] \in Events
    OBVIOUS
  <2>2. Sel(k + 1) = IF s[k + 1] \in T THEN Append(Sel(k), s[k + 1]) ELSE Sel(k)
    BY <2>1, SelectNext
  <2>3. Sel(k) \in Seq(Events)
    <3>1. Pre(k) \in Seq(Events)
      BY <2>1
    <3> QED
      BY <3>1, SelectFacts
  <2> HIDE DEF Pre, Sel
  <2> DEFINE x == s[k + 1]
             a == After(T, c, s, k)
  <2>4. a = c \o Sel(k)
    BY <1>2, <2>1
  <2>5. Upto(T, x - 1) = a
    BY <2>1 DEF Leads
  <2>6. After(T, c, s, k + 1) = Upto(T, x)
    BY <2>1 DEF After
  <2>7. x \in Events
    BY <2>1
  <2> HIDE DEF x, a
  <2>8. Upto(T, x) = IF x \in T THEN Append(a, x) ELSE a
    BY <2>5, <2>7, UptoEvent
  <2>9. Append(c \o Sel(k), x) = c \o Append(Sel(k), x)
    BY <2>3, <2>7, SMTT(30)
  <2>10. After(T, c, s, k + 1) = c \o Sel(k + 1)
    BY <2>2, <2>4, <2>6, <2>8, <2>9 DEF x
  <2> QED
    BY <2>1, <2>10
<1>3. 0 .. Len(s) \subseteq P
  <2>1. P \in SUBSET Nat /\ Len(s) \in Nat
    OBVIOUS
  <2> HIDE DEF P
  <2> QED
    BY <1>1, <1>2, <2>1, UpTo
<1>4. ASSUME NEW k \in 0 .. Len(s)
      PROVE  After(T, c, s, k) = c \o Select(SubSeq(s, 1, k), T)
  <2>1. k \in P /\ k <= Len(s)
    BY <1>3
  <2> QED
    BY <2>1
<1>5. d = After(T, c, s, Len(s)) /\ Len(s) \in 0 .. Len(s) /\ SubSeq(s, 1, Len(s)) = s
  BY DEF Leads
<1>6. d = c \o Select(s, T)
  <2>1. After(T, c, s, Len(s)) = c \o Select(SubSeq(s, 1, Len(s)), T)
    BY <1>4, <1>5
  <2> QED
    BY <1>5, <2>1
<1>7. d \in Seq(Events)
  BY <1>5, AfterSeq
<1> QED
  BY <1>4, <1>6, <1>7

LEMMA LeadsSum ==
  ASSUME NEW T, NEW c \in Seq(Events), NEW d, NEW s \in Seq(Events), Leads(T, c, s, d)
  PROVE  d = c \o Select(s, T)
<1>1. /\ \A k \in 0 .. Len(s) : After(T, c, s, k) = c \o Select(SubSeq(s, 1, k), T)
      /\ d = c \o Select(s, T) /\ d \in Seq(Events)
  BY LeadsSteps
<1> QED
  BY <1>1

\* Where they lead to, if not to where they come from.
LEMMA LeadsTo ==
  ASSUME NEW T, NEW c, NEW d, NEW s \in Seq(Events), Leads(T, c, s, d)
  PROVE  d = c \/ \E n \in 0 .. NumEvents : d = Upto(T, n)
<1>1. d = After(T, c, s, Len(s))
  BY DEF Leads
<1>2. CASE Len(s) = 0
  BY <1>1, <1>2 DEF After
<1>3. CASE Len(s) # 0
  <2>1. Len(s) \in 1 .. Len(s)
    BY <1>3
  <2>2. s[Len(s)] \in Events
    BY <2>1
  <2>3. s[Len(s)] \in 0 .. NumEvents
    BY <2>2, CountsAssumption DEF Events
  <2> QED
    BY <1>1, <1>3, <2>3 DEF After
<1> QED
  BY <1>2, <1>3

LEMMA LeadsOne ==
  ASSUME NEW T, NEW x
  PROVE  Leads(T, Upto(T, x - 1), <<x>>, Upto(T, x))
<1>1. Len(<<x>>) = 1 /\ <<x>>[1] = x
  OBVIOUS
<1>2. ASSUME NEW k \in 1 .. 1
      PROVE  k = 1 /\ k - 1 = 0
  OBVIOUS
<1> QED
  BY <1>1, <1>2 DEF Leads, After

\* L1Accepts may be left out.
LEMMA LeadsSelect ==
  ASSUME NEW T, NEW c, NEW d, NEW s \in Seq(Events), NEW U, Leads(T, c, s, d), Elems(s) \cap T \subseteq U
  PROVE  Leads(T, c, Select(s, U), d)
<1> DEFINE Pre(k) == SubSeq(s, 1, k)
           Sel(k) == Select(Pre(k), U)
           P == {k \in Nat : k <= Len(s) => Leads(T, c, Sel(k), After(T, c, s, k))}
<1>1. 0 \in P
  <2>1. Pre(0) = <<>>
    OBVIOUS
  <2> HIDE DEF Pre
  <2>2. Sel(0) = <<>>
    BY <2>1, SelectEmpty
  <2> HIDE DEF Sel
  <2>3. After(T, c, s, 0) = c
    BY DEF After
  <2> QED
    BY <2>2, <2>3, LeadsEmpty
<1>2. ASSUME NEW k \in 0 .. Len(s) - 1, k \in P
      PROVE  k + 1 \in P
  <2>1. k \in 0 .. Len(s) /\ k # Len(s) /\ k <= Len(s) /\ k + 1 <= Len(s) /\ k + 1 \in Nat
        /\ k + 1 \in 1 .. Len(s) /\ k + 1 # 0 /\ k + 1 - 1 = k /\ s[k + 1] \in Events
    OBVIOUS
  <2>2. Sel(k + 1) = IF s[k + 1] \in U THEN Append(Sel(k), s[k + 1]) ELSE Sel(k)
    BY <2>1, SelectNext
  <2>3. Sel(k) \in Seq(Events)
    <3>1. Pre(k) \in Seq(Events)
      BY <2>1
    <3> QED
      BY <3>1, SelectFacts
  <2>4. s[k + 1] \in Elems(s)
    BY <2>1 DEF Elems
  <2> HIDE DEF Pre, Sel
  <2> DEFINE x == s[k + 1]
             a == After(T, c, s, k)
  <2>5. Leads(T, c, Sel(k), a)
    BY <1>2, <2>1
  <2>6. Upto(T, x - 1) = a
    BY <2>1 DEF Leads
  <2>7. After(T, c, s, k + 1) = Upto(T, x)
    BY <2>1 DEF After
  <2>8. x \in Events /\ (x \in T => x \in U)
    BY <2>1, <2>4
  <2>9. Sel(k + 1) = IF x \in U THEN Append(Sel(k), x) ELSE Sel(k)
    BY <2>2
  <2> HIDE DEF x, a
  <2>10. CASE x \in U
    <3>1. Leads(T, a, <<x>>, Upto(T, x))
      BY <2>6, LeadsOne
    <3>2. Append(Sel(k), x) = Sel(k) \o <<x>> /\ <<x>> \in Seq(Events)
      BY <2>3, <2>8
    <3>3. Leads(T, c, Sel(k) \o <<x>>, Upto(T, x))
      BY <2>3, <2>5, <3>1, <3>2, LeadsConcat
    <3>4. Leads(T, c, Sel(k + 1), After(T, c, s, k + 1))
      BY <2>7, <2>9, <2>10, <3>2, <3>3
    <3> QED
      BY <2>1, <3>4
  <2>11. CASE x \notin U
    <3>1. Upto(T, x) = a
      BY <2>6, <2>8, <2>11, UptoEvent
    <3>2. Leads(T, c, Sel(k + 1), After(T, c, s, k + 1))
      BY <2>5, <2>7, <2>9, <2>11, <3>1
    <3> QED
      BY <2>1, <3>2
  <2> QED
    BY <2>10, <2>11
<1>3. Len(s) \in P
  <2>1. P \in SUBSET Nat /\ Len(s) \in Nat /\ Len(s) \in 0 .. Len(s)
    OBVIOUS
  <2> HIDE DEF P
  <2> QED
    BY <1>1, <1>2, <2>1, UpTo
<1>4. Pre(Len(s)) = s /\ d = After(T, c, s, Len(s)) /\ Len(s) \in Nat /\ Len(s) <= Len(s)
  BY DEF Leads
<1> HIDE DEF Pre
<1> QED
  BY <1>3, <1>4

\* The transitions from one place on lead from those before.
LEMMA LeadsMissing ==
  ASSUME NEW T, NEW N \in 0 .. NumEvents, NEW a \in Nat, NEW b \in Nat, a <= b, b <= Len(Upto(T, N))
  PROVE  /\ Leads(T, SubSeq(Upto(T, N), 1, a), SubSeq(Upto(T, N), a + 1, b), SubSeq(Upto(T, N), 1, b))
         /\ SubSeq(Upto(T, N), a + 1, b) \in Seq(Events)
         /\ Elems(SubSeq(Upto(T, N), a + 1, b)) \subseteq T
<1> DEFINE u == Upto(T, N)
           s == SubSeq(u, a + 1, b)
           c == SubSeq(u, 1, a)
           n == b - a
<1>1. N \in Nat /\ u \in Seq(Events) /\ u \in Seq(T)
  <2>1. N \in Nat
    BY CountsAssumption
  <2> QED
    BY <2>1, UptoSeq, UptoType
<1>2. b <= Len(u) /\ n \in Nat
  OBVIOUS
<1>3. \A k \in 1 .. Len(u) :
        Upto(T, u[k] - 1) = SubSeq(u, 1, k - 1) /\ Upto(T, u[k]) = SubSeq(u, 1, k)
  BY <1>1, UptoPlace
<1> HIDE DEF u
<1>4. Len(s) = n /\ (\A k \in 1 .. n : s[k] = u[a + k]) /\ s \in Seq(Events) /\ s \in Seq(T)
  BY <1>1, <1>2
<1> HIDE DEF s
<1>5. ASSUME NEW k \in 0 .. n
      PROVE  After(T, c, s, k) = SubSeq(u, 1, a + k)
  <2>1. CASE k = 0
    BY <2>1 DEF After
  <2>2. CASE k # 0
    <3>1. k \in 1 .. n /\ a + k \in 1 .. Len(u)
      BY <1>1, <1>2, <2>2
    <3> QED
      BY <1>3, <1>4, <2>2, <3>1 DEF After
  <2> QED
    BY <2>1, <2>2
<1> HIDE DEF c
<1>6. ASSUME NEW k \in 1 .. n
      PROVE  Upto(T, s[k] - 1) = After(T, c, s, k - 1)
  <2>1. a + k \in 1 .. Len(u) /\ k - 1 \in 0 .. n /\ a + (k - 1) = a + k - 1
    BY <1>1, <1>2
  <2>2. After(T, c, s, k - 1) = SubSeq(u, 1, a + (k - 1))
    BY <1>5, <2>1
  <2>3. Upto(T, u[a + k] - 1) = SubSeq(u, 1, a + k - 1)
    BY <1>3, <2>1
  <2> QED
    BY <1>4, <2>1, <2>2, <2>3
<1>7. After(T, c, s, n) = SubSeq(u, 1, b)
  <2>1. n \in 0 .. n /\ a + n = b
    BY <1>2
  <2>2. After(T, c, s, n) = SubSeq(u, 1, a + n)
    BY <1>5, <2>1
  <2> QED
    BY <2>1, <2>2
<1>8. Leads(T, c, s, SubSeq(u, 1, b))
  BY <1>4, <1>6, <1>7 DEF Leads
<1>9. Elems(s) \subseteq T
  BY <1>4 DEF Elems
<1> QED
  BY <1>4, <1>8, <1>9 DEF u, s, c

LEMMA LeadsInterval ==
  ASSUME NEW T, NEW a \in Nat, NEW b \in Nat, a <= b
  PROVE  Leads(T, Upto(T, a), Interval(a + 1, b), Upto(T, b))
<1>1. PICK m : m = a + 1
  OBVIOUS
<1> DEFINE s == Interval(m, b)
           n == b - a
<1>2. m \in Nat \ {0} /\ m <= b + 1 /\ b - m + 1 = n /\ n \in Nat /\ \A k \in 1 .. n : m + k - 1 = a + k
  BY <1>1
<1>3. Len(s) = n
  BY <1>2, IntervalFacts
<1>4. \A k \in 1 .. n : s[k] = a + k
  <2>1. \A k \in 1 .. b - m + 1 : s[k] = m + k - 1
    BY <1>2, IntervalFacts
  <2> HIDE DEF s, n
  <2> QED
    BY <1>2, <2>1
<1>5. a + n = b /\ n \in 0 .. n
  OBVIOUS
<1> HIDE DEF s, n
<1> DEFINE c == Upto(T, a)
<1> HIDE DEF c
<1>6. ASSUME NEW k \in 0 .. n
      PROVE  After(T, c, s, k) = Upto(T, a + k)
  <2>1. CASE k = 0
    <3>1. a + k = a
      BY <2>1
    <3> QED
      BY <2>1, <3>1 DEF After, c
  <2>2. CASE k # 0
    <3>1. k \in 1 .. n
      BY <1>2, <2>2
    <3> QED
      BY <1>4, <2>2, <3>1 DEF After
  <2> QED
    BY <2>1, <2>2
<1>7. ASSUME NEW k \in 1 .. n
      PROVE  Upto(T, s[k] - 1) = After(T, c, s, k - 1)
  <2>1. k - 1 \in 0 .. n /\ a + (k - 1) = a + k - 1
    BY <1>2
  <2>2. After(T, c, s, k - 1) = Upto(T, a + (k - 1))
    BY <1>6, <2>1
  <2> QED
    BY <1>4, <2>1, <2>2
<1>8. After(T, c, s, n) = Upto(T, b)
  <2>1. After(T, c, s, n) = Upto(T, a + n)
    BY <1>5, <1>6
  <2> QED
    BY <1>5, <2>1
<1>9. Leads(T, c, s, Upto(T, b))
  BY <1>3, <1>7, <1>8 DEF Leads
<1> QED
  BY <1>1, <1>9 DEF c, s

-----------------------------------------------------------------------------
(***************************************************************************)
(* The L1Accepts in a sequence                                             *)
(***************************************************************************)

LEMMA ElemsConcat ==
  ASSUME NEW S, NEW s \in Seq(S), NEW t \in Seq(S)
  PROVE  Elems(s \o t) = Elems(s) \cup Elems(t)
<1> DEFINE r == s \o t
           m == Len(s)
           n == Len(t)
<1>1. m \in Nat /\ n \in Nat /\ Len(r) = m + n
  OBVIOUS
<1>2. \A k \in 1 .. m : r[k] = s[k]
  BY ConcatFacts
<1>3. \A k \in 1 .. n : r[m + k] = t[k]
  BY ConcatFacts
<1>4. \A k \in 1 .. Len(r) : k \in 1 .. m \/ \E j \in 1 .. n : k = m + j
  BY ConcatFacts
<1> HIDE DEF r, m, n
<1>5. \A k \in 1 .. n : m + k \in 1 .. Len(r)
  BY <1>1
<1>6. \A k \in 1 .. m : k \in 1 .. Len(r)
  BY <1>1
<1>7. ASSUME NEW x \in Elems(r)
      PROVE  x \in Elems(s) \cup Elems(t)
  <2>1. PICK k \in 1 .. Len(r) : x = r[k]
    BY DEF Elems
  <2>2. CASE k \in 1 .. m
    BY <1>2, <2>1, <2>2 DEF Elems, m
  <2>3. CASE \E j \in 1 .. n : k = m + j
    BY <1>3, <2>1, <2>3 DEF Elems, n
  <2> QED
    BY <1>4, <2>2, <2>3
<1>8. ASSUME NEW x \in Elems(s)
      PROVE  x \in Elems(r)
  <2>1. PICK k \in 1 .. m : x = s[k]
    BY DEF Elems, m
  <2> QED
    BY <1>2, <1>6, <2>1 DEF Elems
<1>9. ASSUME NEW x \in Elems(t)
      PROVE  x \in Elems(r)
  <2>1. PICK k \in 1 .. n : x = t[k]
    BY DEF Elems, n
  <2> QED
    BY <1>3, <1>5, <2>1 DEF Elems
<1> QED
  BY <1>7, <1>8, <1>9 DEF r

LEMMA OnceConcat ==
  ASSUME NEW S, NEW s \in Seq(S), NEW t \in Seq(S), NEW T, Once(T, s), Once(T, t),
         L1(T, s) \cap L1(T, t) = {}
  PROVE  Once(T, s \o t)
<1> DEFINE r == s \o t
           m == Len(s)
           n == Len(t)
<1>1. m \in Nat /\ n \in Nat /\ Len(r) = m + n
  OBVIOUS
<1>2. \A k \in 1 .. m : r[k] = s[k] /\ s[k] \in Elems(s)
  <2>1. \A k \in 1 .. m : r[k] = s[k]
    BY ConcatFacts
  <2> HIDE DEF r
  <2> QED
    BY <2>1 DEF Elems
<1>3. \A k \in 1 .. n : r[m + k] = t[k] /\ t[k] \in Elems(t)
  <2>1. \A k \in 1 .. n : r[m + k] = t[k]
    BY ConcatFacts
  <2> HIDE DEF r
  <2> QED
    BY <2>1 DEF Elems
<1>4. \A k \in 1 .. Len(r) : k \in 1 .. m \/ \E j \in 1 .. n : k = m + j
  BY ConcatFacts
<1>5. /\ \A j, k \in 1 .. m : s[j] = s[k] => s[j] \in T \/ j = k
      /\ \A j, k \in 1 .. n : t[j] = t[k] => t[j] \in T \/ j = k
  BY DEF Once
<1> HIDE DEF r, m, n
<1>6. SUFFICES ASSUME NEW j \in 1 .. Len(r), NEW k \in 1 .. Len(r), r[j] = r[k], r[j] \notin T
               PROVE  j = k
  BY DEF Once, r
<1>7. CASE j \in 1 .. m /\ k \in 1 .. m
  BY <1>2, <1>5, <1>6, <1>7
<1>8. CASE j \in 1 .. m /\ \E i \in 1 .. n : k = m + i
  BY <1>2, <1>3, <1>6, <1>8 DEF L1
<1>9. CASE k \in 1 .. m /\ \E i \in 1 .. n : j = m + i
  BY <1>2, <1>3, <1>6, <1>9 DEF L1
<1>10. CASE (\E i \in 1 .. n : j = m + i) /\ (\E i \in 1 .. n : k = m + i)
  BY <1>3, <1>5, <1>6, <1>10
<1> QED
  BY <1>4, <1>7, <1>8, <1>9, <1>10

LEMMA OnceSplit ==
  ASSUME NEW S, NEW s \in Seq(S), NEW m \in 0 .. Len(s)
  PROVE  /\ SubSeq(s, 1, m) \in Seq(S) /\ SubSeq(s, m + 1, Len(s)) \in Seq(S)
         /\ s = SubSeq(s, 1, m) \o SubSeq(s, m + 1, Len(s))
         /\ Elems(s) = Elems(SubSeq(s, 1, m)) \cup Elems(SubSeq(s, m + 1, Len(s)))
         /\ \A T : Once(T, s) =>
              /\ Once(T, SubSeq(s, 1, m)) /\ Once(T, SubSeq(s, m + 1, Len(s)))
              /\ L1(T, SubSeq(s, 1, m)) \cap L1(T, SubSeq(s, m + 1, Len(s))) = {}
<1> DEFINE p == SubSeq(s, 1, m)
           q == SubSeq(s, m + 1, Len(s))
           n == Len(s) - m
<1>1. p \in Seq(S) /\ q \in Seq(S)
  OBVIOUS
<1>3. /\ Len(p) = m /\ m \in Nat /\ \A k \in 1 .. m : p[k] = s[k]
      /\ Len(q) = n /\ n \in Nat /\ \A k \in 1 .. n : q[k] = s[m + k]
      /\ Len(s) = m + n
  <2>1. Len(p) = m /\ m \in Nat /\ \A k \in 1 .. m : p[k] = s[k]
    OBVIOUS
  <2>2. n \in Nat /\ Len(s) = m + n
    OBVIOUS
  <2>3. Len(q) = n
    OBVIOUS
  <2>4. \A k \in 1 .. n : q[k] = s[m + k]
    OBVIOUS
  <2> QED
    BY <2>1, <2>2, <2>3, <2>4
<1> HIDE DEF p, q, n
<1>2. s = p \o q
  <2>1. p \o q \in Seq(S) /\ Len(p \o q) = m + n
    <3>1. p \o q \in Seq(S) /\ Len(p \o q) = Len(p) + Len(q)
      BY <1>1, ConcatFacts
    <3> QED
      BY <1>3, <3>1
  <2>2. \A k \in 1 .. m : (p \o q)[k] = s[k]
    <3>1. \A k \in 1 .. Len(p) : (p \o q)[k] = p[k]
      BY <1>1, ConcatFacts
    <3> QED
      BY <1>3, <3>1
  <2>3. \A k \in 1 .. n : (p \o q)[m + k] = s[m + k]
    <3>1. \A k \in 1 .. Len(q) : (p \o q)[Len(p) + k] = q[k]
      BY <1>1, ConcatFacts
    <3> QED
      BY <1>3, <3>1
  <2>4. \A k \in 1 .. m + n : k \in 1 .. m \/ \E j \in 1 .. n : k = m + j
    <3>1. ASSUME NEW k \in 1 .. m + n, k \notin 1 .. m
          PROVE  k - m \in 1 .. n /\ k = m + (k - m)
      BY <1>3, <3>1
    <3> QED
      BY <3>1
  <2> DEFINE r == p \o q
  <2> HIDE DEF r
  <2>5. r \in Seq(S) /\ Len(r) = Len(s) /\ \A k \in 1 .. Len(s) : r[k] = s[k]
    <3>1. ASSUME NEW k \in 1 .. m + n
          PROVE  r[k] = s[k]
      BY <2>2, <2>3, <2>4 DEF r
    <3> QED
      BY <1>3, <2>1, <3>1 DEF r
  <2>6. r = s
    BY <2>5
  <2> QED
    BY <2>6 DEF r
<1>4. Elems(s) = Elems(p) \cup Elems(q)
  BY <1>1, <1>2, ElemsConcat
<1>5. (\A k \in 1 .. m : k \in 1 .. m + n) /\ (\A k \in 1 .. n : m + k \in 1 .. m + n)
      /\ (\A j \in 1 .. m, k \in 1 .. n : j # m + k)
      /\ (\A j, k \in 1 .. n : m + j = m + k => j = k)
  BY <1>3
<1>6. ASSUME NEW T, Once(T, s)
      PROVE  Once(T, p) /\ Once(T, q) /\ L1(T, p) \cap L1(T, q) = {}
  <2>1. \A j, k \in 1 .. m + n : s[j] = s[k] => s[j] \in T \/ j = k
    BY <1>3, <1>6 DEF Once
  <2>2. Once(T, p)
    BY <1>3, <1>5, <2>1 DEF Once
  <2>3. Once(T, q)
    <3>1. SUFFICES ASSUME NEW j \in 1 .. n, NEW k \in 1 .. n, q[j] = q[k]
                   PROVE  q[j] \in T \/ j = k
      BY <1>3 DEF Once
    <3>2. s[m + j] = s[m + k] /\ m + j \in 1 .. m + n /\ m + k \in 1 .. m + n /\ q[j] = s[m + j]
      BY <1>3, <1>5, <3>1
    <3>3. s[m + j] \in T \/ m + j = m + k
      BY <2>1, <3>2
    <3> QED
      BY <1>5, <3>2, <3>3
  <2>4. ASSUME NEW x \in L1(T, p), x \in L1(T, q)
        PROVE  FALSE
    <3>1. PICK j \in 1 .. m : x = s[j]
      BY <1>3, <2>4 DEF L1, Elems
    <3>2. PICK k \in 1 .. n : x = s[m + k]
      BY <1>3, <2>4 DEF L1, Elems
    <3>3. x \notin T
      BY DEF L1
    <3> QED
      BY <1>5, <2>1, <3>1, <3>2, <3>3
  <2> QED
    BY <2>2, <2>3, <2>4
<1> QED
  BY <1>1, <1>2, <1>4, <1>6 DEF p, q

LEMMA OnceSteps ==
  ASSUME NEW T, NEW s, Elems(s) \subseteq T
  PROVE  Once(T, s) /\ L1(T, s) = {}
  BY DEF Elems, L1, Once

-----------------------------------------------------------------------------
(***************************************************************************)
(* Cutting a chunk in batches                                              *)
(***************************************************************************)

LEMMA MinFacts ==
  ASSUME NEW m \in Nat \ {0}, NEW n \in Nat \ {0}
  PROVE  Min({m, n}) \in {m, n} /\ Min({m, n}) <= m /\ Min({m, n}) <= n
<1>1. CASE m <= n
  <2>1. \E x \in {m, n} : \A y \in {m, n} : x <= y
    BY <1>1
  <2> QED
    BY <2>1 DEF Min
<1>2. CASE n <= m
  <2>1. \E x \in {m, n} : \A y \in {m, n} : x <= y
    BY <1>2
  <2> QED
    BY <2>1 DEF Min
<1> QED
  BY <1>1, <1>2

LEMMA DestinationFacts ==
  ASSUME NEW e \in Ebs, NEW i \in Events
  PROVE  /\ Destination(e, i) \in Dests
         /\ i \in run.steps \/ ~run.destined => Destination(e, i) = 0
  BY DEF Destination, Dests, IsStep

LEMMA BatchFacts ==
  ASSUME NEW e \in Ebs, NEW todo \in Seq(Events), todo # <<>>, run.batch \in Nat \ {0}
  PROVE  \E m \in 1 .. Len(todo) :
           /\ SubSeq(todo, 1, m) \in Seq(Events)
           /\ Rest(todo) = SubSeq(todo, m + 1, Len(todo))
           /\ BatchDict(e, todo) =
                [d \in {Destination(e, i) : i \in Elems(SubSeq(todo, 1, m))} |->
                   Select(SubSeq(todo, 1, m), {i \in Events : Destination(e, i) = d})]
           /\ Elems(SubSeq(todo, 1, m)) # {}
           /\ run.batch = 1 => Elems(SubSeq(todo, 1, m)) = {todo[1]}
<1> DEFINE n == run.batch
           m == Min({n, Len(todo)})
           p == SubSeq(todo, 1, m)
<1>1. n \in Nat \ {0} /\ Len(todo) \in Nat \ {0}
  OBVIOUS
<1>2. m \in {n, Len(todo)} /\ m <= n /\ m <= Len(todo)
  <2> HIDE DEF n
  <2> QED
    BY <1>1, MinFacts
<1>3. BatchDict(e, todo) = [d \in {Destination(e, p[k]) : k \in DOMAIN p} |->
                   Select(p, {i \in Events : Destination(e, i) = d})]
  BY DEF BatchDict
<1>4. Rest(todo) = SubSeq(todo, n + 1, Len(todo))
  BY DEF Rest
<1> HIDE DEF n, m
<1>5. m \in 1 .. Len(todo) /\ p \in Seq(Events) /\ Len(p) = m /\ (\A k \in 1 .. m : p[k] = todo[k])
      /\ DOMAIN p = 1 .. m
  BY <1>1, <1>2
<1>6. SubSeq(todo, n + 1, Len(todo)) = SubSeq(todo, m + 1, Len(todo))
  <2>1. CASE m = n
    BY <2>1
  <2>2. CASE m = Len(todo)
    <3>1. SubSeq(todo, m + 1, Len(todo)) = <<>>
      BY <1>1, <2>2
    <3>2. SubSeq(todo, n + 1, Len(todo)) = <<>>
      BY <1>1, <1>2, <2>2
    <3> QED
      BY <3>1, <3>2
  <2> QED
    BY <1>2, <2>1, <2>2
<1> HIDE DEF p
<1>7. {Destination(e, p[k]) : k \in DOMAIN p} = {Destination(e, i) : i \in Elems(p)}
  <2>1. (\A k \in DOMAIN p : p[k] \in Elems(p)) /\ \A i \in Elems(p) : \E k \in DOMAIN p : i = p[k]
    <3>1. 1 .. Len(p) = DOMAIN p
      BY <1>5
    <3>2. Elems(p) = {p[k] : k \in DOMAIN p}
      BY <3>1 DEF Elems
    <3> HIDE DEF p
    <3> QED
      BY <3>2, Zenon
  <2>2. ASSUME NEW d \in {Destination(e, p[k]) : k \in DOMAIN p}
        PROVE  d \in {Destination(e, i) : i \in Elems(p)}
    BY <2>1
  <2>3. ASSUME NEW d \in {Destination(e, i) : i \in Elems(p)}
        PROVE  d \in {Destination(e, p[k]) : k \in DOMAIN p}
    BY <2>1
  <2> QED
    BY <2>2, <2>3
<1>8. Elems(p) # {}
  <2>1. 1 \in 1 .. Len(p)
    BY <1>5
  <2>2. p[1] \in Elems(p)
    BY <2>1 DEF Elems
  <2> QED
    BY <2>2
<1>9. n = 1 => Elems(p) = {todo[1]}
  <2>1. n = 1 => m = 1 /\ 1 .. m = {1}
    BY <1>1, <1>2
  <2>2. ASSUME n = 1
        PROVE  Elems(p) = {todo[1]}
    <3>1. 1 .. Len(p) = {1} /\ p[1] = todo[1]
      BY <1>5, <2>1, <2>2
    <3> QED
      BY <3>1 DEF Elems
  <2> QED
    BY <2>2
<1> QED
  BY <1>3, <1>4, <1>5, <1>6, <1>7, <1>8, <1>9 DEF p, n

LEMMA NextCut ==
  ASSUME NEW e \in Ebs, NEW st \in EbState(e), NEW todo \in Seq(Events), run.batch \in Nat \ {0},
         run.destined \in BOOLEAN
  PROVE  LET n == NextBatch(e, st, todo)
         IN /\ n \in EbState(e) /\ n.pc \in {"receive", "send"}
            /\ n.hist = st.hist /\ n.waiting = st.waiting /\ n.turns = st.turns
            /\ n.pc # "send" => n.dict = <<>> /\ n.todo = <<>>
            /\ Cut(e, todo, n.dict, n.todo)
<1>1. CASE todo = <<>>
  <2> DEFINE n == NextBatch(e, st, todo)
  <2>1. n = [st EXCEPT !.pc = "receive", !.dict = <<>>, !.todo = <<>>]
    BY <1>1 DEF NextBatch
  <2>2. DOMAIN <<>> = {} /\ <<>> \in [{} -> Seq(Events)] /\ <<>> \in Seq(Events)
    OBVIOUS
  <2>3. <<>> \in Dicts
    BY <2>2 DEF Dicts
  <2> HIDE DEF n
  <2>4. /\ n \in EbState(e) /\ n.pc = "receive" /\ n.dict = <<>> /\ n.todo = <<>>
        /\ n.hist = st.hist /\ n.waiting = st.waiting /\ n.turns = st.turns
    BY <2>1, <2>2, <2>3 DEF EbState
  <2>5. Cut(e, todo, <<>>, <<>>)
    <3>1. Len(todo) = 0 /\ 0 \in 0 .. 0
      BY <1>1
    <3>2. SubSeq(todo, 1, 0) = <<>> /\ SubSeq(todo, 0 + 1, 0) = <<>>
      BY <1>1
    <3> QED
      BY <2>2, <3>1, <3>2, ElemsEmpty DEF Cut
  <2> QED
    BY <2>4, <2>5 DEF n
<1>2. CASE todo # <<>>
  <2> DEFINE n == NextBatch(e, st, todo)
             B == BatchDict(e, todo)
             D == IF 0 \in DOMAIN B THEN [d \in {0} |-> B[0]] ELSE B
  <2>1. n = [st EXCEPT !.pc = "send", !.todo = Rest(todo), !.dict = D]
    BY <1>2 DEF NextBatch
  <2>2. PICK m \in 1 .. Len(todo) :
           /\ SubSeq(todo, 1, m) \in Seq(Events)
           /\ Rest(todo) = SubSeq(todo, m + 1, Len(todo))
           /\ BatchDict(e, todo) =
                [d \in {Destination(e, i) : i \in Elems(SubSeq(todo, 1, m))} |->
                   Select(SubSeq(todo, 1, m), {i \in Events : Destination(e, i) = d})]
           /\ Elems(SubSeq(todo, 1, m)) # {}
           /\ run.batch = 1 => Elems(SubSeq(todo, 1, m)) = {todo[1]}
    BY <1>2, BatchFacts
  <2>3. m \in 0 .. Len(todo) /\ SubSeq(todo, m + 1, Len(todo)) \in Seq(Events) /\ todo[1] \in Events
    BY <1>2, <2>2
  <2> DEFINE p == SubSeq(todo, 1, m)
             S == {Destination(e, i) : i \in Elems(p)}
             Pick(d) == Select(p, {i \in Events : Destination(e, i) = d})
  <2>4. p \in Seq(Events)
    BY <2>2
  <2>5. B = [d \in S |-> Pick(d)]
    BY <2>2
  <2>6. Elems(p) \subseteq Events
    <3> HIDE DEF p
    <3> QED
      BY <2>4 DEF Elems
  <2>7. S \subseteq Dests
    <3> HIDE DEF p
    <3> QED
      BY <2>6, DestinationFacts
  <2>8. \A d : Pick(d) \in Seq(Events)
    <3> HIDE DEF p
    <3> QED
      BY <2>4, SelectFacts
  <2>9. run.batch = 1 => S = {Destination(e, todo[1])}
    BY <2>2
  <2>10. S # {}
    BY <2>2
  <2>11. ~run.destined => S = {0}
    <3>1. ~run.destined => \A i \in Elems(p) : Destination(e, i) = 0
      <4> HIDE DEF p
      <4> QED
        BY <2>6, DestinationFacts
    <3> QED
      BY <2>10, <3>1
  <2> HIDE DEF B, S, Pick
  <2>12. /\ DOMAIN D = IF 0 \in S THEN {0} ELSE S
         /\ \A d \in DOMAIN D : D[d] = Pick(d)
    BY <2>5
  <2>13. D = [d \in DOMAIN D |-> D[d]]
    BY <2>5
  <2> HIDE DEF D
  <2>14. D \in Dicts
    <3>1. 0 \in Dests
      BY DEF Dests
    <3>2. DOMAIN D \in SUBSET Dests
      BY <2>7, <2>12, <3>1
    <3>3. D \in [DOMAIN D -> Seq(Events)]
      BY <2>8, <2>12, <2>13
    <3> QED
      BY <3>2, <3>3 DEF Dicts
  <2>15. (0 \notin DOMAIN D) \/ Whole => DOMAIN D = S
    <3>1. CASE 0 \notin DOMAIN D
      BY <2>12, <3>1
    <3>2. CASE Whole
      <4>1. ~run.destined \/ run.batch = 1
        BY <3>2 DEF Whole
      <4> QED
        BY <2>9, <2>11, <2>12, <4>1
    <3> QED
      BY <3>1, <3>2
  <2>16. Cut(e, todo, D, Rest(todo))
    <3>1. Rest(todo) = SubSeq(todo, m + 1, Len(todo))
      BY <2>2
    <3>2. \A d \in DOMAIN D : D[d] = Select(p, {i \in Events : Destination(e, i) = d})
      BY <2>12 DEF Pick
    <3>3. 0 \in DOMAIN D => DOMAIN D = {0}
      BY <2>12
    <3>4. (0 \notin DOMAIN D) \/ Whole => \A i \in Elems(p) : Destination(e, i) \in DOMAIN D
      BY <2>15 DEF S
    <3> QED
      BY <2>3, <3>1, <3>2, <3>3, <3>4 DEF Cut
  <2>17. Rest(todo) \in Seq(Events)
    BY <2>2, <2>3
  <2> HIDE DEF n
  <2>18. /\ n \in EbState(e) /\ n.pc = "send" /\ n.dict = D /\ n.todo = Rest(todo)
         /\ n.hist = st.hist /\ n.waiting = st.waiting /\ n.turns = st.turns
    BY <2>1, <2>14, <2>17 DEF EbState
  <2> QED
    BY <2>16, <2>18 DEF n
<1> QED
  BY <1>1, <1>2

LEMMA CutAhead ==
  ASSUME NEW e \in Ebs, NEW todo \in Seq(Events), NEW dict, NEW rest, NEW bufs \in Seq(Events), NEW d,
         Cut(e, todo, dict, rest), Leads(run.steps, bufs, todo, d)
  PROVE  Ahead(run.steps, bufs, dict, rest, d)
<1> DEFINE T == run.steps
           U(k) == {i \in Events : Destination(e, i) = k}
<1>1. PICK m \in 0 .. Len(todo) :
        LET batch == SubSeq(todo, 1, m)
        IN /\ rest = SubSeq(todo, m + 1, Len(todo))
           /\ \A k \in DOMAIN dict : dict[k] = Select(batch, U(k))
           /\ 0 \in DOMAIN dict => DOMAIN dict = {0}
           /\ 0 \notin DOMAIN dict \/ Whole => \A i \in Elems(batch) : Destination(e, i) \in DOMAIN dict
  BY DEF Cut
<1> DEFINE p == SubSeq(todo, 1, m)
           g == After(T, bufs, todo, m)
<1>2. /\ rest = SubSeq(todo, m + 1, Len(todo))
      /\ \A k \in DOMAIN dict : dict[k] = Select(p, U(k))
      /\ 0 \in DOMAIN dict => DOMAIN dict = {0}
      /\ 0 \notin DOMAIN dict => \A i \in Elems(p) : Destination(e, i) \in DOMAIN dict
  BY <1>1
<1>3. p \in Seq(Events)
  OBVIOUS
<1>4. Leads(T, bufs, p, g) /\ Leads(T, g, rest, d)
  BY <1>2, LeadsSplit
<1> HIDE DEF p, g
<1>5. Elems(p) \subseteq Events
  BY <1>3 DEF Elems
<1>6. \A i \in Events : i \in T => Destination(e, i) = 0
  BY DestinationFacts
<1>7. g = bufs \o Select(p, T)
  BY <1>3, <1>4, LeadsSum
<1>8. ASSUME NEW k \in DOMAIN dict, Elems(p) \cap T \subseteq U(k)
      PROVE  dict[k] \in Seq(Events) /\ Leads(T, bufs, dict[k], g)
  <2>1. dict[k] = Select(p, U(k))
    BY <1>2
  <2>2. Select(p, U(k)) \in Seq(Events)
    BY <1>3, SelectFacts
  <2>3. Leads(T, bufs, Select(p, U(k)), g)
    BY <1>3, <1>4, <1>8, LeadsSelect
  <2> QED
    BY <2>1, <2>2, <2>3
<1>9. CASE 0 \in DOMAIN dict
  <2>1. DOMAIN dict = {0} /\ Elems(p) \cap T \subseteq U(0)
    BY <1>2, <1>5, <1>6, <1>9
  <2>2. dict[0] \in Seq(Events) /\ Leads(T, bufs, dict[0], g)
    BY <1>8, <2>1
  <2>3. g = bufs \o Select(dict[0], T)
    BY <2>2, LeadsSum
  <2>4. Noted(T, bufs, dict) = g
    BY <1>9, <2>3 DEF Noted
  <2> QED
    BY <1>4, <2>1, <2>2, <2>4 DEF Ahead
<1>10. CASE 0 \notin DOMAIN dict
  <2>1. Elems(p) \cap T = {}
    BY <1>2, <1>5, <1>6, <1>10
  <2>2. Select(p, T) = <<>>
    BY <1>3, <2>1, SelectNone
  <2>3. bufs \o <<>> = bufs
    OBVIOUS
  <2>4. g = bufs
    BY <1>7, <2>2, <2>3
  <2>5. Noted(T, bufs, dict) = g
    BY <1>10, <2>4 DEF Noted
  <2>6. \A k \in DOMAIN dict : Leads(T, bufs, dict[k], g)
    BY <1>8, <2>1
  <2> QED
    BY <1>4, <1>10, <2>5, <2>6 DEF Ahead
<1> QED
  BY <1>9, <1>10

LEMMA CutParts ==
  ASSUME NEW e \in Ebs, NEW todo \in Seq(Events), NEW dict, NEW rest, Cut(e, todo, dict, rest)
  PROVE  \E p \in Seq(Events) :
           /\ \A k \in DOMAIN dict : L1(run.steps, dict[k]) = {i \in L1(run.steps, p) : Destination(e, i) = k}
           /\ L1(run.steps, todo) = L1(run.steps, p) \cup L1(run.steps, rest)
           /\ Whole => \A i \in L1(run.steps, p) : Destination(e, i) \in DOMAIN dict
           /\ Once(run.steps, todo) =>
                /\ Once(run.steps, rest) /\ L1(run.steps, p) \cap L1(run.steps, rest) = {}
                /\ \A k \in DOMAIN dict : Once(run.steps, dict[k])
<1> DEFINE T == run.steps
           U(k) == {i \in Events : Destination(e, i) = k}
<1>1. PICK m \in 0 .. Len(todo) :
        LET batch == SubSeq(todo, 1, m)
        IN /\ rest = SubSeq(todo, m + 1, Len(todo))
           /\ \A k \in DOMAIN dict : dict[k] = Select(batch, U(k))
           /\ 0 \in DOMAIN dict => DOMAIN dict = {0}
           /\ 0 \notin DOMAIN dict \/ Whole => \A i \in Elems(batch) : Destination(e, i) \in DOMAIN dict
  BY DEF Cut
<1> DEFINE p == SubSeq(todo, 1, m)
<1>2. /\ rest = SubSeq(todo, m + 1, Len(todo))
      /\ \A k \in DOMAIN dict : dict[k] = Select(p, U(k))
      /\ Whole => \A i \in Elems(p) : Destination(e, i) \in DOMAIN dict
  BY <1>1
<1>3. p \in Seq(Events) /\ Elems(todo) = Elems(p) \cup Elems(rest)
  BY <1>2, OnceSplit
<1>4. Once(T, todo) => Once(T, p) /\ Once(T, rest) /\ L1(T, p) \cap L1(T, rest) = {}
  BY <1>2, OnceSplit
<1> HIDE DEF p
<1>5. L1(T, todo) = L1(T, p) \cup L1(T, rest)
  BY <1>3 DEF L1
<1>6. Elems(p) \subseteq Events
  BY <1>3 DEF Elems
<1>7. ASSUME NEW k \in DOMAIN dict
      PROVE  /\ Once(T, p) => Once(T, dict[k])
             /\ L1(T, dict[k]) = {i \in L1(T, p) : Destination(e, i) = k}
  <2>1. dict[k] = Select(p, U(k))
    BY <1>2
  <2>2. Elems(Select(p, U(k))) = Elems(p) \cap U(k)
    BY <1>3, SelectFacts
  <2>3. \A V : Once(V, p) => Once(V, Select(p, U(k)))
    BY <1>3, SelectFacts
  <2>4. Once(T, p) => Once(T, dict[k])
    BY <2>1, <2>3
  <2>5. L1(T, dict[k]) = (Elems(p) \cap U(k)) \ T
    BY <2>1, <2>2 DEF L1
  <2> QED
    BY <1>6, <2>4, <2>5 DEF L1
<1>8. Whole => \A i \in L1(T, p) : Destination(e, i) \in DOMAIN dict
  BY <1>2 DEF L1
<1> HIDE DEF U
<1> QED
  BY <1>3, <1>4, <1>5, <1>7, <1>8

LEMMA CutHeld ==
  ASSUME NEW e \in Ebs, NEW todo \in Seq(Events), NEW dict, NEW rest, Cut(e, todo, dict, rest)
  PROVE  /\ L1(run.steps, rest) \cup Among(run.steps, dict) \subseteq L1(run.steps, todo)
         /\ Whole => L1(run.steps, todo) \subseteq L1(run.steps, rest) \cup Among(run.steps, dict)
<1> DEFINE T == run.steps
<1>1. PICK p \in Seq(Events) :
           /\ \A k \in DOMAIN dict : L1(T, dict[k]) = {i \in L1(T, p) : Destination(e, i) = k}
           /\ L1(T, todo) = L1(T, p) \cup L1(T, rest)
           /\ Whole => \A i \in L1(T, p) : Destination(e, i) \in DOMAIN dict
  BY CutParts
<1> HIDE DEF T
<1>2. Among(T, dict) \subseteq L1(T, p)
  BY <1>1 DEF Among
<1>3. ASSUME Whole, NEW i \in L1(T, p)
      PROVE  i \in Among(T, dict)
  <2>1. Destination(e, i) \in DOMAIN dict
    BY <1>1, <1>3
  <2>2. i \in L1(T, dict[Destination(e, i)])
    BY <1>1, <2>1
  <2> QED
    BY <2>1, <2>2 DEF Among
<1> QED
  BY <1>1, <1>2, <1>3 DEF T

LEMMA CutPlaced ==
  ASSUME NEW e \in Ebs, NEW todo \in Seq(Events), NEW dict, NEW rest, NEW given, NEW old,
         Cut(e, todo, dict, rest), Placed(run.steps, e, old, todo, given)
  PROVE  Placed(run.steps, e, dict, rest, given)
<1> DEFINE T == run.steps
<1>1. Once(T, todo)
  BY DEF Placed
<1>2. PICK p \in Seq(Events) :
           /\ \A k \in DOMAIN dict : L1(T, dict[k]) = {i \in L1(T, p) : Destination(e, i) = k}
           /\ L1(T, todo) = L1(T, p) \cup L1(T, rest)
           /\ Once(T, todo) =>
                /\ Once(T, rest) /\ L1(T, p) \cap L1(T, rest) = {}
                /\ \A k \in DOMAIN dict : Once(T, dict[k])
  BY CutParts
<1>3. ASSUME NEW b \in BdsOf(e)
      PROVE  /\ Once(T, given[b]) /\ L1(T, given[b]) \cap L1(T, todo) = {}
             /\ \A c \in BdsOf(e) \ {b} : L1(T, given[b]) \cap L1(T, given[c]) = {}
             /\ \A i \in L1(T, given[b]) : Destination(e, i) \in {0, b}
  BY DEF Placed
<1> HIDE DEF T
<1>4. ASSUME NEW k \in DOMAIN dict
      PROVE  /\ Once(T, dict[k]) /\ L1(T, dict[k]) \cap L1(T, rest) = {}
             /\ \A i \in L1(T, dict[k]) : Destination(e, i) = k
             /\ L1(T, dict[k]) \subseteq L1(T, todo)
  BY <1>1, <1>2
<1>5. ASSUME NEW b \in BdsOf(e)
      PROVE  /\ L1(T, given[b]) \cap L1(T, rest) = {}
             /\ \A k \in DOMAIN dict : L1(T, given[b]) \cap L1(T, dict[k]) = {}
  BY <1>2, <1>3, <1>4
<1>6. Once(T, rest)
  BY <1>1, <1>2
<1> QED
  BY <1>3, <1>4, <1>5, <1>6 DEF Placed, T

LEMMA SendAhead ==
  ASSUME NEW T, NEW bufs \in Seq(Events), NEW dict \in Dicts, NEW todo, NEW d,
         Ahead(T, bufs, dict, todo, d), NEW k \in DOMAIN dict
  PROVE  /\ bufs \o Select(dict[k], T) = Noted(T, bufs, dict)
         /\ Ahead(T, bufs \o Select(dict[k], T), Without(dict, k), todo, d)
<1>1. dict[k] \in Seq(Events)
  BY DEF Dicts
<1> DEFINE g == Noted(T, bufs, dict)
<1>2. /\ 0 \in DOMAIN dict => DOMAIN dict = {0}
      /\ \A j \in DOMAIN dict : Leads(T, bufs, dict[j], g)
      /\ Leads(T, g, todo, d)
  BY DEF Ahead
<1>3. g = bufs \o Select(dict[k], T)
  <2>1. Leads(T, bufs, dict[k], g)
    BY <1>2
  <2> HIDE DEF g
  <2> QED
    BY <1>1, <2>1, LeadsSum
<1> DEFINE w == Without(dict, k)
<1>4. DOMAIN w = DOMAIN dict \ {k} /\ \A j \in DOMAIN w : w[j] = dict[j]
  BY DEF Without
<1>5. 0 \notin DOMAIN w
  BY <1>2, <1>4
<1>6. Noted(T, g, w) = g
  BY <1>5 DEF Noted
<1>7. ASSUME NEW j \in DOMAIN w
      PROVE  Leads(T, g, w[j], g)
  <2>1. j \in DOMAIN dict /\ w[j] = dict[j] /\ j # k
    BY <1>4
  <2>2. 0 \notin DOMAIN dict
    BY <1>2, <2>1
  <2>3. g = bufs
    BY <2>2 DEF Noted
  <2> QED
    BY <1>2, <2>1, <2>3
<1> HIDE DEF g, w
<1>8. Ahead(T, g, w, todo, d)
  BY <1>2, <1>5, <1>6, <1>7 DEF Ahead
<1> QED
  BY <1>3, <1>8 DEF g, w

LEMMA SendPlaced ==
  ASSUME NEW T, NEW e \in Ebs, NEW dict \in Dicts, NEW coming, NEW given, NEW new,
         Placed(T, e, dict, coming, given), NEW b \in BdsOf(e), NEW k \in DOMAIN dict, k \in {0, b},
         NEW miss \in Seq(Events), Elems(miss) \subseteq T, given[b] \in Seq(Events),
         new[b] = given[b] \o (miss \o dict[k]), \A c \in BdsOf(e) \ {b} : new[c] = given[c]
  PROVE  /\ Placed(T, e, Without(dict, k), coming, new)
         /\ L1(T, new[b]) = L1(T, given[b]) \cup L1(T, dict[k])
<1>1. dict[k] \in Seq(Events)
  BY DEF Dicts
<1> DEFINE w == Without(dict, k)
<1>2. DOMAIN w = DOMAIN dict \ {k} /\ \A j \in DOMAIN w : w[j] = dict[j]
  BY DEF Without
<1> HIDE DEF w
<1>3. /\ Once(T, coming)
      /\ \A d \in DOMAIN dict :
           /\ Once(T, dict[d]) /\ L1(T, dict[d]) \cap L1(T, coming) = {}
           /\ \A i \in L1(T, dict[d]) : Destination(e, i) = d
  BY DEF Placed
<1>4. \A a \in BdsOf(e) :
        /\ Once(T, given[a]) /\ L1(T, given[a]) \cap L1(T, coming) = {}
        /\ \A d \in DOMAIN dict : L1(T, given[a]) \cap L1(T, dict[d]) = {}
        /\ \A c \in BdsOf(e) \ {a} : L1(T, given[a]) \cap L1(T, given[c]) = {}
        /\ \A i \in L1(T, given[a]) : Destination(e, i) \in {0, a}
  BY DEF Placed
<1> DEFINE items == miss \o dict[k]
<1>5. items \in Seq(Events) /\ L1(T, items) = L1(T, dict[k])
  <2>1. Elems(items) = Elems(miss) \cup Elems(dict[k])
    BY <1>1, ElemsConcat
  <2>2. items \in Seq(Events)
    BY <1>1, ConcatFacts
  <2> QED
    BY <2>1, <2>2 DEF L1
<1>6. Once(T, items)
  <2>1. Once(T, miss) /\ L1(T, miss) = {}
    BY OnceSteps
  <2>2. Once(T, dict[k])
    BY <1>3
  <2> QED
    BY <1>1, <2>1, <2>2, OnceConcat
<1> HIDE DEF items
<1>7. L1(T, new[b]) = L1(T, given[b]) \cup L1(T, dict[k])
  <2>1. Elems(given[b] \o items) = Elems(given[b]) \cup Elems(items)
    BY <1>5, ElemsConcat
  <2>2. new[b] = given[b] \o items
    BY DEF items
  <2>3. L1(T, new[b]) = L1(T, given[b]) \cup L1(T, items)
    BY <2>1, <2>2 DEF L1
  <2> QED
    BY <1>5, <2>3
<1>8. Once(T, new[b])
  <2>1. L1(T, given[b]) \cap L1(T, items) = {} /\ Once(T, given[b])
    BY <1>4, <1>5
  <2>2. Once(T, given[b] \o items)
    BY <1>5, <1>6, <2>1, OnceConcat
  <2> QED
    BY <2>2 DEF items
<1>9. ASSUME NEW d \in DOMAIN w
      PROVE  /\ Once(T, w[d]) /\ L1(T, w[d]) \cap L1(T, coming) = {}
             /\ \A i \in L1(T, w[d]) : Destination(e, i) = d
  <2>1. d \in DOMAIN dict /\ w[d] = dict[d]
    BY <1>2
  <2> QED
    BY <1>3, <2>1
<1>10. ASSUME NEW a \in BdsOf(e)
       PROVE  /\ Once(T, new[a]) /\ L1(T, new[a]) \cap L1(T, coming) = {}
              /\ \A d \in DOMAIN w : L1(T, new[a]) \cap L1(T, w[d]) = {}
              /\ \A c \in BdsOf(e) \ {a} : L1(T, new[a]) \cap L1(T, new[c]) = {}
              /\ \A i \in L1(T, new[a]) : Destination(e, i) \in {0, a}
  <2>1. ASSUME NEW d \in DOMAIN w
        PROVE  d \in DOMAIN dict /\ w[d] = dict[d] /\ L1(T, dict[k]) \cap L1(T, dict[d]) = {}
    <3>1. d \in DOMAIN dict /\ w[d] = dict[d] /\ d # k
      BY <1>2
    <3> QED
      BY <1>3, <3>1
  <2>2. CASE a = b
    <3>1. Once(T, new[b]) /\ L1(T, new[b]) \cap L1(T, coming) = {}
      BY <1>3, <1>4, <1>7, <1>8
    <3>2. \A d \in DOMAIN w : L1(T, new[b]) \cap L1(T, w[d]) = {}
      BY <1>4, <1>7, <2>1
    <3>3. \A c \in BdsOf(e) \ {b} : L1(T, new[b]) \cap L1(T, new[c]) = {}
      BY <1>4, <1>7
    <3>4. \A i \in L1(T, new[b]) : Destination(e, i) \in {0, b}
      BY <1>3, <1>4, <1>7
    <3> QED
      BY <2>2, <3>1, <3>2, <3>3, <3>4
  <2>3. CASE a # b
    <3>1. new[a] = given[a]
      BY <2>3
    <3>2. Once(T, new[a]) /\ L1(T, new[a]) \cap L1(T, coming) = {}
          /\ \A i \in L1(T, new[a]) : Destination(e, i) \in {0, a}
      BY <1>4, <3>1
    <3>3. \A d \in DOMAIN w : L1(T, new[a]) \cap L1(T, w[d]) = {}
      BY <1>4, <2>1, <3>1
    <3>4. ASSUME NEW c \in BdsOf(e) \ {a}
          PROVE  L1(T, new[a]) \cap L1(T, new[c]) = {}
      <4>1. CASE c = b
        BY <1>4, <1>7, <2>3, <3>1, <4>1
      <4>2. CASE c # b
        BY <1>4, <3>1, <4>2
      <4> QED
        BY <4>1, <4>2
    <3> QED
      BY <3>2, <3>3, <3>4
  <2> QED
    BY <2>2, <2>3
<1>11. Placed(T, e, w, coming, new)
  BY <1>3, <1>9, <1>10 DEF Placed
<1> QED
  BY <1>7, <1>11 DEF w

LEMMA PlacedSame ==
  ASSUME NEW T, NEW e, NEW dict, NEW coming, NEW given, NEW new, Placed(T, e, dict, coming, given),
         \A b \in BdsOf(e) : L1(T, new[b]) = L1(T, given[b]) /\ Once(T, new[b])
  PROVE  Placed(T, e, dict, coming, new)
  BY DEF Placed

-----------------------------------------------------------------------------
(***************************************************************************)
(* Steps that concern one event builder                                    *)
(***************************************************************************)

LEMMA SameRun ==
  ASSUME run' = run
  PROVE  /\ Whole' <=> Whole
         /\ \A e, i : Destination(e, i)' = Destination(e, i)
         /\ \A T, e, dict, coming, given :
              Placed(T, e, dict, coming, given)' <=> Placed(T, e, dict, coming, given)
<1>1. Whole' <=> Whole
  BY DEF Whole
<1>2. \A e, i : Destination(e, i)' = Destination(e, i)
  BY DEF Destination, IsStep
<1>3. ASSUME NEW T, NEW e, NEW dict, NEW coming, NEW given
      PROVE  Placed(T, e, dict, coming, given)' <=> Placed(T, e, dict, coming, given)
  BY <1>2 DEF Placed
<1> QED
  BY <1>1, <1>2, <1>3

LEMMA SameEb ==
  ASSUME NEW e \in Ebs, run' = run, SameAt(e)
  PROVE  /\ smd0'.hist = smd0.hist => (EbFlow(e)' <=> EbFlow(e))
         /\ \A b \in BdsOf(e) : BdFlow(e, b)' <=> BdFlow(e, b)
         /\ EbPlaced(e)' <=> EbPlaced(e)
         /\ Held(e)' = Held(e)
<1>1. run' = run /\ eb'[e].hist = eb[e].hist /\ eb'[e].dict = eb[e].dict
      /\ Coming(e)' = Coming(e)
  BY DEF SameAt
<1>2. \A b \in BdsOf(e) : Given(e, b)' = Given(e, b)
  BY DEF SameAt
<1>3. ASSUME smd0'.hist = smd0.hist
      PROVE  EbFlow(e)' <=> EbFlow(e)
  <2>1. Got(e)' = Got(e)
    BY <1>3 DEF Got
  <2> QED
    BY <1>1, <1>3, <2>1 DEF EbFlow
<1>4. ASSUME NEW b \in BdsOf(e)
      PROVE  BdFlow(e, b)' <=> BdFlow(e, b)
  <2>1. Sent(e, b)' = Sent(e, b)
    BY <1>1 DEF Sent
  <2> QED
    BY <1>1, <1>2, <2>1 DEF BdFlow
<1>5. EbPlaced(e)' <=> EbPlaced(e)
  <2>1. [b \in BdsOf(e) |-> Given(e, b)]' = [b \in BdsOf(e) |-> Given(e, b)]
    BY <1>2
  <2> QED
    BY <1>1, <2>1, SameRun DEF EbPlaced
<1>6. Held(e)' = Held(e)
  <2>1. Owned(e)' = Owned(e)
    BY <1>1, <1>2 DEF Owned
  <2> QED
    BY <1>1, <2>1 DEF Held
<1> QED
  BY <1>3, <1>4, <1>5, <1>6

LEMMA OneEb ==
  ASSUME FlowInv, PlaceInv, CoverInv, NEW e \in Ebs,
         run' = run, smd0'.hist = smd0.hist, smd0'.read = smd0.read,
         \A f \in Ebs \ {e} : SameAt(f),
         EbFlow(e)', \A b \in BdsOf(e) : BdFlow(e, b)', EbPlaced(e)',
         Held(e)' \subseteq Held(e), Whole => Held(e) \subseteq Held(e)'
  PROVE  FlowInv' /\ PlaceInv' /\ CoverInv'
<1>1. ASSUME NEW f \in Ebs \ {e}
      PROVE  /\ EbFlow(f)' /\ \A b \in BdsOf(f) : BdFlow(f, b)'
             /\ EbPlaced(f)' /\ Held(f)' = Held(f)
  <2>1. /\ EbFlow(f)' <=> EbFlow(f)
        /\ \A b \in BdsOf(f) : BdFlow(f, b)' <=> BdFlow(f, b)
        /\ EbPlaced(f)' <=> EbPlaced(f)
        /\ Held(f)' = Held(f)
    BY SameEb
  <2>2. EbFlow(f) /\ (\A b \in BdsOf(f) : BdFlow(f, b)) /\ EbPlaced(f)
    BY DEF FlowInv, PlaceInv
  <2> QED
    BY <2>1, <2>2
<1>2. FlowInv'
  <2>1. ASSUME NEW f \in Ebs
        PROVE  EbFlow(f)' /\ \A b \in BdsOf(f) : BdFlow(f, b)'
    BY <1>1
  <2>2. (smd0.hist.bufs = Upto(run.steps, smd0.read))'
    BY DEF FlowInv
  <2> QED
    BY <2>1, <2>2 DEF FlowInv
<1>3. \A f \in Ebs : Held(f)' \subseteq Held(f)
  BY <1>1
<1>4. PlaceInv'
  <2>1. ASSUME NEW f \in Ebs
        PROVE  /\ EbPlaced(f)' /\ Held(f)' \subseteq (1 .. smd0.read)'
               /\ \A g \in Ebs \ {f} : Held(f)' \cap Held(g)' = {}
    <3>1. EbPlaced(f)'
      BY <1>1
    <3>2. Held(f) \subseteq 1 .. smd0.read /\ \A g \in Ebs \ {f} : Held(f) \cap Held(g) = {}
      BY DEF PlaceInv
    <3>3. (1 .. smd0.read)' = 1 .. smd0.read
      OBVIOUS
    <3> QED
      BY <1>3, <3>1, <3>2, <3>3
  <2> QED
    BY <2>1 DEF PlaceInv
<1>5. CoverInv'
  <2>1. Whole' <=> Whole
    BY SameRun
  <2>2. ASSUME Whole, NEW i \in (1 .. smd0.read)', i \notin run.steps
        PROVE  \E f \in Ebs : i \in Held(f)'
    <3>1. i \in 1 .. smd0.read
      OBVIOUS
    <3>2. PICK f \in Ebs : i \in Held(f)
      BY <2>2, <3>1 DEF CoverInv
    <3>3. Held(f) \subseteq Held(f)'
      BY <1>1, <2>2
    <3> QED
      BY <3>2, <3>3
  <2>3. run' = run
    OBVIOUS
  <2> QED
    BY <2>1, <2>2, <2>3 DEF CoverInv
<1> QED
  BY <1>2, <1>4, <1>5

LEMMA QuietStep ==
  ASSUME FlowInv, PlaceInv, CoverInv,
         run' = run, smd0'.hist = smd0.hist, smd0'.read = smd0.read, \A f \in Ebs : SameAt(f)
  PROVE  FlowInv' /\ PlaceInv' /\ CoverInv'
<1>1. PICK e : e \in Ebs
  BY CountsAssumption DEF Ebs
<1>2. /\ EbFlow(e)' <=> EbFlow(e)
      /\ \A b \in BdsOf(e) : BdFlow(e, b)' <=> BdFlow(e, b)
      /\ EbPlaced(e)' <=> EbPlaced(e)
      /\ Held(e)' = Held(e)
  BY <1>1, SameEb
<1>3. EbFlow(e) /\ (\A b \in BdsOf(e) : BdFlow(e, b)) /\ EbPlaced(e)
  BY <1>1 DEF FlowInv, PlaceInv
<1>4. Held(e)' \subseteq Held(e) /\ (Whole => Held(e) \subseteq Held(e)')
  BY <1>2
<1> QED
  BY <1>1, <1>2, <1>3, <1>4, OneEb

-----------------------------------------------------------------------------
(***************************************************************************)
(* What the state is made of                                               *)
(***************************************************************************)

LEMMA MailFacts ==
  /\ Items(Nothing) = <<>> /\ Items(Null) = <<>> /\ Nothing \in Mails /\ Null \in Mails
  /\ Null # Nothing /\ Ends(Null) /\ ~Ends(Nothing)
  /\ \A s \in Seq(Events) :
       Data(s) \in Mails /\ Data(s) # Nothing /\ Items(Data(s)) = s /\ ~Ends(Data(s))
  /\ \A m \in Mails :
       /\ Items(m) \in Seq(Events)
       /\ m # Nothing => Items(m) = m[1].items /\ (m[1].end <=> Ends(m))
       /\ Ends(m) => Items(m) = <<>>
<1>1. /\ Items(Nothing) = <<>> /\ Items(Null) = <<>> /\ Nothing \in Mails /\ Null \in Mails
      /\ Null # Nothing /\ Ends(Null) /\ ~Ends(Nothing)
  BY DEF Items, Nothing, Null, Mails, Ends
<1>2. ASSUME NEW s \in Seq(Events)
      PROVE  Data(s) \in Mails /\ Data(s) # Nothing /\ Items(Data(s)) = s /\ ~Ends(Data(s))
  BY DEF Items, Nothing, Data, Mails, Ends
<1>3. ASSUME NEW m \in Mails
      PROVE  /\ Items(m) \in Seq(Events)
             /\ m # Nothing => Items(m) = m[1].items /\ (m[1].end <=> Ends(m))
             /\ Ends(m) => Items(m) = <<>>
  <2>1. m \in {Nothing, Null} \/ \E s \in Seq(Events) : m = Data(s)
    BY DEF Mails
  <2>2. m # Nothing => Items(m) = m[1].items /\ (m[1].end <=> Ends(m))
    BY DEF Items, Ends
  <2>3. <<>> \in Seq(Events)
    OBVIOUS
  <2> QED
    BY <1>1, <1>2, <2>1, <2>2, <2>3
<1> QED
  BY <1>1, <1>2, <1>3

LEMMA EbTypes ==
  ASSUME TypeInv, NEW e \in Ebs
  PROVE  /\ eb[e] \in EbState(e)
         /\ chunkTo[e] \in Mails /\ Items(chunkTo[e]) \in Seq(Events)
         /\ Coming(e) \in Seq(Events)
         /\ eb[e].hist.bufs \in Seq(Events) /\ eb[e].dict \in Dicts /\ eb[e].todo \in Seq(Events)
         /\ run.batch \in Nat \ {0} /\ run.destined \in BOOLEAN /\ run.steps \subseteq Events
<1>1. eb[e] \in EbState(e) /\ chunkTo[e] \in Mails
  BY DEF TypeInv
<1>2. Items(chunkTo[e]) \in Seq(Events)
  BY <1>1, MailFacts
<1>3. eb[e].hist.bufs \in Seq(Events) /\ eb[e].dict \in Dicts /\ eb[e].todo \in Seq(Events)
  BY <1>1 DEF EbState
<1>4. Coming(e) \in Seq(Events)
  BY <1>2, <1>3 DEF Coming
<1>5. run.batch \in Nat \ {0} /\ run.destined \in BOOLEAN /\ run.steps \subseteq Events
  BY DEF TypeInv
<1> QED
  BY <1>1, <1>2, <1>3, <1>4, <1>5

LEMMA BdTypes ==
  ASSUME TypeInv, NEW e \in Ebs, NEW b \in BdsOf(e)
  PROVE  /\ batchTo[e][b] \in Mails /\ Items(batchTo[e][b]) \in Seq(Events)
         /\ seen[e][b] \in Seq(Events) /\ Given(e, b) \in Seq(Events)
         /\ eb[e].hist.sent[b] \in Nat
<1>1. batchTo[e][b] \in Mails /\ seen[e][b] \in Seq(Events)
  BY DEF TypeInv
<1>2. Items(batchTo[e][b]) \in Seq(Events)
  BY <1>1, MailFacts
<1>3. Given(e, b) \in Seq(Events)
  BY <1>1, <1>2 DEF Given
<1>4. eb[e].hist.sent[b] \in Nat
  BY EbTypes DEF EbState
<1> QED
  BY <1>1, <1>2, <1>3, <1>4

LEMMA EmptyEnds ==
  ASSUME NEW S, NEW s \in Seq(S)
  PROVE  s \o <<>> = s /\ <<>> \o s = s
  OBVIOUS

\* What comes to an event builder that is in a batch, or at its end.
LEMMA ComingTodo ==
  ASSUME TypeInv, NEW e \in Ebs, chunkTo[e] = Nothing
  PROVE  Coming(e) = eb[e].todo
<1>1. eb[e].todo \in Seq(Events)
  BY EbTypes
<1> QED
  BY <1>1, MailFacts, EmptyEnds DEF Coming

LEMMA ComingChunk ==
  ASSUME TypeInv, NEW e \in Ebs, eb[e].todo = <<>>
  PROVE  Coming(e) = Items(chunkTo[e])
<1>1. Items(chunkTo[e]) \in Seq(Events)
  BY EbTypes
<1> QED
  BY <1>1, EmptyEnds DEF Coming

\* The event builder has its own entry changed.
LEMMA EbUpdate ==
  ASSUME TypeInv, NEW e \in Ebs, NEW x, eb' = [eb EXCEPT ![e] = x]
  PROVE  /\ eb'[e] = x /\ \A f \in Ebs \ {e} : eb'[f] = eb[f]
         /\ Fcn(eb, Ebs)' /\ (x \in EbState(e) => \A f \in Ebs : eb'[f] \in EbState(f))
<1>1. Fcn(eb, Ebs) /\ \A f \in Ebs : eb[f] \in EbState(f)
  BY DEF TypeInv
<1>2. eb = [f \in Ebs |-> eb[f]]
  BY <1>1 DEF Fcn
<1>3. eb' = [f \in Ebs |-> IF f = e THEN x ELSE eb[f]]
  BY <1>2
<1>4. eb'[e] = x /\ \A f \in Ebs \ {e} : eb'[f] = eb[f]
  BY <1>3
<1>5. eb' = [f \in Ebs |-> eb'[f]]
  BY <1>3
<1>6. x \in EbState(e) => \A f \in Ebs : eb'[f] \in EbState(f)
  BY <1>1, <1>4
<1> QED
  BY <1>4, <1>5, <1>6 DEF Fcn

LEMMA SameElsewhere ==
  ASSUME NEW e \in Ebs,
         eb'[e] = eb[e], chunkTo'[e] = chunkTo[e], seen'[e] = seen[e], batchTo'[e] = batchTo[e]
  PROVE  SameAt(e)
  BY DEF SameAt, Coming, Given

-----------------------------------------------------------------------------
(***************************************************************************)
(* EbReceive                                                               *)
(***************************************************************************)

LEMMA EbReceiveFlow ==
  ASSUME TypeInv, AskInv, FlowInv, PlaceInv, CoverInv, NEW e \in Ebs, EbReceive(e)
  PROVE  FlowInv' /\ PlaceInv' /\ CoverInv'
<1>1. /\ eb[e].pc = "receive" /\ chunkTo[e] # Nothing /\ UNCHANGED <<run, smd0, bdAsking, batchTo, bd, seen>>
      /\ chunkTo' = [chunkTo EXCEPT ![e] = Nothing]
      /\ eb' = [eb EXCEPT ![e] = IF chunkTo[e][1].end THEN [eb[e] EXCEPT !.pc = "waiting"]
                                 ELSE NextBatch(e, eb[e], chunkTo[e][1].items)]
  BY DEF EbReceive
<1>2. chunkTo'[e] = Nothing /\ \A f \in Ebs \ {e} : chunkTo'[f] = chunkTo[f]
  BY <1>1 DEF TypeInv
<1>3. \A f \in Ebs \ {e} : eb'[f] = eb[f]
  BY <1>1, EbUpdate
<1>4. \A f \in Ebs \ {e} : SameAt(f)
  BY <1>1, <1>2, <1>3, SameElsewhere
<1>5. eb[e].todo = <<>> /\ eb[e].dict = <<>>
  BY <1>1 DEF AskInv, EbAsks
<1> DEFINE items == Items(chunkTo[e])
<1>6. Coming(e) = items /\ items \in Seq(Events)
  BY <1>5, ComingChunk, EbTypes
<1>7. chunkTo[e][1].items = items /\ (chunkTo[e][1].end <=> Ends(chunkTo[e]))
      /\ (Ends(chunkTo[e]) => items = <<>>)
  BY <1>1, EbTypes, MailFacts
<1>8. Items(chunkTo'[e]) = <<>>
  BY <1>2, MailFacts
<1>9. CASE Ends(chunkTo[e])
  <2>1. eb'[e] = [eb[e] EXCEPT !.pc = "waiting"]
    BY <1>1, <1>7, <1>9, EbUpdate
  <2>2. eb'[e].hist = eb[e].hist /\ eb'[e].dict = eb[e].dict /\ eb'[e].todo = eb[e].todo
    BY <2>1, EbTypes DEF EbState
  <2>3. Coming(e)' = Coming(e)
    BY <1>7, <1>8, <1>9, <2>2 DEF Coming
  <2>4. SameAt(e)
    BY <1>1, <2>2, <2>3 DEF SameAt, Given
  <2> QED
    BY <1>1, <1>4, <2>4, QuietStep
<1>10. CASE ~Ends(chunkTo[e])
  <2> DEFINE n == NextBatch(e, eb[e], items)
  <2>1. eb'[e] = n
    BY <1>1, <1>7, <1>10, EbUpdate
  <2>2. /\ n \in EbState(e) /\ n.hist = eb[e].hist
        /\ Cut(e, items, n.dict, n.todo)
    BY <1>6, EbTypes, NextCut
  <2> HIDE DEF n, items
  <2>3. Coming(e)' = n.todo
    <3>1. n.todo \in Seq(Events)
      BY <2>2 DEF EbState
    <3> QED
      BY <1>8, <2>1, <3>1, EmptyEnds DEF Coming
  <2>4. \A b \in BdsOf(e) : Given(e, b)' = Given(e, b)
    BY <1>1 DEF Given
  <2>5. EbFlow(e) /\ EbPlaced(e) /\ \A b \in BdsOf(e) : BdFlow(e, b)
    BY DEF FlowInv, PlaceInv
  <2>6. Leads(run.steps, eb[e].hist.bufs, items, Got(e))
    <3>1. Ahead(run.steps, eb[e].hist.bufs, <<>>, items, Got(e))
      BY <1>5, <1>6, <2>5 DEF EbFlow
    <3>2. 0 \notin DOMAIN <<>>
      OBVIOUS
    <3> QED
      BY <3>1, <3>2 DEF Ahead, Noted
  <2>7. EbFlow(e)'
    <3>1. Ahead(run.steps, eb[e].hist.bufs, n.dict, n.todo, Got(e))
      BY <1>6, <2>2, <2>6, EbTypes, CutAhead
    <3>2. Got(e)' = Got(e)
      BY <1>1 DEF Got
    <3> QED
      BY <1>1, <2>1, <2>2, <2>3, <2>5, <3>1, <3>2 DEF EbFlow
  <2>8. \A b \in BdsOf(e) : BdFlow(e, b)'
    <3>1. \A b \in BdsOf(e) : Sent(e, b)' = Sent(e, b)
      BY <2>1, <2>2 DEF Sent
    <3> QED
      BY <1>1, <2>1, <2>2, <2>4, <2>5, <3>1 DEF BdFlow
  <2> DEFINE given == [b \in BdsOf(e) |-> Given(e, b)]
  <2>9. given' = given
    BY <2>4
  <2>10. Placed(run.steps, e, eb[e].dict, items, given)
    BY <1>6, <2>5 DEF EbPlaced
  <2> HIDE DEF given
  <2>11. Placed(run.steps, e, n.dict, n.todo, given)
    BY <1>6, <2>2, <2>10, CutPlaced
  <2>12. L1(run.steps, n.todo) \cup Among(run.steps, n.dict) \subseteq L1(run.steps, items)
    BY <1>6, <2>2, CutHeld
  <2>13. Whole => L1(run.steps, items) \subseteq L1(run.steps, n.todo) \cup Among(run.steps, n.dict)
    BY <1>6, <2>2, CutHeld
  <2>15. EbPlaced(e)'
    BY <1>1, <2>1, <2>3, <2>9, <2>11, SameRun DEF EbPlaced, given
  <2>16. Owned(e)' = Owned(e)
    BY <1>1, <2>4 DEF Owned
  <2>17. Held(e)' = L1(run.steps, n.todo) \cup Among(run.steps, n.dict) \cup Owned(e)
    BY <1>1, <2>1, <2>3, <2>16 DEF Held
  <2>18. Held(e) = L1(run.steps, items) \cup Owned(e)
    <3>1. Among(run.steps, eb[e].dict) = {}
      BY <1>5 DEF Among
    <3> QED
      BY <1>6, <3>1 DEF Held
  <2>19. Held(e)' \subseteq Held(e)
    BY <2>12, <2>17, <2>18
  <2>20. Whole => Held(e) \subseteq Held(e)'
    BY <2>13, <2>17, <2>18
  <2> QED
    BY <1>1, <1>4, <2>7, <2>8, <2>15, <2>19, <2>20, OneEb
<1> QED
  BY <1>9, <1>10

-----------------------------------------------------------------------------
(***************************************************************************)
(* EbSendWaiting and EbSend                                                *)
(***************************************************************************)

LEMMA MissingFacts ==
  ASSUME TypeInv, FlowInv, NEW e \in Ebs, NEW b \in BdsOf(e)
  PROVE  /\ Missing(eb[e].hist, b) \in Seq(Events)
         /\ Elems(Missing(eb[e].hist, b)) \subseteq run.steps
         /\ Leads(run.steps, Sent(e, b), Missing(eb[e].hist, b), eb[e].hist.bufs)
<1>1. EbFlow(e) /\ BdFlow(e, b)
  BY DEF FlowInv
<1>2. PICK N \in 0 .. NumEvents : eb[e].hist.bufs = Upto(run.steps, N)
  BY <1>1 DEF EbFlow
<1> DEFINE a == eb[e].hist.sent[b]
           u == Upto(run.steps, N)
           n == Len(u)
<1>3. a \in Nat /\ a <= n
  BY <1>1, <1>2, BdTypes DEF BdFlow
<1>4. u \in Seq(Events) /\ n \in Nat
  <2>1. u \in Seq(Events)
    BY <1>2, UptoSeq
  <2> HIDE DEF u
  <2> QED
    BY <2>1
<1>5. SubSeq(u, 1, n) = u
  <2> HIDE DEF u
  <2> QED
    BY <1>4
<1>6. Missing(eb[e].hist, b) = SubSeq(u, a + 1, n) /\ Sent(e, b) = SubSeq(u, 1, a)
  BY <1>2 DEF Missing, Sent
<1> HIDE DEF a
<1>7. n <= Len(Upto(run.steps, N))
  BY <1>4
<1> HIDE DEF n
<1>8. Leads(run.steps, SubSeq(u, 1, a), SubSeq(u, a + 1, n), SubSeq(u, 1, n))
  BY <1>3, <1>4, <1>7, LeadsMissing
<1>9. SubSeq(u, a + 1, n) \in Seq(Events) /\ Elems(SubSeq(u, a + 1, n)) \subseteq run.steps
  BY <1>3, <1>4, <1>7, LeadsMissing
<1> QED
  BY <1>2, <1>5, <1>6, <1>8, <1>9

LEMMA GivenSeen ==
  ASSUME TypeInv, NEW e \in Ebs, NEW b \in BdsOf(e), batchTo[e][b] = Nothing
  PROVE  Given(e, b) = seen[e][b]
<1>1. seen[e][b] \in Seq(Events)
  BY BdTypes
<1> QED
  BY <1>1, MailFacts, EmptyEnds DEF Given

\* What the history of b's event builder, and b, have then.
LEMMA SendHistory ==
  ASSUME TypeInv, FlowInv, NEW e \in Ebs, NEW b \in BdsOf(e), NEW k \in DOMAIN eb[e].dict, Sends(e, b, k),
         batchTo[e][b] = Nothing
  PROVE  /\ eb[e].dict[k] \in Seq(Events)
         /\ eb'[e].hist.bufs = eb[e].hist.bufs \o Select(eb[e].dict[k], run.steps)
         /\ eb'[e].hist.bufs \in Seq(Events)
         /\ eb'[e].hist.sent[b] = Len(eb'[e].hist.bufs)
         /\ \A c \in BdsOf(e) \ {b} : eb'[e].hist.sent[c] = eb[e].hist.sent[c]
         /\ Given(e, b)' = Given(e, b) \o (Missing(eb[e].hist, b) \o eb[e].dict[k])
         /\ \A c \in BdsOf(e) \ {b} : Given(e, c)' = Given(e, c)
         /\ \E n \in 0 .. NumEvents : eb'[e].hist.bufs = Upto(run.steps, n)
         /\ Leads(run.steps, eb[e].hist.bufs, eb[e].dict[k], eb'[e].hist.bufs)
<1> DEFINE h == eb[e].hist
           items == eb[e].dict[k]
           miss == Missing(h, b)
<1>1. h.bufs \in Seq(Events) /\ h.sent \in [BdsOf(e) -> Nat] /\ eb[e].dict \in Dicts
  BY EbTypes DEF EbState
<1>2. items \in Seq(Events)
  BY <1>1 DEF Dicts
<1>3. eb'[e].hist = [bufs |-> h.bufs \o StepsOf(items),
                     sent |-> [h.sent EXCEPT ![b] = Len(h.bufs \o StepsOf(items))]]
  BY DEF Sends, Extended
<1>4. StepsOf(items) = Select(items, run.steps) /\ Select(items, run.steps) \in Seq(Events)
  BY <1>2, SelectFacts DEF StepsOf
<1> DEFINE bufs2 == h.bufs \o Select(items, run.steps)
<1>5. bufs2 \in Seq(Events)
  BY <1>1, <1>4
<1>6. /\ eb'[e].hist.bufs = bufs2 /\ eb'[e].hist.sent[b] = Len(bufs2)
      /\ \A c \in BdsOf(e) \ {b} : eb'[e].hist.sent[c] = h.sent[c]
  <2>1. eb'[e].hist = [bufs |-> bufs2, sent |-> [h.sent EXCEPT ![b] = Len(bufs2)]]
    BY <1>3, <1>4
  <2>2. PICK f : f = h.sent
    OBVIOUS
  <2>3. f \in [BdsOf(e) -> Nat] /\ eb'[e].hist = [bufs |-> bufs2, sent |-> [f EXCEPT ![b] = Len(bufs2)]]
    BY <1>1, <2>1, <2>2
  <2> HIDE DEF bufs2, h
  <2>4. eb'[e].hist.bufs = bufs2
    BY <2>3
  <2>5. eb'[e].hist.sent = [f EXCEPT ![b] = Len(bufs2)]
    BY <2>3
  <2>6. [f EXCEPT ![b] = Len(bufs2)][b] = Len(bufs2) /\ \A c \in BdsOf(e) \ {b} : [f EXCEPT ![b] = Len(bufs2)][c] = f[c]
    BY <2>3
  <2> QED
    BY <2>2, <2>4, <2>5, <2>6
<1>7. miss \in Seq(Events)
  BY MissingFacts
<1>8. miss \o items \in Seq(Events)
  BY <1>2, <1>7, ConcatFacts
<1>9. Given(e, b)' = Given(e, b) \o (miss \o items)
  <2>1. Given(e, b) = seen[e][b]
    BY GivenSeen
  <2>2. batchTo'[e][b] = Data(miss \o items) /\ seen'[e] = seen[e]
    BY DEF Sends
  <2>3. Items(Data(miss \o items)) = miss \o items
    BY <1>8, MailFacts
  <2> QED
    BY <2>1, <2>2, <2>3 DEF Given
<1>10. \A c \in BdsOf(e) \ {b} : Given(e, c)' = Given(e, c)
  BY DEF Sends, Given
<1>11. EbFlow(e)
  BY DEF FlowInv
<1>12. Ahead(run.steps, h.bufs, eb[e].dict, Coming(e), Got(e))
  BY <1>11 DEF EbFlow
<1>13. bufs2 = Noted(run.steps, h.bufs, eb[e].dict)
  BY <1>1, <1>12, SendAhead
<1>14. Leads(run.steps, h.bufs, items, bufs2)
  BY <1>12, <1>13 DEF Ahead
<1> HIDE DEF bufs2
<1>15. \E n \in 0 .. NumEvents : bufs2 = Upto(run.steps, n)
  <2>1. bufs2 = h.bufs \/ \E n \in 0 .. NumEvents : bufs2 = Upto(run.steps, n)
    BY <1>2, <1>14, LeadsTo
  <2> QED
    BY <1>11, <2>1 DEF EbFlow
<1> QED
  BY <1>2, <1>5, <1>6, <1>9, <1>10, <1>14, <1>15 DEF bufs2

LEMMA SendFlow ==
  ASSUME TypeInv, FlowInv, NEW e \in Ebs, NEW b \in BdsOf(e), NEW k \in DOMAIN eb[e].dict, Sends(e, b, k),
         batchTo[e][b] = Nothing, chunkTo[e] = Nothing
  PROVE  EbFlow(e)' /\ \A c \in BdsOf(e) : BdFlow(e, c)'
<1> DEFINE T == run.steps
           bufs == eb[e].hist.bufs
           miss == Missing(eb[e].hist, b)
<1>1. PICK bufs2 : bufs2 = eb'[e].hist.bufs
  OBVIOUS
<1>2. /\ eb[e].dict[k] \in Seq(Events) /\ bufs2 = bufs \o Select(eb[e].dict[k], T) /\ bufs2 \in Seq(Events)
      /\ \E n \in 0 .. NumEvents : bufs2 = Upto(T, n)
      /\ Leads(T, bufs, eb[e].dict[k], bufs2)
  BY <1>1, SendHistory
<1>3. /\ eb'[e].hist.sent[b] = Len(bufs2)
      /\ \A c \in BdsOf(e) \ {b} : eb'[e].hist.sent[c] = eb[e].hist.sent[c]
      /\ Given(e, b)' = Given(e, b) \o (miss \o eb[e].dict[k])
      /\ \A c \in BdsOf(e) \ {b} : Given(e, c)' = Given(e, c)
  BY <1>1, SendHistory
<1>4. EbFlow(e) /\ \A c \in BdsOf(e) : BdFlow(e, c)
  BY DEF FlowInv
<1>5. /\ eb[e].dict \in Dicts /\ bufs \in Seq(Events) /\ eb[e].todo \in Seq(Events)
      /\ Coming(e) = eb[e].todo
  BY EbTypes, ComingTodo
<1>6. Coming(e)' = eb'[e].todo
  <2>1. eb'[e].todo \in Seq(Events) /\ chunkTo'[e] = Nothing
    BY DEF Sends, EbState
  <2> QED
    BY <2>1, MailFacts, EmptyEnds DEF Coming
<1>7. Ahead(T, bufs2, Without(eb[e].dict, k), eb[e].todo, Got(e))
  <2>1. Ahead(T, bufs, eb[e].dict, eb[e].todo, Got(e))
    BY <1>4, <1>5 DEF EbFlow
  <2> QED
    BY <1>2, <1>5, <2>1, SendAhead
<1>8. Ahead(T, bufs2, eb'[e].dict, eb'[e].todo, Got(e))
  <2>1. CASE eb'[e].dict = Without(eb[e].dict, k) /\ eb'[e].todo = eb[e].todo
    BY <1>7, <2>1
  <2>2. CASE /\ DOMAIN Without(eb[e].dict, k) = {}
             /\ Cut(e, eb[e].todo, eb'[e].dict, eb'[e].todo)
    <3>1. 0 \notin DOMAIN Without(eb[e].dict, k)
      BY <2>2
    <3>2. Leads(T, bufs2, eb[e].todo, Got(e))
      BY <1>7, <3>1 DEF Ahead, Noted
    <3> QED
      BY <1>2, <1>5, <2>2, <3>2, CutAhead
  <2> QED
    BY <2>1, <2>2 DEF Sends
<1>9. EbFlow(e)'
  <2>1. Got(e)' = Got(e) /\ run' = run /\ smd0' = smd0
    BY DEF Sends, Got
  <2> QED
    BY <1>1, <1>2, <1>4, <1>6, <1>8, <2>1 DEF EbFlow
<1>10. BdFlow(e, b)'
  <2>1. Leads(T, <<>>, Given(e, b), Sent(e, b)) /\ Given(e, b) \in Seq(Events)
    BY <1>4, BdTypes DEF BdFlow
  <2>2. miss \in Seq(Events) /\ Leads(T, Sent(e, b), miss, bufs)
    BY MissingFacts
  <2> HIDE DEF miss, bufs, T
  <2>3. Leads(T, Sent(e, b), miss \o eb[e].dict[k], bufs2) /\ miss \o eb[e].dict[k] \in Seq(Events)
    BY <1>2, <2>2, LeadsConcat, ConcatFacts
  <2>4. Leads(T, <<>>, Given(e, b) \o (miss \o eb[e].dict[k]), bufs2)
    BY <2>1, <2>3, LeadsConcat
  <2>5. SubSeq(bufs2, 1, Len(bufs2)) = bufs2 /\ Len(bufs2) <= Len(bufs2)
    BY <1>2
  <2>6. Sent(e, b)' = bufs2
    BY <1>1, <1>3, <2>5 DEF Sent
  <2>7. run'.steps = T
    BY DEF Sends, T
  <2> QED
    BY <1>1, <1>3, <2>4, <2>5, <2>6, <2>7 DEF BdFlow
<1>11. ASSUME NEW c \in BdsOf(e) \ {b}
       PROVE  BdFlow(e, c)'
  <2>1. Leads(T, <<>>, Given(e, c), Sent(e, c)) /\ eb[e].hist.sent[c] <= Len(bufs)
    BY <1>4 DEF BdFlow
  <2>2. PICK a : a = eb[e].hist.sent[c]
    OBVIOUS
  <2>3. a \in Nat /\ a <= Len(bufs)
    BY <2>1, <2>2, BdTypes
  <2>4. Select(eb[e].dict[k], T) \in Seq(Events)
    BY <1>2, SelectFacts
  <2> DEFINE x == Select(eb[e].dict[k], T)
  <2> HIDE DEF bufs, x
  <2>5. SubSeq(bufs \o x, 1, a) = SubSeq(bufs, 1, a) /\ a <= Len(bufs \o x)
    BY <1>5, <2>3, <2>4 DEF x
  <2>6. SubSeq(bufs2, 1, a) = SubSeq(bufs, 1, a) /\ a <= Len(bufs2)
    BY <1>2, <2>5 DEF x
  <2>7. eb'[e].hist.sent[c] = a /\ Given(e, c)' = Given(e, c)
    BY <1>3, <2>2
  <2>8. Sent(e, c)' = Sent(e, c)
    BY <1>1, <2>2, <2>6, <2>7 DEF Sent, bufs
  <2>9. run' = run
    BY DEF Sends
  <2> QED
    BY <1>1, <2>1, <2>6, <2>7, <2>8, <2>9 DEF BdFlow
<1> QED
  BY <1>9, <1>10, <1>11

LEMMA SendL1 ==
  ASSUME NEW T, NEW given \in Seq(Events), NEW miss \in Seq(Events), Elems(miss) \subseteq T,
         NEW items \in Seq(Events)
  PROVE  L1(T, given \o (miss \o items)) = L1(T, given) \cup L1(T, items)
<1> DEFINE x == miss \o items
<1>1. x \in Seq(Events) /\ Elems(x) = Elems(miss) \cup Elems(items)
  BY ElemsConcat, ConcatFacts
<1> HIDE DEF x
<1>2. Elems(given \o x) = Elems(given) \cup Elems(x)
  BY <1>1, ElemsConcat
<1> QED
  BY <1>1, <1>2 DEF L1, x

\* The L1Accepts change hands: what b gets was in the dictionary.
LEMMA SendPlace ==
  ASSUME TypeInv, FlowInv, PlaceInv, NEW e \in Ebs, NEW b \in BdsOf(e), NEW k \in DOMAIN eb[e].dict,
         k \in {0, b}, Sends(e, b, k), batchTo[e][b] = Nothing, chunkTo[e] = Nothing
  PROVE  /\ EbPlaced(e)'
         /\ Held(e)' \subseteq Held(e)
         /\ Whole => Held(e) \subseteq Held(e)'
<1> DEFINE T == run.steps
           dict == eb[e].dict
           w == Without(dict, k)
           given == [c \in BdsOf(e) |-> Given(e, c)]
           miss == Missing(eb[e].hist, b)
<1>1. PICK new : new = [c \in BdsOf(e) |-> Given(e, c)']
  OBVIOUS
<1>2. dict \in Dicts /\ eb[e].todo \in Seq(Events) /\ Coming(e) = eb[e].todo
  BY EbTypes, ComingTodo
<1>3. Coming(e)' = eb'[e].todo
  <2>1. eb'[e].todo \in Seq(Events) /\ chunkTo'[e] = Nothing
    BY DEF Sends, EbState
  <2> QED
    BY <2>1, MailFacts, EmptyEnds DEF Coming
<1>4. miss \in Seq(Events) /\ Elems(miss) \subseteq T
  BY MissingFacts
<1>5. /\ new[b] = given[b] \o (miss \o dict[k])
      /\ \A c \in BdsOf(e) \ {b} : new[c] = given[c]
  <2>1. Given(e, b)' = Given(e, b) \o (miss \o dict[k]) /\ \A c \in BdsOf(e) \ {b} : Given(e, c)' = Given(e, c)
    BY SendHistory
  <2> QED
    BY <1>1, <2>1
<1>6. given[b] \in Seq(Events)
  BY BdTypes
<1>7. Placed(T, e, dict, eb[e].todo, given)
  BY <1>2 DEF PlaceInv, EbPlaced
<1>8. run' = run /\ T' = T
  BY DEF Sends
<1> HIDE DEF miss, given
<1>9. Placed(T, e, w, eb[e].todo, new) /\ L1(T, new[b]) = L1(T, given[b]) \cup L1(T, dict[k])
  <2>1. dict \in Dicts /\ k \in DOMAIN dict
    BY <1>2
  <2>2. w = Without(dict, k)
    OBVIOUS
  <2> HIDE DEF T, dict, w
  <2>3. Placed(T, e, Without(dict, k), eb[e].todo, new)
    BY <1>4, <1>5, <1>6, <1>7, <2>1, SendPlaced
  <2>4. dict[k] \in Seq(Events)
    BY <2>1 DEF Dicts
  <2>5. L1(T, given[b] \o (miss \o dict[k])) = L1(T, given[b]) \cup L1(T, dict[k])
    BY <1>4, <1>6, <2>4, SendL1
  <2> QED
    BY <1>5, <2>2, <2>3, <2>5
<1>10. Placed(T, e, eb'[e].dict, eb'[e].todo, new)
  <2>1. CASE eb'[e].dict = w /\ eb'[e].todo = eb[e].todo
    BY <1>9, <2>1
  <2>2. CASE Cut(e, eb[e].todo, eb'[e].dict, eb'[e].todo)
    BY <1>2, <1>9, <2>2, CutPlaced
  <2> QED
    BY <2>1, <2>2 DEF Sends
<1>11. EbPlaced(e)'
  <2>1. EbPlaced(e)' <=> Placed(T, e, eb'[e].dict, eb'[e].todo, new)
    <3>1. given' = new
      BY <1>1 DEF given
    <3> QED
      BY <1>3, <1>8, <3>1, SameRun DEF EbPlaced, given
  <2> QED
    BY <1>10, <2>1
<1>12. Owned(e) = UNION {L1(T, given[c]) : c \in BdsOf(e)} /\ Owned(e)' = UNION {L1(T, new[c]) : c \in BdsOf(e)}
  BY <1>1, <1>8 DEF Owned, given
<1>13. Owned(e)' = Owned(e) \cup L1(T, dict[k])
  <2> HIDE DEF dict, T
  <2>1. UNION {L1(T, new[c]) : c \in BdsOf(e)} \subseteq (UNION {L1(T, given[c]) : c \in BdsOf(e)}) \cup L1(T, dict[k])
    BY <1>5, <1>9
  <2>2. UNION {L1(T, given[c]) : c \in BdsOf(e)} \subseteq UNION {L1(T, new[c]) : c \in BdsOf(e)}
    BY <1>5, <1>9
  <2>3. L1(T, dict[k]) \subseteq UNION {L1(T, new[c]) : c \in BdsOf(e)}
    BY <1>9
  <2> QED
    BY <1>12, <2>1, <2>2, <2>3
<1>14. Among(T, dict) = Among(T, w) \cup L1(T, dict[k])
  <2>1. DOMAIN w = DOMAIN dict \ {k} /\ \A j \in DOMAIN w : w[j] = dict[j]
    BY DEF Without
  <2> HIDE DEF w, dict, T
  <2>2. k \in DOMAIN dict
    BY DEF dict
  <2> QED
    BY <2>1, <2>2 DEF Among
<1>15. PICK x : x = Among(T, w)
  OBVIOUS
<1>16. PICK y : y = Owned(e)
  OBVIOUS
<1>17. Held(e) = L1(T, eb[e].todo) \cup (x \cup L1(T, dict[k])) \cup y
  BY <1>2, <1>14, <1>15, <1>16 DEF Held
<1>18. Held(e)' = L1(T, eb'[e].todo) \cup Among(T, eb'[e].dict) \cup (y \cup L1(T, dict[k]))
  <2>1. Held(e)' = L1(T', Coming(e)') \cup Among(T', eb'[e].dict) \cup Owned(e)'
    BY DEF Held, L1, Among, Elems
  <2> QED
    BY <1>3, <1>8, <1>13, <1>16, <2>1
<1>19. CASE eb'[e].dict = w /\ eb'[e].todo = eb[e].todo
  <2> HIDE DEF w, T, dict
  <2> QED
    BY <1>11, <1>15, <1>17, <1>18, <1>19
<1>20. CASE DOMAIN w = {} /\ Cut(e, eb[e].todo, eb'[e].dict, eb'[e].todo)
  <2>1. x = {}
    BY <1>15, <1>20 DEF Among
  <2>2. L1(T, eb'[e].todo) \cup Among(T, eb'[e].dict) \subseteq L1(T, eb[e].todo)
    BY <1>2, <1>20, CutHeld
  <2>3. Whole => L1(T, eb[e].todo) \subseteq L1(T, eb'[e].todo) \cup Among(T, eb'[e].dict)
    BY <1>2, <1>20, CutHeld
  <2> HIDE DEF w, T, dict
  <2> QED
    BY <1>11, <1>17, <1>18, <2>1, <2>2, <2>3
<1> QED
  BY <1>19, <1>20 DEF Sends

LEMMA SendStep ==
  ASSUME TypeInv, FlowInv, PlaceInv, CoverInv,
         NEW e \in Ebs, NEW b \in BdsOf(e), NEW k \in DOMAIN eb[e].dict,
         k \in {0, b}, Sends(e, b, k), batchTo[e][b] = Nothing, chunkTo[e] = Nothing,
         \A f \in Ebs \ {e} : SameAt(f)
  PROVE  FlowInv' /\ PlaceInv' /\ CoverInv'
<1>1. EbFlow(e)' /\ \A c \in BdsOf(e) : BdFlow(e, c)'
  BY SendFlow
<1>2. EbPlaced(e)' /\ Held(e)' \subseteq Held(e) /\ (Whole => Held(e) \subseteq Held(e)')
  BY SendPlace
<1>3. UNCHANGED <<run, smd0>>
  BY DEF Sends
<1> QED
  BY <1>1, <1>2, <1>3, OneEb

\* What becomes of the event builder that sent b its batch k.
LEMMA AfterSendFacts ==
  ASSUME NEW e \in Ebs, NEW st \in EbState(e), run.batch \in Nat \ {0}, run.destined \in BOOLEAN,
         NEW b \in BdsOf(e), NEW k \in DOMAIN st.dict, st.pc = "send"
  PROVE  LET n == AfterSend(e, st, b, k)
         IN /\ n \in EbState(e) /\ n.pc \in {"receive", "send"}
            /\ n.hist = Extended(st.hist, b, st.dict[k]) /\ n.waiting = st.waiting /\ n.turns = st.turns
            /\ n.pc # "send" => n.dict = <<>> /\ n.todo = <<>>
            /\ \/ n.dict = Without(st.dict, k) /\ n.todo = st.todo
               \/ DOMAIN Without(st.dict, k) = {} /\ Cut(e, st.todo, n.dict, n.todo)
<1> DEFINE x == [st EXCEPT !.hist = Extended(st.hist, b, st.dict[k]), !.dict = Without(st.dict, k)]
           n == AfterSend(e, st, b, k)
<1>1. n = IF DOMAIN x.dict = {} THEN NextBatch(e, x, x.todo) ELSE x
  BY DEF AfterSend
<1>2. /\ st.hist.bufs \in Seq(Events) /\ st.hist.sent \in [BdsOf(e) -> Nat] /\ st.dict \in Dicts
      /\ st.todo \in Seq(Events)
  BY DEF EbState
<1>3. st.dict[k] \in Seq(Events)
  BY <1>2 DEF Dicts
<1>4. Extended(st.hist, b, st.dict[k]) \in [bufs : Seq(Events), sent : [BdsOf(e) -> Nat]]
  <2>1. StepsOf(st.dict[k]) \in Seq(Events)
    BY <1>3, SelectFacts DEF StepsOf
  <2> DEFINE bufs == st.hist.bufs \o StepsOf(st.dict[k])
  <2>2. bufs \in Seq(Events) /\ Len(bufs) \in Nat
    <3> DEFINE x1 == st.hist.bufs
               x2 == StepsOf(st.dict[k])
    <3>1. x1 \in Seq(Events) /\ x2 \in Seq(Events)
      BY <1>2, <2>1
    <3> HIDE DEF x1, x2
    <3>2. x1 \o x2 \in Seq(Events) /\ Len(x1 \o x2) \in Nat
      BY <3>1
    <3> QED
      BY <3>2 DEF x1, x2
  <2>3. PICK f : f = st.hist.sent
    OBVIOUS
  <2>4. Extended(st.hist, b, st.dict[k]) = [bufs |-> bufs, sent |-> [f EXCEPT ![b] = Len(bufs)]]
    BY <2>3 DEF Extended
  <2> HIDE DEF bufs
  <2>5. [f EXCEPT ![b] = Len(bufs)] \in [BdsOf(e) -> Nat]
    BY <1>2, <2>2, <2>3
  <2> QED
    BY <2>2, <2>4, <2>5
<1>5. Without(st.dict, k) \in Dicts
  <2>1. PICK D \in SUBSET Dests : st.dict \in [D -> Seq(Events)]
    BY <1>2 DEF Dicts
  <2>2. PICK f : f = st.dict
    OBVIOUS
  <2>3. Without(f, k) \in [D \ {k} -> Seq(Events)]
    BY <2>1, <2>2 DEF Without
  <2>4. D \ {k} \in SUBSET Dests
    BY <2>1
  <2> QED
    BY <2>2, <2>3, <2>4 DEF Dicts
<1>6. /\ x \in EbState(e) /\ x.pc = "send" /\ x.hist = Extended(st.hist, b, st.dict[k])
      /\ x.dict = Without(st.dict, k) /\ x.todo = st.todo /\ x.waiting = st.waiting /\ x.turns = st.turns
  BY <1>4, <1>5 DEF EbState
<1> HIDE DEF x
<1>7. CASE DOMAIN x.dict = {}
  <2> DEFINE y == NextBatch(e, x, x.todo)
  <2>1. /\ y \in EbState(e) /\ y.pc \in {"receive", "send"}
        /\ y.hist = x.hist /\ y.waiting = x.waiting /\ y.turns = x.turns
        /\ y.pc # "send" => y.dict = <<>> /\ y.todo = <<>>
        /\ Cut(e, x.todo, y.dict, y.todo)
    BY <1>2, <1>6, NextCut
  <2>2. n = y
    BY <1>1, <1>7
  <2> HIDE DEF n, y
  <2>3. DOMAIN Without(st.dict, k) = {} /\ Cut(e, st.todo, n.dict, n.todo)
    BY <1>6, <1>7, <2>1, <2>2
  <2>4. /\ n \in EbState(e) /\ n.pc \in {"receive", "send"}
        /\ n.hist = Extended(st.hist, b, st.dict[k]) /\ n.waiting = st.waiting /\ n.turns = st.turns
        /\ n.pc # "send" => n.dict = <<>> /\ n.todo = <<>>
    BY <1>6, <2>1, <2>2
  <2> QED
    BY <2>3, <2>4 DEF n
<1>8. CASE DOMAIN x.dict # {}
  <2>1. n = x
    BY <1>1, <1>8
  <2> HIDE DEF n
  <2>2. /\ n \in EbState(e) /\ n.pc \in {"receive", "send"}
        /\ n.hist = Extended(st.hist, b, st.dict[k]) /\ n.waiting = st.waiting /\ n.turns = st.turns
        /\ (n.pc # "send" => n.dict = <<>> /\ n.todo = <<>>)
        /\ n.dict = Without(st.dict, k) /\ n.todo = st.todo
    BY <1>6, <2>1
  <2> QED
    BY <2>2 DEF n
<1> QED
  BY <1>7, <1>8

\* A sequence without some of its elements.
LEMMA SelectOnce ==
  ASSUME NEW S, NEW s \in Seq(S), NEW U
  PROVE  /\ Select(s, U) \in Seq(S) /\ Elems(Select(s, U)) = Elems(s) \cap U
         /\ Once({}, s) => Once({}, Select(s, U))
  BY SelectFacts

\* Who waits, with their places left out.
LEMMA WaitsElems ==
  ASSUME NEW e, NEW b
  PROVE  Waits(e, b) <=> b \in Elems(eb[e].waiting)
  BY DEF Waits, Elems

LEMMA ServedWaits ==
  ASSUME TypeInv, NEW e \in Ebs, NEW b \in Served(e)
  PROVE  b \in BdsOf(e) /\ Waits(e, b)
<1>1. eb[e].waiting \in Seq(BdsOf(e))
  BY EbTypes DEF EbState
<1> DEFINE w == eb[e].waiting
<1>2. b \in {w[k] : k \in {Len(w)} \ {0}} \/ b \in Range(w)
  BY DEF Served
<1> HIDE DEF w
<1>3. \E k \in 1 .. Len(w) : b = w[k]
  BY <1>1, <1>2 DEF Range, w
<1> QED
  BY <1>1, <1>3 DEF Waits, w

-----------------------------------------------------------------------------
(***************************************************************************)
(* What a step writes                                                      *)
(***************************************************************************)

\* g is f with x at e; with x at b in what is at e.
Set(g, f, S, e, x) == Fcn(g, S) /\ g[e] = x /\ \A d \in S \ {e} : g[d] = f[d]

SetIn(g, f, V, e, b, x) ==
  /\ Fcn(g, Ebs) /\ \A d \in Ebs : g[d] \in [BdsOf(d) -> V]
  /\ g[e][b] = x /\ \A c \in BdsOf(e) \ {b} : g[e][c] = f[e][c]
  /\ \A d \in Ebs \ {e} : g[d] = f[d]

LEMMA FcnUpdate ==
  ASSUME NEW S, NEW f, Fcn(f, S), NEW e \in S, NEW x
  PROVE  Set([f EXCEPT ![e] = x], f, S, e, x)
<1>1. f = [d \in S |-> f[d]]
  BY DEF Fcn
<1>2. PICK g : g = [f EXCEPT ![e] = x]
  OBVIOUS
<1>3. g = [d \in S |-> IF d = e THEN x ELSE f[d]]
  BY <1>1, <1>2
<1>4. g[e] = x /\ \A d \in S \ {e} : g[d] = f[d]
  BY <1>3
<1>5. g = [d \in S |-> g[d]]
  BY <1>3, <1>4
<1> QED
  BY <1>2, <1>4, <1>5 DEF Fcn, Set

\* A mail for b, or what was given to it.
LEMMA FcnUpdateIn ==
  ASSUME NEW V, NEW f, Fcn(f, Ebs), \A d \in Ebs : f[d] \in [BdsOf(d) -> V],
         NEW e \in Ebs, NEW b \in BdsOf(e), NEW x \in V
  PROVE  SetIn([f EXCEPT ![e][b] = x], f, V, e, b, x)
<1>1. PICK y : y = [f[e] EXCEPT ![b] = x]
  OBVIOUS
<1>2. PICK g : g = [f EXCEPT ![e] = y]
  OBVIOUS
<1>3. [f EXCEPT ![e][b] = x] = g
  BY <1>1, <1>2
<1>4. Set([f EXCEPT ![e] = y], f, Ebs, e, y)
  BY FcnUpdate
<1>5. Fcn(g, Ebs) /\ g[e] = y /\ \A d \in Ebs \ {e} : g[d] = f[d]
  BY <1>2, <1>4 DEF Set
<1>6. PICK h : h = f[e]
  OBVIOUS
<1>7. y \in [BdsOf(e) -> V] /\ y[b] = x /\ \A c \in BdsOf(e) \ {b} : y[c] = h[c]
  <2>1. h \in [BdsOf(e) -> V] /\ y = [h EXCEPT ![b] = x]
    BY <1>1, <1>6
  <2> QED
    BY <2>1
<1>8. \A d \in Ebs : g[d] \in [BdsOf(d) -> V]
  BY <1>5, <1>7
<1> QED
  BY <1>3, <1>5, <1>6, <1>7, <1>8 DEF SetIn

LEMMA BatchSet ==
  ASSUME TypeInv, NEW e \in Ebs, NEW b \in BdsOf(e), NEW m \in Mails, batchTo' = [batchTo EXCEPT ![e][b] = m]
  PROVE  /\ Fcn(batchTo, Ebs)' /\ \A f \in Ebs : batchTo'[f] \in [BdsOf(f) -> Mails]
         /\ batchTo'[e][b] = m /\ \A c \in BdsOf(e) \ {b} : batchTo'[e][c] = batchTo[e][c]
         /\ \A f \in Ebs \ {e} : batchTo'[f] = batchTo[f]
<1>1. Fcn(batchTo, Ebs) /\ \A f \in Ebs : batchTo[f] \in [BdsOf(f) -> Mails]
  BY DEF TypeInv
<1>2. SetIn([batchTo EXCEPT ![e][b] = m], batchTo, Mails, e, b, m)
  BY <1>1, FcnUpdateIn
<1>3. Fcn(batchTo', Ebs) <=> Fcn(batchTo, Ebs)'
  BY DEF Fcn
<1> QED
  BY <1>2, <1>3 DEF SetIn

LEMMA BdSet ==
  ASSUME TypeInv, NEW e \in Ebs, NEW b \in BdsOf(e), NEW v \in {"ask", "wait", "done"},
         bd' = [bd EXCEPT ![e][b] = v]
  PROVE  /\ Fcn(bd, Ebs)' /\ \A f \in Ebs : bd'[f] \in [BdsOf(f) -> {"ask", "wait", "done"}]
         /\ bd'[e][b] = v /\ \A c \in BdsOf(e) \ {b} : bd'[e][c] = bd[e][c]
         /\ \A f \in Ebs \ {e} : bd'[f] = bd[f]
<1> DEFINE V == {"ask", "wait", "done"}
<1>1. Fcn(bd, Ebs) /\ \A f \in Ebs : bd[f] \in [BdsOf(f) -> V]
  BY DEF TypeInv
<1>2. SetIn([bd EXCEPT ![e][b] = v], bd, V, e, b, v)
  <2>1. v \in V
    OBVIOUS
  <2> HIDE DEF V
  <2> QED
    BY <1>1, <2>1, FcnUpdateIn
<1>3. Fcn(bd', Ebs) <=> Fcn(bd, Ebs)'
  BY DEF Fcn
<1> QED
  BY <1>2, <1>3 DEF SetIn

LEMMA SeenSet ==
  ASSUME TypeInv, NEW e \in Ebs, NEW b \in BdsOf(e), NEW s \in Seq(Events), seen' = [seen EXCEPT ![e][b] = s]
  PROVE  /\ Fcn(seen, Ebs)' /\ \A f \in Ebs : seen'[f] \in [BdsOf(f) -> Seq(Events)]
         /\ seen'[e][b] = s /\ \A c \in BdsOf(e) \ {b} : seen'[e][c] = seen[e][c]
         /\ \A f \in Ebs \ {e} : seen'[f] = seen[f]
<1>1. Fcn(seen, Ebs) /\ \A f \in Ebs : seen[f] \in [BdsOf(f) -> Seq(Events)]
  BY DEF TypeInv
<1>2. SetIn([seen EXCEPT ![e][b] = s], seen, Seq(Events), e, b, s)
  BY <1>1, FcnUpdateIn
<1>3. Fcn(seen', Ebs) <=> Fcn(seen, Ebs)'
  BY DEF Fcn
<1> QED
  BY <1>2, <1>3 DEF SetIn

LEMMA AskingSet ==
  ASSUME TypeInv, NEW e \in Ebs, NEW s \in SUBSET BdsOf(e), bdAsking' = [bdAsking EXCEPT ![e] = s]
  PROVE  /\ Fcn(bdAsking, Ebs)' /\ \A f \in Ebs : bdAsking'[f] \subseteq BdsOf(f)
         /\ bdAsking'[e] = s /\ \A f \in Ebs \ {e} : bdAsking'[f] = bdAsking[f]
<1>1. Fcn(bdAsking, Ebs) /\ \A f \in Ebs : bdAsking[f] \subseteq BdsOf(f)
  BY DEF TypeInv
<1>2. Set([bdAsking EXCEPT ![e] = s], bdAsking, Ebs, e, s)
  BY <1>1, FcnUpdate
<1>3. Fcn(bdAsking', Ebs) <=> Fcn(bdAsking, Ebs)'
  BY DEF Fcn
<1> QED
  BY <1>1, <1>2, <1>3 DEF Set

\* Who is left alone asks, and is answered, as before.
LEMMA AskElsewhere ==
  ASSUME AskInv, NEW e \in Ebs, e \in asking' <=> e \in asking,
         eb'[e] = eb[e], chunkTo'[e] = chunkTo[e], bdAsking'[e] = bdAsking[e], batchTo'[e] = batchTo[e], bd'[e] = bd[e]
  PROVE  EbAsks(e)' /\ \A b \in BdsOf(e) : BdAsks(e, b)'
<1>1. EbAsks(e) /\ \A b \in BdsOf(e) : BdAsks(e, b)
  BY DEF AskInv
<1>2. EbAsks(e)'
  BY <1>1 DEF EbAsks
<1>3. ASSUME NEW b \in BdsOf(e)
      PROVE  BdAsks(e, b)'
  BY <1>1 DEF BdAsks, Waits, Ends
<1> QED
  BY <1>2, <1>3

LEMMA AskStep ==
  ASSUME AskInv, NEW e \in Ebs, EbAsks(e)', \A b \in BdsOf(e) : BdAsks(e, b)',
         \A f \in Ebs \ {e} :
           /\ f \in asking' <=> f \in asking
           /\ eb'[f] = eb[f] /\ chunkTo'[f] = chunkTo[f] /\ bdAsking'[f] = bdAsking[f]
           /\ batchTo'[f] = batchTo[f] /\ bd'[f] = bd[f]
  PROVE  AskInv'
<1>1. ASSUME NEW f \in Ebs \ {e}
      PROVE  EbAsks(f)' /\ \A b \in BdsOf(f) : BdAsks(f, b)'
  BY AskElsewhere
<1>2. \A f \in Ebs : EbAsks(f)' /\ \A b \in BdsOf(f) : BdAsks(f, b)'
  BY <1>1
<1> QED
  BY <1>2 DEF AskInv

-----------------------------------------------------------------------------
(* The batches sent in the loop of an event builder                          *)

\* n is e once batch k is with b.
Sent1(e, b, k, n) ==
  /\ n \in EbState(e) /\ n.pc \in {"receive", "send"}
  /\ n.hist = Extended(eb[e].hist, b, eb[e].dict[k]) /\ n.turns = eb[e].turns
  /\ n.pc # "send" => n.dict = <<>> /\ n.todo = <<>>
  /\ \/ n.dict = Without(eb[e].dict, k) /\ n.todo = eb[e].todo
     \/ DOMAIN Without(eb[e].dict, k) = {} /\ Cut(e, eb[e].todo, n.dict, n.todo)
  /\ Once({}, n.waiting) /\ Elems(n.waiting) = Elems(eb[e].waiting) \ {b}

LEMMA SendSetup ==
  ASSUME TypeInv, AskInv, FlowInv, NEW e \in Ebs, NEW b \in BdsOf(e), NEW k \in DOMAIN eb[e].dict,
         eb[e].pc = "send", NEW n, Sent1(e, b, k, n),
         SendTo(e, b, eb[e].dict[k]), eb' = [eb EXCEPT ![e] = n],
         UNCHANGED <<run, smd0, chunkTo, seen>>, batchTo[e][b] = Nothing
  PROVE  /\ Sends(e, b, k) /\ chunkTo[e] = Nothing
         /\ \A f \in Ebs \ {e} : SameAt(f) /\ eb'[f] = eb[f] /\ batchTo'[f] = batchTo[f]
         /\ eb'[e] = n /\ Fcn(eb, Ebs)' /\ \A f \in Ebs : eb'[f] \in EbState(f)
         /\ Fcn(batchTo, Ebs)' /\ \A f \in Ebs : batchTo'[f] \in [BdsOf(f) -> Mails]
         /\ ~Ends(batchTo'[e][b]) /\ \A c \in BdsOf(e) \ {b} : batchTo'[e][c] = batchTo[e][c]
<1> DEFINE m == Data(Missing(eb[e].hist, b) \o eb[e].dict[k])
<1>1. m \in Mails /\ ~Ends(m)
  <2>1. Missing(eb[e].hist, b) \in Seq(Events)
    BY MissingFacts
  <2>2. eb[e].dict[k] \in Seq(Events)
    BY EbTypes DEF Dicts
  <2>3. Missing(eb[e].hist, b) \o eb[e].dict[k] \in Seq(Events)
    BY <2>1, <2>2, ConcatFacts
  <2> QED
    BY <2>3, MailFacts
<1>2. batchTo' = [batchTo EXCEPT ![e][b] = m]
  BY DEF SendTo
<1> HIDE DEF m
<1>3. /\ Fcn(batchTo, Ebs)' /\ \A f \in Ebs : batchTo'[f] \in [BdsOf(f) -> Mails]
      /\ batchTo'[e][b] = m /\ \A c \in BdsOf(e) \ {b} : batchTo'[e][c] = batchTo[e][c]
      /\ \A f \in Ebs \ {e} : batchTo'[f] = batchTo[f]
  BY <1>1, <1>2, BatchSet
<1>4. n \in EbState(e)
  BY DEF Sent1
<1>5. eb'[e] = n /\ \A f \in Ebs \ {e} : eb'[f] = eb[f]
  BY EbUpdate
<1>6. Fcn(eb, Ebs)' /\ \A f \in Ebs : eb'[f] \in EbState(f)
  BY <1>4, EbUpdate
<1>7. \A f \in Ebs \ {e} : SameAt(f)
  BY <1>3, <1>5, SameElsewhere
<1>8. chunkTo[e] = Nothing
  BY DEF AskInv, EbAsks
<1>9. Sends(e, b, k)
  BY <1>3, <1>4, <1>5 DEF Sends, Sent1, m
<1> QED
  BY <1>1, <1>3, <1>5, <1>6, <1>7, <1>8, <1>9

LEMMA SendInv ==
  ASSUME Inv, NEW e \in Ebs, NEW b \in BdsOf(e), NEW k \in DOMAIN eb[e].dict, k \in {0, b},
         eb[e].pc = "send", NEW n, Sent1(e, b, k, n),
         SendTo(e, b, eb[e].dict[k]), eb' = [eb EXCEPT ![e] = n], Asked(e),
         UNCHANGED <<run, smd0, chunkTo, seen, bd, terminated>>,
         bdAsking' = [bdAsking EXCEPT ![e] = bdAsking[e] \ {b}],
         batchTo[e][b] = Nothing, bd[e][b] = "wait"
  PROVE  Inv'
<1>1. TypeInv /\ AskInv /\ FlowInv /\ PlaceInv /\ CoverInv
  BY DEF Inv
<1>2. /\ Sends(e, b, k) /\ chunkTo[e] = Nothing
      /\ \A f \in Ebs \ {e} : SameAt(f) /\ eb'[f] = eb[f] /\ batchTo'[f] = batchTo[f]
      /\ eb'[e] = n /\ Fcn(eb, Ebs)' /\ \A f \in Ebs : eb'[f] \in EbState(f)
      /\ Fcn(batchTo, Ebs)' /\ \A f \in Ebs : batchTo'[f] \in [BdsOf(f) -> Mails]
      /\ ~Ends(batchTo'[e][b]) /\ \A c \in BdsOf(e) \ {b} : batchTo'[e][c] = batchTo[e][c]
  BY <1>1, SendSetup
<1>3. FlowInv' /\ PlaceInv' /\ CoverInv'
  BY <1>1, <1>2, SendStep
<1>4. /\ Fcn(bdAsking, Ebs)' /\ \A f \in Ebs : bdAsking'[f] \subseteq BdsOf(f)
      /\ bdAsking'[e] = bdAsking[e] \ {b} /\ \A f \in Ebs \ {e} : bdAsking'[f] = bdAsking[f]
  <2>1. bdAsking[e] \ {b} \in SUBSET BdsOf(e)
    BY <1>1 DEF TypeInv
  <2> QED
    BY <1>1, <2>1, AskingSet, ZenonT(30)
<1>5. asking' = IF n.pc = "receive" THEN asking \cup {e} ELSE asking
  BY <1>2 DEF Asked
<1>6. TypeInv'
  <2>1. asking' \subseteq Ebs
    BY <1>1, <1>5 DEF TypeInv
  <2>2. Fcn(bd, Ebs)' /\ Fcn(seen, Ebs)'
    BY <1>1 DEF TypeInv, Fcn
  <2> QED
    BY <1>1, <1>2, <1>4, <2>1, <2>2 DEF TypeInv
<1>7. e \notin asking
  BY <1>1 DEF AskInv, EbAsks
<1>8. EbAsks(e)'
  <2>1. \A j, l \in 1 .. Len(n.waiting) : n.waiting[j] = n.waiting[l] => j = l
    BY DEF Sent1, Once
  <2>2. n.pc \in {"receive", "send"} /\ (n.pc # "send" => n.dict = <<>> /\ n.todo = <<>>)
    BY DEF Sent1
  <2> QED
    BY <1>2, <1>5, <1>7, <2>1, <2>2 DEF EbAsks
<1>9. ASSUME NEW c \in BdsOf(e)
      PROVE  BdAsks(e, c)'
  <2>1. Waits(e, c)' <=> Waits(e, c) /\ c # b
    <3>1. Waits(e, c) <=> c \in Elems(eb[e].waiting)
      BY WaitsElems
    <3>2. Waits(e, c)' <=> c \in Elems(n.waiting)
      BY <1>2 DEF Waits, Elems
    <3> QED
      BY <3>1, <3>2 DEF Sent1
  <2>2. BdAsks(e, c) /\ bd'[e][c] = bd[e][c]
    BY <1>1 DEF AskInv
  <2>3. n.pc \notin {"kill", "done"}
    BY DEF Sent1
  <2>4. CASE c = b
    <3>1. Ends(batchTo[e][b])' <=> Ends(batchTo'[e][b])
      BY DEF Ends
    <3> QED
      BY <1>2, <1>4, <2>1, <2>2, <2>4, <3>1 DEF BdAsks
  <2>5. CASE c # b
    <3>1. batchTo'[e][c] = batchTo[e][c]
      BY <1>2, <2>5
    <3>2. Ends(batchTo[e][c])' <=> Ends(batchTo[e][c])
      BY <3>1 DEF Ends
    <3>3. c \in bdAsking'[e] <=> c \in bdAsking[e]
      BY <1>4, <2>5
    <3> QED
      BY <1>2, <2>1, <2>2, <2>3, <3>1, <3>2, <3>3 DEF BdAsks
  <2> QED
    BY <2>4, <2>5
<1>10. AskInv'
  <2>1. \A f \in Ebs \ {e} : f \in asking' <=> f \in asking
    BY <1>5
  <2> QED
    BY <1>1, <1>2, <1>4, <1>8, <1>9, <2>1, AskStep
<1> QED
  BY <1>3, <1>6, <1>10 DEF Inv

LEMMA EbSendWaitingInv ==
  ASSUME Inv, NEW e \in Ebs, NEW b \in BdsOf(e), EbSendWaiting(e, b)
  PROVE  Inv'
<1>1. TypeInv /\ AskInv
  BY DEF Inv
<1>2. eb[e].pc = "send" /\ b \in Served(e)
  BY DEF EbSendWaiting
<1>3. PICK k \in Fits(eb[e].dict, b) :
        /\ SendTo(e, b, eb[e].dict[k])
        /\ eb' = [eb EXCEPT ![e] = [AfterSend(e, eb[e], b, k) EXCEPT
                                      !.waiting = Select(eb[e].waiting, BdsOf(e) \ {b})]]
  BY DEF EbSendWaiting
<1>4. k \in DOMAIN eb[e].dict /\ k \in {0, b}
  BY DEF Fits
<1> DEFINE a == AfterSend(e, eb[e], b, k)
           w == Select(eb[e].waiting, BdsOf(e) \ {b})
           n == [a EXCEPT !.waiting = w]
<1>5. eb[e] \in EbState(e) /\ run.batch \in Nat \ {0} /\ run.destined \in BOOLEAN
  BY <1>1, EbTypes
<1>6. /\ a \in EbState(e) /\ a.pc \in {"receive", "send"}
      /\ a.hist = Extended(eb[e].hist, b, eb[e].dict[k]) /\ a.waiting = eb[e].waiting /\ a.turns = eb[e].turns
      /\ a.pc # "send" => a.dict = <<>> /\ a.todo = <<>>
      /\ \/ a.dict = Without(eb[e].dict, k) /\ a.todo = eb[e].todo
         \/ DOMAIN Without(eb[e].dict, k) = {} /\ Cut(e, eb[e].todo, a.dict, a.todo)
  BY <1>2, <1>4, <1>5, AfterSendFacts
<1> HIDE DEF a
<1>7. eb[e].waiting \in Seq(BdsOf(e)) /\ Once({}, eb[e].waiting)
  BY <1>1, <1>5 DEF EbState, AskInv, EbAsks, Once
<1>8. /\ w \in Seq(BdsOf(e)) /\ Elems(w) = Elems(eb[e].waiting) \cap (BdsOf(e) \ {b})
      /\ Once({}, w)
  BY <1>6, <1>7, SelectOnce
<1>9. Elems(eb[e].waiting) \subseteq BdsOf(e)
  <2> DEFINE s == eb[e].waiting
  <2>1. s \in Seq(BdsOf(e))
    BY <1>7
  <2> HIDE DEF s
  <2>2. Elems(s) \subseteq BdsOf(e)
    BY <2>1 DEF Elems
  <2> QED
    BY <2>2 DEF s
<1> HIDE DEF w
<1>10. /\ n \in EbState(e) /\ n.pc = a.pc /\ n.hist = a.hist /\ n.turns = a.turns /\ n.dict = a.dict
       /\ n.todo = a.todo /\ n.waiting = w
  BY <1>6, <1>8 DEF EbState
<1>11. eb' = [eb EXCEPT ![e] = n]
  BY <1>3 DEF a, w
<1> HIDE DEF n
<1>12. Sent1(e, b, k, n)
  BY <1>6, <1>8, <1>9, <1>10 DEF Sent1
<1>13. Waits(e, b)
  BY <1>1, <1>2, ServedWaits
<1>14. BdAsks(e, b)
  BY <1>1 DEF AskInv
<1>15. b \notin bdAsking[e] /\ batchTo[e][b] = Nothing /\ bd[e][b] # "ask" /\ bd[e][b] # "done"
  BY <1>2, <1>13, <1>14 DEF BdAsks
<1>16. bd[e][b] \in {"ask", "wait", "done"}
  BY <1>1 DEF TypeInv
<1>17. bdAsking' = [bdAsking EXCEPT ![e] = bdAsking[e] \ {b}]
  <2>1. bdAsking[e] \ {b} = bdAsking[e] /\ bdAsking' = bdAsking
    BY <1>15 DEF EbSendWaiting
  <2>2. bdAsking = [bdAsking EXCEPT ![e] = bdAsking[e]]
    BY <1>1 DEF TypeInv, Fcn
  <2> QED
    BY <2>1, <2>2
<1>18. Asked(e) /\ UNCHANGED <<run, smd0, chunkTo, seen, bd, terminated>>
  BY DEF EbSendWaiting
<1> QED
  BY <1>2, <1>3, <1>4, <1>11, <1>12, <1>15, <1>16, <1>17, <1>18, SendInv

-----------------------------------------------------------------------------
(* The steps of an event builder that move no event                          *)

LEMMA EbChange ==
  ASSUME Inv, NEW e \in Ebs, NEW n \in EbState(e), eb' = [eb EXCEPT ![e] = n],
         NEW s \in SUBSET BdsOf(e), bdAsking' = [bdAsking EXCEPT ![e] = s],
         Fcn(batchTo, Ebs)', \A f \in Ebs : batchTo'[f] \in [BdsOf(f) -> Mails],
         \A f \in Ebs \ {e} : batchTo'[f] = batchTo[f],
         UNCHANGED <<run, smd0, asking, chunkTo, bd, seen, terminated>>
  PROVE  /\ TypeInv' /\ eb'[e] = n /\ bdAsking'[e] = s
         /\ \A f \in Ebs \ {e} : SameAt(f)
         /\ EbAsks(e)' /\ (\A b \in BdsOf(e) : BdAsks(e, b)') => AskInv'
<1>1. TypeInv /\ AskInv
  BY DEF Inv
<1>2. eb'[e] = n /\ \A f \in Ebs \ {e} : eb'[f] = eb[f]
  BY <1>1, EbUpdate
<1>3. Fcn(eb, Ebs)' /\ \A f \in Ebs : eb'[f] \in EbState(f)
  BY <1>1, EbUpdate
<1>4. /\ Fcn(bdAsking, Ebs)' /\ \A f \in Ebs : bdAsking'[f] \subseteq BdsOf(f)
      /\ bdAsking'[e] = s /\ \A f \in Ebs \ {e} : bdAsking'[f] = bdAsking[f]
  BY <1>1, AskingSet
<1>5. TypeInv'
  <2>1. Fcn(bd, Ebs)' /\ Fcn(seen, Ebs)'
    BY <1>1 DEF TypeInv, Fcn
  <2> QED
    BY <1>1, <1>3, <1>4, <2>1 DEF TypeInv
<1>6. \A f \in Ebs \ {e} : SameAt(f)
  BY <1>2, SameElsewhere
<1>7. ASSUME EbAsks(e)', \A b \in BdsOf(e) : BdAsks(e, b)'
      PROVE  AskInv'
  BY <1>1, <1>2, <1>4, <1>7, AskStep
<1> QED
  BY <1>2, <1>4, <1>5, <1>6, <1>7

LEMMA EbQuiet ==
  ASSUME Inv, NEW e \in Ebs, NEW n \in EbState(e), eb'[e] = n,
         n.hist = eb[e].hist, n.dict = eb[e].dict, n.todo = eb[e].todo,
         \A b \in BdsOf(e) : Items(batchTo'[e][b]) = Items(batchTo[e][b]),
         \A f \in Ebs \ {e} : SameAt(f), UNCHANGED <<run, smd0, chunkTo, seen>>
  PROVE  FlowInv' /\ PlaceInv' /\ CoverInv'
<1>1. \A b \in BdsOf(e) : Given(e, b)' = Given(e, b)
  BY DEF Given, Items
<1>2. Coming(e)' = Coming(e)
  BY DEF Coming
<1>3. SameAt(e)
  BY <1>1, <1>2 DEF SameAt
<1>4. \A f \in Ebs : SameAt(f)
  BY <1>3
<1> QED
  BY <1>4, QuietStep DEF Inv

\* A bd whose request is received waits.
LEMMA KeepFacts ==
  ASSUME TypeInv, AskInv, NEW e \in Ebs, NEW b \in bdAsking[e]
  PROVE  /\ b \in BdsOf(e) /\ batchTo[e][b] = Nothing /\ bd[e][b] = "wait" /\ ~Waits(e, b)
         /\ Append(eb[e].waiting, b) \in Seq(BdsOf(e)) /\ Once({}, Append(eb[e].waiting, b))
         /\ \A c \in BdsOf(e) : c \in Elems(Append(eb[e].waiting, b)) <=> c = b \/ Waits(e, c)
<1>1. b \in BdsOf(e)
  BY DEF TypeInv
<1>2. BdAsks(e, b) /\ EbAsks(e)
  BY <1>1 DEF AskInv
<1>3. bd[e][b] \in {"ask", "wait", "done"}
  BY <1>1 DEF TypeInv
<1>4. batchTo[e][b] = Nothing /\ bd[e][b] = "wait" /\ ~Waits(e, b)
  BY <1>1, <1>2, <1>3 DEF BdAsks
<1>5. eb[e].waiting \in Seq(BdsOf(e)) /\ Once({}, eb[e].waiting)
  BY <1>2, EbTypes DEF EbState, EbAsks, Once
<1> DEFINE s == eb[e].waiting
<1>6. s \in Seq(BdsOf(e)) /\ Once({}, s) /\ b \notin Elems(s)
  BY <1>4, <1>5, WaitsElems
<1>7. \A c : Waits(e, c) <=> c \in Elems(s)
  BY WaitsElems
<1> HIDE DEF s
<1>8. Append(s, b) \in Seq(BdsOf(e))
  BY <1>1, <1>6
<1>9. Elems(Append(s, b)) = Elems(s) \cup {b} /\ Once({}, Append(s, b))
  BY <1>1, <1>6, ElemsAppend
<1> QED
  BY <1>1, <1>4, <1>7, <1>8, <1>9 DEF s

-----------------------------------------------------------------------------
(* How many turns the loops at the end of an event builder have              *)

LEMMA BdsFacts ==
  ASSUME NEW e \in Ebs
  PROVE  \E m \in 0 .. NumBds :
           /\ BdsOf(e) = 1 .. m /\ IsFiniteSet(BdsOf(e)) /\ Cardinality(BdsOf(e)) = m
           /\ NumBds >= NumEbs => m > 0
<1>1. PICK n : n = NumEbs
  OBVIOUS
<1>2. n \in Nat \ {0} /\ NumBds \in Nat \ {0} /\ e \in 1 .. n
  BY <1>1, CountsAssumption DEF Ebs
<1>3. PICK a : a = NumBds + n - e
  OBVIOUS
<1>4. a \in Nat
  BY <1>2, <1>3
<1> DEFINE m == a \div n
<1>5. m \in Nat
  BY <1>2, <1>4
<1>6. m * n <= a /\ a < (m + 1) * n
  BY <1>2, <1>4
<1> HIDE DEF m
<1>7. m <= NumBds
  <2>1. SUFFICES ASSUME m >= NumBds + 1 PROVE FALSE
    BY <1>2, <1>5
  <2>2. PICK d \in Nat : m = NumBds + 1 + d
    <3>1. m - (NumBds + 1) \in Nat /\ m = NumBds + 1 + (m - (NumBds + 1))
      BY <1>2, <1>5, <2>1
    <3> QED
      BY <3>1
  <2>3. PICK p \in Nat : p = d * n
    BY <1>2
  <2>4. PICK q \in Nat : q = NumBds * n
    BY <1>2
  <2>5. q >= NumBds
    <3>1. PICK k \in Nat : n = k + 1
      <4>1. n - 1 \in Nat /\ n = n - 1 + 1
        BY <1>2
      <4> QED
        BY <4>1
    <3>2. NumBds * (k + 1) = NumBds * k + NumBds /\ NumBds * k \in Nat
      BY <1>2, <3>1
    <3> QED
      BY <1>2, <2>4, <3>1, <3>2
  <2>6. m * n = q + n + p
    BY <1>2, <2>2, <2>3, <2>4
  <2> QED
    BY <1>2, <1>3, <1>6, <2>5, <2>6
<1>8. NumBds >= NumEbs => m > 0
  <2>1. SUFFICES ASSUME NumBds >= n, m = 0 PROVE FALSE
    BY <1>1, <1>5
  <2>2. (0 + 1) * n = n
    BY <1>2
  <2> QED
    BY <1>2, <1>3, <1>6, <2>1, <2>2
<1>9. BdsOf(e) = 1 .. m
  BY <1>1, <1>3 DEF BdsOf, m
<1>10. IsFiniteSet(BdsOf(e)) /\ Cardinality(BdsOf(e)) = m
  <2>1. Cardinality(1 .. m) = m /\ IsFiniteSet(1 .. m)
    BY <1>5, FS_Interval
  <2> QED
    BY <1>9, <2>1
<1> QED
  BY <1>2, <1>5, <1>7, <1>8, <1>9, <1>10

\* A sequence without repetition is not longer than the set is large.
LEMMA OnceLen ==
  ASSUME NEW S, IsFiniteSet(S), NEW s \in Seq(S), Once({}, s)
  PROVE  Len(s) <= Cardinality(S)
<1> DEFINE n == Len(s)
<1>1. n \in Nat /\ s \in [1 .. n -> S]
  OBVIOUS
<1>2. \A j, k \in 1 .. n : s[j] = s[k] => j = k
  BY DEF Once
<1> HIDE DEF n
<1>3. IsFiniteSet(1 .. n) /\ Cardinality(1 .. n) = n
  BY <1>1, FS_Interval
<1>4. Cardinality(S) \in Nat
  BY FS_CardinalityType
<1>5. ASSUME Cardinality(S) < Cardinality(1 .. n)
      PROVE  FALSE
  <2>1. \E x, y \in 1 .. n : x # y /\ s[x] = s[y]
    BY <1>1, <1>3, <1>5, FS_PigeonHole
  <2> QED
    BY <1>2, <2>1
<1> QED
  BY <1>1, <1>3, <1>4, <1>5 DEF n

LEMMA TurnsFacts ==
  ASSUME NEW e \in Ebs, NEW w \in Seq(BdsOf(e)), Once({}, w)
  PROVE  Turns(e, w) \in 0 .. NumBds
<1>1. PICK m \in 0 .. NumBds : IsFiniteSet(BdsOf(e)) /\ Cardinality(BdsOf(e)) = m
  BY BdsFacts
<1>2. Len(w) <= m /\ Len(w) \in Nat
  BY <1>1, OnceLen
<1>3. NumBds \in Nat
  BY CountsAssumption
<1> QED
  BY <1>1, <1>2, <1>3 DEF Turns

LEMMA EbSendInv ==
  ASSUME Inv, NEW e \in Ebs, NEW b \in BdsOf(e), EbSend(e, b)
  PROVE  Inv'
<1>1. TypeInv /\ AskInv
  BY DEF Inv
<1>2. /\ eb[e].pc = "send" /\ b \in bdAsking[e]
      /\ bdAsking' = [bdAsking EXCEPT ![e] = bdAsking[e] \ {b}]
      /\ Asked(e) /\ UNCHANGED <<run, smd0, chunkTo, bd, seen, terminated>>
  BY DEF EbSend
<1>3. /\ batchTo[e][b] = Nothing /\ bd[e][b] = "wait" /\ ~Waits(e, b)
      /\ Append(eb[e].waiting, b) \in Seq(BdsOf(e)) /\ Once({}, Append(eb[e].waiting, b))
      /\ \A c \in BdsOf(e) : c \in Elems(Append(eb[e].waiting, b)) <=> c = b \/ Waits(e, c)
  BY <1>1, <1>2, KeepFacts
<1>4. eb[e] \in EbState(e) /\ run.batch \in Nat \ {0} /\ run.destined \in BOOLEAN
  BY <1>1, EbTypes
<1>5. EbAsks(e) /\ \A c \in BdsOf(e) : BdAsks(e, c)
  BY <1>1 DEF AskInv
<1>6. CASE \E k \in Fits(eb[e].dict, b) :
             SendTo(e, b, eb[e].dict[k]) /\ eb' = [eb EXCEPT ![e] = AfterSend(e, eb[e], b, k)]
  <2>1. PICK k \in Fits(eb[e].dict, b) :
             SendTo(e, b, eb[e].dict[k]) /\ eb' = [eb EXCEPT ![e] = AfterSend(e, eb[e], b, k)]
    BY <1>6
  <2>2. k \in DOMAIN eb[e].dict /\ k \in {0, b}
    BY DEF Fits
  <2> DEFINE n == AfterSend(e, eb[e], b, k)
  <2>3. /\ n \in EbState(e) /\ n.pc \in {"receive", "send"}
        /\ n.hist = Extended(eb[e].hist, b, eb[e].dict[k]) /\ n.waiting = eb[e].waiting /\ n.turns = eb[e].turns
        /\ n.pc # "send" => n.dict = <<>> /\ n.todo = <<>>
        /\ \/ n.dict = Without(eb[e].dict, k) /\ n.todo = eb[e].todo
           \/ DOMAIN Without(eb[e].dict, k) = {} /\ Cut(e, eb[e].todo, n.dict, n.todo)
    BY <1>2, <1>4, <2>2, AfterSendFacts
  <2> HIDE DEF n
  <2>4. Once({}, n.waiting) /\ Elems(n.waiting) = Elems(eb[e].waiting) \ {b}
    <3>1. Once({}, eb[e].waiting)
      BY <1>5 DEF EbAsks, Once
    <3>2. b \notin Elems(eb[e].waiting)
      BY <1>3, WaitsElems
    <3> QED
      BY <2>3, <3>1, <3>2
  <2>5. Sent1(e, b, k, n)
    BY <2>3, <2>4 DEF Sent1
  <2>6. eb' = [eb EXCEPT ![e] = n]
    BY <2>1 DEF n
  <2> QED
    BY <1>2, <1>3, <2>1, <2>2, <2>5, <2>6, SendInv
<1>7. CASE eb' = [eb EXCEPT ![e].waiting = Append(eb[e].waiting, b)] /\ UNCHANGED batchTo
  <2> DEFINE n == [eb[e] EXCEPT !.waiting = Append(eb[e].waiting, b)]
             s == bdAsking[e] \ {b}
  <2>1. /\ n \in EbState(e) /\ n.hist = eb[e].hist /\ n.dict = eb[e].dict /\ n.todo = eb[e].todo
        /\ n.pc = "send" /\ n.waiting = Append(eb[e].waiting, b) /\ n.turns = eb[e].turns
    BY <1>2, <1>3, <1>4 DEF EbState
  <2>2. eb' = [eb EXCEPT ![e] = n]
    BY <1>7
  <2> HIDE DEF n
  <2>3. s \in SUBSET BdsOf(e)
    BY <1>1 DEF TypeInv
  <2>4. /\ Fcn(batchTo, Ebs)' /\ \A f \in Ebs : batchTo'[f] \in [BdsOf(f) -> Mails]
        /\ \A f \in Ebs \ {e} : batchTo'[f] = batchTo[f]
        /\ \A c \in BdsOf(e) : Items(batchTo'[e][c]) = Items(batchTo[e][c])
    BY <1>1, <1>7 DEF TypeInv, Fcn
  <2>5. eb'[e] = n
    BY <1>1, <2>2, EbUpdate
  <2>6. UNCHANGED asking
    BY <1>2, <2>1, <2>5 DEF Asked
  <2>7. /\ TypeInv' /\ bdAsking'[e] = s /\ \A f \in Ebs \ {e} : SameAt(f)
        /\ EbAsks(e)' /\ (\A c \in BdsOf(e) : BdAsks(e, c)') => AskInv'
    <3>1. bdAsking' = [bdAsking EXCEPT ![e] = s]
      BY <1>2
    <3> HIDE DEF s
    <3> QED
      BY <1>2, <2>1, <2>2, <2>3, <2>4, <2>6, <3>1, EbChange
  <2>8. EbAsks(e)'
    <3>1. \A j, k \in 1 .. Len(n.waiting) : n.waiting[j] = n.waiting[k] => j = k
      BY <1>3, <2>1 DEF Once
    <3> QED
      BY <1>2, <1>5, <2>1, <2>5, <2>6, <3>1 DEF EbAsks
  <2>9. ASSUME NEW c \in BdsOf(e)
        PROVE  BdAsks(e, c)'
    <3>1. Waits(e, c)' <=> c \in Elems(n.waiting)
      BY <2>5 DEF Waits, Elems
    <3>2. Waits(e, c)' <=> c = b \/ Waits(e, c)
      BY <1>3, <2>1, <3>1
    <3>3. batchTo'[e][c] = batchTo[e][c] /\ bd'[e][c] = bd[e][c] /\ eb'[e].pc = eb[e].pc
      BY <1>2, <1>7, <2>1, <2>5
    <3>4. c \in bdAsking'[e] <=> c \in bdAsking[e] /\ c # b
      BY <2>7
    <3>5. Ends(batchTo[e][c])' <=> Ends(batchTo[e][c])
      BY <1>7 DEF Ends
    <3> QED
      BY <1>3, <1>5, <3>2, <3>3, <3>4, <3>5 DEF BdAsks
  <2>10. FlowInv' /\ PlaceInv' /\ CoverInv'
    BY <1>2, <2>1, <2>4, <2>5, <2>7, EbQuiet
  <2> QED
    BY <2>7, <2>8, <2>9, <2>10 DEF Inv
<1> QED
  BY <1>6, <1>7 DEF EbSend

\* The bds of due get the transitions they miss.
StepsSent(e, due) ==
  /\ \A b \in due : /\ batchTo[e][b] = Nothing /\ batchTo'[e][b] = Data(Missing(eb[e].hist, b))
                    /\ eb'[e].hist.sent[b] = Len(eb[e].hist.bufs)
  /\ \A b \in BdsOf(e) \ due : batchTo'[e][b] = batchTo[e][b] /\ eb'[e].hist.sent[b] = eb[e].hist.sent[b]
  /\ eb'[e].hist.bufs = eb[e].hist.bufs /\ eb'[e].dict = eb[e].dict /\ eb'[e].todo = eb[e].todo
  /\ UNCHANGED <<run, smd0, chunkTo, seen>>

LEMMA StepsSentGiven ==
  ASSUME TypeInv, FlowInv, PlaceInv, NEW e \in Ebs, NEW due \in SUBSET BdsOf(e), StepsSent(e, due), NEW b \in BdsOf(e)
  PROVE  /\ BdFlow(e, b)'
         /\ L1(run.steps, Given(e, b)') = L1(run.steps, Given(e, b)) /\ Once(run.steps, Given(e, b)')
<1> DEFINE T == run.steps
           miss == Missing(eb[e].hist, b)
           bufs == eb[e].hist.bufs
<1>1. BdFlow(e, b) /\ EbPlaced(e)
  BY DEF FlowInv, PlaceInv
<1>2. Given(e, b) \in Seq(Events) /\ Once(T, Given(e, b))
  <2>1. Once(T, [c \in BdsOf(e) |-> Given(e, c)][b])
    BY <1>1 DEF EbPlaced, Placed
  <2> QED
    BY <2>1, BdTypes
<1>3. run' = run /\ eb'[e].hist.bufs = bufs
  BY DEF StepsSent
<1>4. CASE b \in due
  <2>1. miss \in Seq(Events) /\ Elems(miss) \subseteq T /\ Leads(T, Sent(e, b), miss, bufs)
    BY MissingFacts
  <2>2. Given(e, b) = seen[e][b] /\ batchTo'[e][b] = Data(miss) /\ seen' = seen
        /\ eb'[e].hist.sent[b] = Len(bufs)
    BY <1>4, GivenSeen DEF StepsSent
  <2>3. Given(e, b)' = Given(e, b) \o miss
    <3>1. Items(Data(miss)) = miss
      BY <2>1, MailFacts
    <3> QED
      BY <2>2, <3>1 DEF Given
  <2>4. bufs \in Seq(Events)
    BY EbTypes
  <2> HIDE DEF bufs
  <2>5. SubSeq(bufs, 1, Len(bufs)) = bufs /\ Len(bufs) <= Len(bufs)
    BY <2>4
  <2>6. Sent(e, b)' = bufs
    BY <1>3, <2>2, <2>5 DEF Sent
  <2> HIDE DEF T, miss
  <2>7. Leads(T, <<>>, Given(e, b), Sent(e, b))
    BY <1>1 DEF BdFlow, T
  <2>8. Leads(T, <<>>, Given(e, b) \o miss, bufs)
    BY <1>2, <2>1, <2>7, LeadsConcat
  <2>9. BdFlow(e, b)'
    BY <1>3, <2>2, <2>3, <2>5, <2>6, <2>8 DEF BdFlow, T
  <2>10. Elems(Given(e, b) \o miss) = Elems(Given(e, b)) \cup Elems(miss)
    BY <1>2, <2>1, ElemsConcat
  <2>11. Once(T, miss) /\ L1(T, miss) = {}
    BY <2>1, OnceSteps
  <2>12. Once(T, Given(e, b) \o miss)
    BY <1>2, <2>1, <2>11, OnceConcat
  <2>13. L1(T, Given(e, b) \o miss) = L1(T, Given(e, b))
    BY <2>1, <2>10 DEF L1
  <2> QED
    BY <2>3, <2>9, <2>12, <2>13 DEF T
<1>5. CASE b \notin due
  <2>1. batchTo'[e][b] = batchTo[e][b] /\ seen' = seen /\ eb'[e].hist.sent[b] = eb[e].hist.sent[b]
    BY <1>5 DEF StepsSent
  <2>2. Given(e, b)' = Given(e, b) /\ Sent(e, b)' = Sent(e, b)
    BY <1>3, <2>1 DEF Given, Sent
  <2> QED
    BY <1>1, <1>2, <1>3, <2>1, <2>2 DEF BdFlow
<1> QED
  BY <1>4, <1>5

LEMMA StepsSentFlow ==
  ASSUME TypeInv, FlowInv, PlaceInv, CoverInv, NEW e \in Ebs, NEW due \in SUBSET BdsOf(e), StepsSent(e, due),
         \A f \in Ebs \ {e} : SameAt(f)
  PROVE  FlowInv' /\ PlaceInv' /\ CoverInv'
<1> DEFINE T == run.steps
           given == [b \in BdsOf(e) |-> Given(e, b)]
<1>1. \A b \in BdsOf(e) : /\ BdFlow(e, b)'
                          /\ L1(T, Given(e, b)') = L1(T, Given(e, b)) /\ Once(T, Given(e, b)')
  BY StepsSentGiven
<1>2. UNCHANGED <<run, smd0>> /\ eb'[e].hist.bufs = eb[e].hist.bufs /\ eb'[e].dict = eb[e].dict
  BY DEF StepsSent
<1>3. Coming(e)' = Coming(e)
  BY DEF StepsSent, Coming
<1>4. EbFlow(e) /\ EbPlaced(e)
  BY DEF FlowInv, PlaceInv
<1>5. EbFlow(e)'
  <2>1. Got(e)' = Got(e)
    BY <1>2 DEF Got
  <2> QED
    BY <1>2, <1>3, <1>4, <2>1 DEF EbFlow
<1>6. PICK new : new = [b \in BdsOf(e) |-> Given(e, b)']
  OBVIOUS
<1>7. EbPlaced(e)'
  <2>1. Placed(T, e, eb[e].dict, Coming(e), given)
    BY <1>4 DEF EbPlaced
  <2>2. \A b \in BdsOf(e) : L1(T, new[b]) = L1(T, given[b]) /\ Once(T, new[b])
    BY <1>1, <1>6
  <2> HIDE DEF T, given
  <2>3. Placed(T, e, eb[e].dict, Coming(e), new)
    BY <2>1, <2>2, PlacedSame
  <2>4. given' = new
    BY <1>6 DEF given
  <2> QED
    BY <1>2, <1>3, <2>3, <2>4, SameRun DEF EbPlaced, given, T
<1>8. Owned(e)' = Owned(e)
  BY <1>1, <1>2 DEF Owned
<1>9. Held(e)' = Held(e)
  BY <1>2, <1>3, <1>8 DEF Held
<1> QED
  BY <1>1, <1>2, <1>5, <1>7, <1>9, OneEb

Histories(C) == [bufs : Seq(Events), sent : [C -> Nat]]

\* A history to which no transition is added.
LEMMA ExtendedNone ==
  ASSUME NEW C, NEW c \in C, NEW h, h \in Histories(C)
  PROVE  /\ Extended(h, c, <<>>) \in Histories(C)
         /\ Extended(h, c, <<>>).bufs = h.bufs /\ Extended(h, c, <<>>).sent[c] = Len(h.bufs)
         /\ \A d \in C \ {c} : Extended(h, c, <<>>).sent[d] = h.sent[d]
<1>1. StepsOf(<<>>) = <<>>
  BY SelectEmpty DEF StepsOf
<1>2. PICK u : u = h.bufs
  OBVIOUS
<1>3. PICK f : f = h.sent
  OBVIOUS
<1>4. u \in Seq(Events) /\ f \in [C -> Nat]
  BY <1>2, <1>3 DEF Histories
<1>5. u \o <<>> = u /\ Len(u) \in Nat
  BY <1>4, EmptyEnds
<1>6. Extended(h, c, <<>>) = [bufs |-> u, sent |-> [f EXCEPT ![c] = Len(u)]]
  BY <1>1, <1>2, <1>3, <1>5 DEF Extended
<1>7. [f EXCEPT ![c] = Len(u)] \in [C -> Nat] /\ [f EXCEPT ![c] = Len(u)][c] = Len(u)
      /\ \A d \in C \ {c} : [f EXCEPT ![c] = Len(u)][d] = f[d]
  BY <1>4, <1>5
<1> QED
  BY <1>2, <1>3, <1>4, <1>6, <1>7 DEF Histories

LEMMA EbLastInv ==
  ASSUME Inv, NEW e \in Ebs, NEW b \in BdsOf(e), EbLast(e, b)
  PROVE  Inv'
<1>1. TypeInv /\ AskInv /\ FlowInv /\ PlaceInv /\ CoverInv
  BY DEF Inv
<1>2. /\ eb[e].pc = "last" /\ eb[e].turns > 0 /\ b \in bdAsking[e]
      /\ bdAsking' = [bdAsking EXCEPT ![e] = bdAsking[e] \ {b}]
      /\ UNCHANGED <<run, smd0, asking, chunkTo, bd, seen, terminated>>
  BY DEF EbLast
<1>3. /\ batchTo[e][b] = Nothing /\ bd[e][b] = "wait" /\ ~Waits(e, b)
      /\ Append(eb[e].waiting, b) \in Seq(BdsOf(e)) /\ Once({}, Append(eb[e].waiting, b))
      /\ \A c \in BdsOf(e) : c \in Elems(Append(eb[e].waiting, b)) <=> c = b \/ Waits(e, c)
  BY <1>1, <1>2, KeepFacts
<1>4. eb[e] \in EbState(e)
  BY <1>1, EbTypes
<1>5. EbAsks(e) /\ \A c \in BdsOf(e) : BdAsks(e, c)
  BY <1>1 DEF AskInv
<1>6. eb[e].turns - 1 \in 0 .. NumBds
  BY <1>2, <1>4, CountsAssumption DEF EbState
<1> DEFINE s == bdAsking[e] \ {b}
<1>7. s \in SUBSET BdsOf(e) /\ bdAsking' = [bdAsking EXCEPT ![e] = s]
  BY <1>1, <1>2 DEF TypeInv
<1> HIDE DEF s
<1>8. CASE /\ Missing(eb[e].hist, b) # <<>> /\ SendTo(e, b, <<>>)
           /\ eb' = [eb EXCEPT ![e].hist = Extended(eb[e].hist, b, <<>>), ![e].turns = eb[e].turns - 1]
  <2> DEFINE n == [eb[e] EXCEPT !.hist = Extended(eb[e].hist, b, <<>>), !.turns = eb[e].turns - 1]
             m == Data(Missing(eb[e].hist, b))
  <2>1. eb[e].hist \in Histories(BdsOf(e))
    BY <1>4 DEF EbState, Histories
  <2>2. /\ Extended(eb[e].hist, b, <<>>) \in Histories(BdsOf(e))
        /\ Extended(eb[e].hist, b, <<>>).bufs = eb[e].hist.bufs
        /\ Extended(eb[e].hist, b, <<>>).sent[b] = Len(eb[e].hist.bufs)
        /\ \A d \in BdsOf(e) \ {b} : Extended(eb[e].hist, b, <<>>).sent[d] = eb[e].hist.sent[d]
    BY <2>1, ExtendedNone
  <2>3. /\ n \in EbState(e) /\ n.hist = Extended(eb[e].hist, b, <<>>) /\ n.dict = eb[e].dict
        /\ n.todo = eb[e].todo /\ n.pc = "last" /\ n.waiting = eb[e].waiting /\ n.turns = eb[e].turns - 1
    BY <1>2, <1>4, <1>6, <2>2 DEF EbState, Histories
  <2>4. eb' = [eb EXCEPT ![e] = n]
    BY <1>1, <1>8 DEF TypeInv, Fcn
  <2> HIDE DEF n
  <2>5. m \in Mails /\ ~Ends(m) /\ batchTo' = [batchTo EXCEPT ![e][b] = m]
    <3>1. Missing(eb[e].hist, b) \in Seq(Events)
      BY <1>1, MissingFacts
    <3>2. Missing(eb[e].hist, b) \o <<>> = Missing(eb[e].hist, b)
      BY <3>1, EmptyEnds
    <3> QED
      BY <1>8, <3>1, <3>2, MailFacts DEF SendTo
  <2> HIDE DEF m
  <2>6. /\ Fcn(batchTo, Ebs)' /\ \A f \in Ebs : batchTo'[f] \in [BdsOf(f) -> Mails]
        /\ batchTo'[e][b] = m /\ \A c \in BdsOf(e) \ {b} : batchTo'[e][c] = batchTo[e][c]
        /\ \A f \in Ebs \ {e} : batchTo'[f] = batchTo[f]
    BY <1>1, <2>5, BatchSet
  <2>7. /\ TypeInv' /\ eb'[e] = n /\ bdAsking'[e] = s /\ \A f \in Ebs \ {e} : SameAt(f)
        /\ EbAsks(e)' /\ (\A c \in BdsOf(e) : BdAsks(e, c)') => AskInv'
    BY <1>2, <1>7, <2>3, <2>4, <2>6, EbChange
  <2>8. StepsSent(e, {b})
    BY <1>2, <1>3, <2>2, <2>3, <2>6, <2>7 DEF StepsSent, m
  <2>9. FlowInv' /\ PlaceInv' /\ CoverInv'
    <3>1. {b} \in SUBSET BdsOf(e)
      OBVIOUS
    <3> QED
      BY <1>1, <2>7, <2>8, <3>1, StepsSentFlow
  <2>10. EbAsks(e)'
    BY <1>2, <1>5, <2>3, <2>7 DEF EbAsks
  <2>11. ASSUME NEW c \in BdsOf(e)
         PROVE  BdAsks(e, c)'
    <3>1. Waits(e, c)' <=> Waits(e, c)
      BY <2>3, <2>7 DEF Waits
    <3>2. bd'[e][c] = bd[e][c] /\ eb'[e].pc = eb[e].pc /\ (c \in bdAsking'[e] <=> c \in bdAsking[e] /\ c # b)
      BY <1>2, <2>3, <2>7 DEF s
    <3>3. Ends(batchTo[e][c])' <=> Ends(batchTo'[e][c])
      BY DEF Ends
    <3>4. CASE c = b
      BY <1>3, <1>5, <2>5, <2>6, <3>1, <3>2, <3>3, <3>4 DEF BdAsks
    <3>5. CASE c # b
      <4>1. batchTo'[e][c] = batchTo[e][c]
        BY <2>6, <3>5
      <4> QED
        BY <1>5, <3>1, <3>2, <3>3, <3>5, <4>1 DEF BdAsks
    <3> QED
      BY <3>4, <3>5
  <2> QED
    BY <2>7, <2>9, <2>10, <2>11 DEF Inv
<1>9. CASE /\ eb' = [eb EXCEPT ![e].waiting = Append(eb[e].waiting, b), ![e].turns = eb[e].turns - 1]
           /\ UNCHANGED batchTo
  <2> DEFINE n == [eb[e] EXCEPT !.waiting = Append(eb[e].waiting, b), !.turns = eb[e].turns - 1]
  <2>1. /\ n \in EbState(e) /\ n.hist = eb[e].hist /\ n.dict = eb[e].dict
        /\ n.todo = eb[e].todo /\ n.pc = "last" /\ n.waiting = Append(eb[e].waiting, b)
    BY <1>2, <1>3, <1>4, <1>6 DEF EbState
  <2>2. eb' = [eb EXCEPT ![e] = n]
    BY <1>1, <1>9 DEF TypeInv, Fcn
  <2> HIDE DEF n
  <2>3. /\ Fcn(batchTo, Ebs)' /\ \A f \in Ebs : batchTo'[f] \in [BdsOf(f) -> Mails]
        /\ \A f \in Ebs \ {e} : batchTo'[f] = batchTo[f]
        /\ \A c \in BdsOf(e) : Items(batchTo'[e][c]) = Items(batchTo[e][c])
    BY <1>1, <1>9 DEF TypeInv, Fcn
  <2>4. /\ TypeInv' /\ eb'[e] = n /\ bdAsking'[e] = s /\ \A f \in Ebs \ {e} : SameAt(f)
        /\ EbAsks(e)' /\ (\A c \in BdsOf(e) : BdAsks(e, c)') => AskInv'
    BY <1>2, <1>7, <2>1, <2>2, <2>3, EbChange
  <2>5. FlowInv' /\ PlaceInv' /\ CoverInv'
    BY <1>2, <2>1, <2>3, <2>4, EbQuiet
  <2>6. EbAsks(e)'
    <3>1. \A j, k \in 1 .. Len(n.waiting) : n.waiting[j] = n.waiting[k] => j = k
      BY <1>3, <2>1 DEF Once
    <3> QED
      BY <1>2, <1>5, <2>1, <2>4, <3>1 DEF EbAsks
  <2>7. ASSUME NEW c \in BdsOf(e)
        PROVE  BdAsks(e, c)'
    <3>1. Waits(e, c)' <=> c \in Elems(n.waiting)
      BY <2>4 DEF Waits, Elems
    <3>2. Waits(e, c)' <=> c = b \/ Waits(e, c)
      BY <1>3, <2>1, <3>1
    <3>3. batchTo'[e][c] = batchTo[e][c] /\ bd'[e][c] = bd[e][c] /\ eb'[e].pc = eb[e].pc
      BY <1>2, <1>9, <2>1, <2>4
    <3>4. c \in bdAsking'[e] <=> c \in bdAsking[e] /\ c # b
      BY <2>4 DEF s
    <3>5. Ends(batchTo[e][c])' <=> Ends(batchTo[e][c])
      BY <1>9 DEF Ends
    <3> QED
      BY <1>3, <1>5, <3>2, <3>3, <3>4, <3>5 DEF BdAsks
  <2> QED
    BY <2>4, <2>5, <2>6, <2>7 DEF Inv
<1> QED
  BY <1>8, <1>9 DEF EbLast

LEMMA EbLastWaitingInv ==
  ASSUME Inv, NEW e \in Ebs, EbLastWaiting(e)
  PROVE  Inv'
<1> DEFINE miss(b) == Missing(eb[e].hist, b)
           due == {b \in Range(eb[e].waiting) : miss(b) # <<>>}
           still == StillWaiting(e)
           mail == [b \in BdsOf(e) |-> IF b \in due THEN Data(miss(b)) ELSE batchTo[e][b]]
           sent == [b \in BdsOf(e) |-> IF b \in due THEN Len(eb[e].hist.bufs) ELSE eb[e].hist.sent[b]]
           n == [eb[e] EXCEPT !.hist.sent = sent, !.waiting = still, !.turns = Turns(e, still), !.pc = "last"]
<1>1. TypeInv /\ AskInv /\ FlowInv /\ PlaceInv /\ CoverInv
  BY DEF Inv
<1>2. /\ eb[e].pc = "waiting" /\ batchTo' = [batchTo EXCEPT ![e] = mail]
      /\ UNCHANGED <<run, smd0, asking, chunkTo, bdAsking, bd, seen, terminated>>
  BY DEF EbLastWaiting
<1>3. eb' = [eb EXCEPT ![e] = n]
  <2>1. eb' = [eb EXCEPT ![e].hist.sent = sent, ![e].waiting = still, ![e].turns = Turns(e, still), ![e].pc = "last"]
    BY DEF EbLastWaiting
  <2>2. Fcn(eb, Ebs)
    BY <1>1 DEF TypeInv
  <2> HIDE DEF sent, still
  <2> QED
    BY <2>1, <2>2 DEF Fcn
<1>4. eb[e] \in EbState(e) /\ eb[e].hist.bufs \in Seq(Events) /\ eb[e].waiting \in Seq(BdsOf(e))
  BY <1>1, EbTypes DEF EbState
<1>5. EbAsks(e) /\ \A c \in BdsOf(e) : BdAsks(e, c)
  BY <1>1 DEF AskInv
<1>6. Range(eb[e].waiting) = Elems(eb[e].waiting)
  <2> DEFINE w == eb[e].waiting
  <2>1. w \in Seq(BdsOf(e))
    BY <1>4
  <2> HIDE DEF w
  <2>2. Range(w) = Elems(w)
    BY <2>1 DEF Range, Elems
  <2> QED
    BY <2>2 DEF w
<1>7. \A b \in BdsOf(e) : b \in due <=> Waits(e, b) /\ miss(b) # <<>>
  BY <1>6, WaitsElems
<1>8. due \in SUBSET BdsOf(e)
  <2>1. Elems(eb[e].waiting) \subseteq BdsOf(e)
    BY <1>4 DEF Elems
  <2> QED
    BY <1>6, <2>1
<1>9. \A b \in BdsOf(e) : miss(b) \in Seq(Events)
  BY <1>1, MissingFacts
<1> HIDE DEF due
<1>10. /\ still \in Seq(BdsOf(e)) /\ Once({}, still)
       /\ \A b \in BdsOf(e) : b \in Elems(still) <=> Waits(e, b) /\ b \notin due
  <2> DEFINE U == {b \in BdsOf(e) : miss(b) = <<>>}
  <2>1. still = Select(eb[e].waiting, U)
    BY DEF StillWaiting
  <2>2. Once({}, eb[e].waiting)
    BY <1>5 DEF EbAsks, Once
  <2>3. \A b \in BdsOf(e) : b \in Elems(eb[e].waiting) /\ b \in U <=> Waits(e, b) /\ b \notin due
    BY <1>7, WaitsElems
  <2> HIDE DEF still, U
  <2>4. still \in Seq(BdsOf(e)) /\ Elems(still) = Elems(eb[e].waiting) \cap U /\ Once({}, still)
    BY <1>4, <2>1, <2>2, SelectOnce
  <2> QED
    BY <2>3, <2>4
<1> HIDE DEF still
<1>11. Turns(e, still) \in 0 .. NumBds
  BY <1>10, TurnsFacts
<1>12. sent \in [BdsOf(e) -> Nat]
  <2>1. eb[e].hist.sent \in [BdsOf(e) -> Nat]
    BY <1>4 DEF EbState
  <2>2. Len(eb[e].hist.bufs) \in Nat
    BY <1>4
  <2> QED
    BY <2>1, <2>2
<1>13. \A b \in BdsOf(e) : sent[b] = IF b \in due THEN Len(eb[e].hist.bufs) ELSE eb[e].hist.sent[b]
  OBVIOUS
<1> HIDE DEF sent
<1>14. /\ n \in EbState(e) /\ n.pc = "last" /\ n.hist.bufs = eb[e].hist.bufs /\ n.hist.sent = sent
       /\ n.waiting = still /\ n.dict = eb[e].dict /\ n.todo = eb[e].todo
  <2>1. eb[e].hist \in [bufs : Seq(Events), sent : [BdsOf(e) -> Nat]]
    BY <1>4 DEF EbState
  <2>2. n = [eb[e] EXCEPT !.hist = [eb[e].hist EXCEPT !.sent = sent],
                          !.waiting = still, !.turns = Turns(e, still), !.pc = "last"]
    BY <1>4 DEF EbState
  <2> DEFINE h == [eb[e].hist EXCEPT !.sent = sent]
  <2>3. h \in [bufs : Seq(Events), sent : [BdsOf(e) -> Nat]] /\ h.bufs = eb[e].hist.bufs /\ h.sent = sent
    BY <1>12, <2>1
  <2> HIDE DEF h
  <2>4. n = [eb[e] EXCEPT !.hist = h, !.waiting = still, !.turns = Turns(e, still), !.pc = "last"]
    BY <2>2 DEF h
  <2> HIDE DEF n
  <2> QED
    BY <1>4, <1>10, <1>11, <2>3, <2>4 DEF EbState
<1> HIDE DEF n
<1>15. \A b \in BdsOf(e) : /\ mail[b] = (IF b \in due THEN Data(miss(b)) ELSE batchTo[e][b])
                           /\ mail[b] \in Mails /\ (b \in due => ~Ends(mail[b]))
  <2>1. \A b \in BdsOf(e) : batchTo[e][b] \in Mails
    BY <1>1, BdTypes
  <2>2. \A b \in BdsOf(e) : Data(miss(b)) \in Mails /\ ~Ends(Data(miss(b)))
    BY <1>9, MailFacts
  <2> QED
    BY <2>1, <2>2
<1>16. mail \in [BdsOf(e) -> Mails]
  BY <1>15
<1> HIDE DEF mail, miss
<1>17. /\ Fcn(batchTo, Ebs)' /\ \A f \in Ebs : batchTo'[f] \in [BdsOf(f) -> Mails]
       /\ batchTo'[e] = mail /\ \A f \in Ebs \ {e} : batchTo'[f] = batchTo[f]
  <2>1. Fcn(batchTo, Ebs) /\ \A f \in Ebs : batchTo[f] \in [BdsOf(f) -> Mails]
    BY <1>1 DEF TypeInv
  <2>2. Set([batchTo EXCEPT ![e] = mail], batchTo, Ebs, e, mail)
    BY <2>1, FcnUpdate
  <2>3. Fcn(batchTo', Ebs) <=> Fcn(batchTo, Ebs)'
    BY DEF Fcn
  <2> QED
    BY <1>2, <1>16, <2>1, <2>2, <2>3 DEF Set
<1>18. bdAsking[e] \in SUBSET BdsOf(e) /\ bdAsking' = [bdAsking EXCEPT ![e] = bdAsking[e]]
  BY <1>1, <1>2 DEF TypeInv, Fcn
<1>19. /\ TypeInv' /\ eb'[e] = n /\ bdAsking'[e] = bdAsking[e] /\ \A f \in Ebs \ {e} : SameAt(f)
       /\ EbAsks(e)' /\ (\A c \in BdsOf(e) : BdAsks(e, c)') => AskInv'
  <2>1. PICK s : s = bdAsking[e]
    OBVIOUS
  <2> QED
    BY <1>2, <1>3, <1>14, <1>17, <1>18, <2>1, EbChange
<1>20. StepsSent(e, due)
  <2>1. \A b \in due : batchTo[e][b] = Nothing
    BY <1>2, <1>5, <1>7, <1>8 DEF BdAsks
  <2>2. \A b \in due : b \in BdsOf(e)
    BY <1>8
  <2> QED
    BY <1>2, <1>13, <1>14, <1>15, <1>17, <1>19, <2>1, <2>2 DEF StepsSent, miss
<1>21. FlowInv' /\ PlaceInv' /\ CoverInv'
  BY <1>1, <1>8, <1>19, <1>20, StepsSentFlow
<1>22. EbAsks(e)'
  <2>1. \A j, k \in 1 .. Len(n.waiting) : n.waiting[j] = n.waiting[k] => j = k
    BY <1>10, <1>14 DEF Once
  <2> QED
    BY <1>2, <1>5, <1>14, <1>19, <2>1 DEF EbAsks
<1>23. ASSUME NEW c \in BdsOf(e)
       PROVE  BdAsks(e, c)'
  <2>1. Waits(e, c)' <=> c \in Elems(n.waiting)
    BY <1>19 DEF Waits, Elems
  <2>2. Waits(e, c)' <=> Waits(e, c) /\ c \notin due
    BY <1>10, <1>14, <2>1
  <2>3. bd'[e][c] = bd[e][c] /\ eb'[e].pc = "last" /\ bdAsking'[e] = bdAsking[e] /\ batchTo'[e][c] = mail[c]
    BY <1>2, <1>14, <1>17, <1>19
  <2>4. Ends(batchTo[e][c])' <=> Ends(mail[c])
    BY <2>3 DEF Ends
  <2>5. bd[e][c] \in {"ask", "wait", "done"}
    BY <1>1 DEF TypeInv
  <2>6. CASE c \in due
    <3>1. Waits(e, c) /\ c \notin bdAsking[e] /\ bd[e][c] = "wait"
      BY <1>2, <1>5, <1>7, <2>5, <2>6 DEF BdAsks
    <3> QED
      BY <1>15, <2>2, <2>3, <2>4, <2>6, <3>1 DEF BdAsks
  <2>7. CASE c \notin due
    <3>1. mail[c] = batchTo[e][c]
      BY <1>15, <2>7
    <3> QED
      BY <1>2, <1>5, <2>2, <2>3, <2>4, <3>1 DEF BdAsks
  <2> QED
    BY <2>6, <2>7
<1> QED
  BY <1>19, <1>21, <1>22, <1>23 DEF Inv

LEMMA EbKillWaitingInv ==
  ASSUME Inv, NEW e \in Ebs, EbKillWaiting(e)
  PROVE  Inv'
<1> DEFINE w == eb[e].waiting
           mail == [b \in BdsOf(e) |-> IF b \in Range(w) THEN Null ELSE batchTo[e][b]]
           t == Turns(e, w)
           p == IF t = 0 THEN "done" ELSE "kill"
           n == [eb[e] EXCEPT !.turns = t, !.pc = p]
<1>1. TypeInv /\ AskInv
  BY DEF Inv
<1>2. /\ eb[e].pc = "last" /\ batchTo' = [batchTo EXCEPT ![e] = mail]
      /\ UNCHANGED <<run, smd0, asking, chunkTo, bdAsking, bd, seen, terminated>>
  BY DEF EbKillWaiting
<1>3. eb' = [eb EXCEPT ![e] = n]
  <2>1. eb' = [eb EXCEPT ![e].turns = t, ![e].pc = p]
    BY DEF EbKillWaiting
  <2>2. Fcn(eb, Ebs)
    BY <1>1 DEF TypeInv
  <2> HIDE DEF t, p
  <2> QED
    BY <2>1, <2>2 DEF Fcn
<1>4. eb[e] \in EbState(e)
  BY <1>1, EbTypes
<1>5. EbAsks(e) /\ \A c \in BdsOf(e) : BdAsks(e, c)
  BY <1>1 DEF AskInv
<1>6. w \in Seq(BdsOf(e)) /\ Once({}, w)
  BY <1>4, <1>5 DEF EbState, EbAsks, Once
<1>7. \A b \in BdsOf(e) : b \in Range(w) <=> Waits(e, b)
  <2>1. \A b \in BdsOf(e) : Waits(e, b) <=> b \in Elems(w)
    BY WaitsElems
  <2> HIDE DEF w
  <2>2. Range(w) = Elems(w)
    BY <1>6 DEF Range, Elems
  <2> QED
    BY <2>1, <2>2
<1>8. t \in 0 .. NumBds
  <2> HIDE DEF w
  <2> QED
    BY <1>6, TurnsFacts
<1>9. \A b \in BdsOf(e) : mail[b] = IF Waits(e, b) THEN Null ELSE batchTo[e][b]
  BY <1>7
<1> HIDE DEF t, mail, w
<1>10. p \in {"kill", "done"} /\ (p = "kill" => t > 0)
  BY <1>8
<1> HIDE DEF p
<1>11. /\ n \in EbState(e) /\ n.pc = p /\ n.hist = eb[e].hist /\ n.waiting = eb[e].waiting
       /\ n.dict = eb[e].dict /\ n.todo = eb[e].todo /\ n.turns = t
  BY <1>4, <1>8, <1>10 DEF EbState
<1> HIDE DEF n
<1>12. mail \in [BdsOf(e) -> Mails]
  <2>1. \A b \in BdsOf(e) : mail[b] \in Mails
    BY <1>1, <1>9, BdTypes, MailFacts
  <2> QED
    BY <2>1 DEF mail
<1>13. /\ Fcn(batchTo, Ebs)' /\ \A f \in Ebs : batchTo'[f] \in [BdsOf(f) -> Mails]
       /\ batchTo'[e] = mail /\ \A f \in Ebs \ {e} : batchTo'[f] = batchTo[f]
  <2>1. Fcn(batchTo, Ebs) /\ \A f \in Ebs : batchTo[f] \in [BdsOf(f) -> Mails]
    BY <1>1 DEF TypeInv
  <2>2. Set([batchTo EXCEPT ![e] = mail], batchTo, Ebs, e, mail)
    BY <2>1, FcnUpdate
  <2>3. Fcn(batchTo', Ebs) <=> Fcn(batchTo, Ebs)'
    BY DEF Fcn
  <2> QED
    BY <1>2, <1>12, <2>1, <2>2, <2>3 DEF Set
<1>14. bdAsking[e] \in SUBSET BdsOf(e) /\ bdAsking' = [bdAsking EXCEPT ![e] = bdAsking[e]]
  BY <1>1, <1>2 DEF TypeInv, Fcn
<1>15. /\ TypeInv' /\ eb'[e] = n /\ bdAsking'[e] = bdAsking[e] /\ \A f \in Ebs \ {e} : SameAt(f)
       /\ EbAsks(e)' /\ (\A c \in BdsOf(e) : BdAsks(e, c)') => AskInv'
  <2>1. PICK s : s = bdAsking[e]
    OBVIOUS
  <2> QED
    BY <1>2, <1>3, <1>11, <1>13, <1>14, <2>1, EbChange
<1>16. \A b \in BdsOf(e) : Waits(e, b) => batchTo[e][b] = Nothing /\ b \notin bdAsking[e] /\ bd[e][b] = "wait"
  <2>1. \A b \in BdsOf(e) : bd[e][b] \in {"ask", "wait", "done"}
    BY <1>1 DEF TypeInv
  <2> QED
    BY <1>2, <1>5, <2>1 DEF BdAsks
<1>17. \A b \in BdsOf(e) : Items(batchTo'[e][b]) = Items(batchTo[e][b])
  BY <1>9, <1>13, <1>16, MailFacts
<1>18. FlowInv' /\ PlaceInv' /\ CoverInv'
  BY <1>2, <1>11, <1>15, <1>17, EbQuiet
<1>19. EbAsks(e)'
  BY <1>2, <1>5, <1>10, <1>11, <1>15 DEF EbAsks
<1>20. ASSUME NEW c \in BdsOf(e)
       PROVE  BdAsks(e, c)'
  <2>1. Waits(e, c)' <=> Waits(e, c)
    BY <1>11, <1>15 DEF Waits
  <2>2. bd'[e][c] = bd[e][c] /\ eb'[e].pc = p /\ bdAsking'[e] = bdAsking[e] /\ batchTo'[e][c] = mail[c]
    BY <1>2, <1>11, <1>13, <1>15
  <2>3. Ends(batchTo[e][c])' <=> Ends(mail[c])
    BY <2>2 DEF Ends
  <2>4. CASE Waits(e, c)
    BY <1>9, <1>10, <1>16, <2>1, <2>2, <2>3, <2>4, MailFacts DEF BdAsks
  <2>5. CASE ~Waits(e, c)
    <3>1. mail[c] = batchTo[e][c]
      BY <1>9, <2>5
    <3> QED
      BY <1>5, <1>10, <2>1, <2>2, <2>3, <2>5, <3>1 DEF BdAsks
  <2> QED
    BY <2>4, <2>5
<1> QED
  BY <1>15, <1>18, <1>19, <1>20 DEF Inv

LEMMA EbKillInv ==
  ASSUME Inv, NEW e \in Ebs, NEW b \in BdsOf(e), EbKill(e, b)
  PROVE  Inv'
<1> DEFINE t == eb[e].turns - 1
           p == IF eb[e].turns = 1 THEN "done" ELSE "kill"
           n == [eb[e] EXCEPT !.turns = t, !.pc = p]
           s == bdAsking[e] \ {b}
<1>1. TypeInv /\ AskInv
  BY DEF Inv
<1>2. /\ eb[e].pc = "kill" /\ b \in bdAsking[e] /\ batchTo' = [batchTo EXCEPT ![e][b] = Null]
      /\ UNCHANGED <<run, smd0, asking, chunkTo, bd, seen, terminated>>
  BY DEF EbKill
<1>3. eb' = [eb EXCEPT ![e] = n]
  <2>1. eb' = [eb EXCEPT ![e].turns = t, ![e].pc = p]
    BY DEF EbKill
  <2>2. Fcn(eb, Ebs)
    BY <1>1 DEF TypeInv
  <2> HIDE DEF t, p
  <2> QED
    BY <2>1, <2>2 DEF Fcn
<1>4. eb[e] \in EbState(e)
  BY <1>1, EbTypes
<1>5. EbAsks(e) /\ \A c \in BdsOf(e) : BdAsks(e, c)
  BY <1>1 DEF AskInv
<1>6. batchTo[e][b] = Nothing /\ bd[e][b] = "wait" /\ ~Waits(e, b)
  BY <1>1, <1>2, KeepFacts
<1>7. t \in 0 .. NumBds /\ p \in {"kill", "done"} /\ (p = "kill" => t > 0)
  BY <1>2, <1>4, <1>5, CountsAssumption, SMTT(30) DEF EbState, EbAsks
<1> HIDE DEF t, p
<1>8. /\ n \in EbState(e) /\ n.pc = p /\ n.hist = eb[e].hist /\ n.waiting = eb[e].waiting
      /\ n.dict = eb[e].dict /\ n.todo = eb[e].todo /\ n.turns = t
  BY <1>4, <1>7 DEF EbState
<1> HIDE DEF n
<1>9. s \in SUBSET BdsOf(e) /\ bdAsking' = [bdAsking EXCEPT ![e] = s]
  BY <1>1 DEF TypeInv, EbKill
<1>10. /\ Fcn(batchTo, Ebs)' /\ \A f \in Ebs : batchTo'[f] \in [BdsOf(f) -> Mails]
       /\ batchTo'[e][b] = Null /\ \A c \in BdsOf(e) \ {b} : batchTo'[e][c] = batchTo[e][c]
       /\ \A f \in Ebs \ {e} : batchTo'[f] = batchTo[f]
  BY <1>1, <1>2, MailFacts, BatchSet
<1>11. /\ TypeInv' /\ eb'[e] = n /\ bdAsking'[e] = s /\ \A f \in Ebs \ {e} : SameAt(f)
       /\ EbAsks(e)' /\ (\A c \in BdsOf(e) : BdAsks(e, c)') => AskInv'
  <2> HIDE DEF s
  <2> QED
    BY <1>2, <1>3, <1>8, <1>9, <1>10, EbChange
<1>12. \A c \in BdsOf(e) : Items(batchTo'[e][c]) = Items(batchTo[e][c])
  BY <1>6, <1>10, MailFacts
<1>13. FlowInv' /\ PlaceInv' /\ CoverInv'
  BY <1>2, <1>8, <1>11, <1>12, EbQuiet
<1>14. EbAsks(e)'
  BY <1>2, <1>5, <1>7, <1>8, <1>11 DEF EbAsks
<1>15. ASSUME NEW c \in BdsOf(e)
       PROVE  BdAsks(e, c)'
  <2>1. Waits(e, c)' <=> Waits(e, c)
    BY <1>8, <1>11 DEF Waits
  <2>2. bd'[e][c] = bd[e][c] /\ eb'[e].pc = p /\ (c \in bdAsking'[e] <=> c \in bdAsking[e] /\ c # b)
    BY <1>2, <1>8, <1>11
  <2>3. Ends(batchTo[e][c])' <=> Ends(batchTo'[e][c])
    BY DEF Ends
  <2>4. CASE c = b
    BY <1>6, <1>7, <1>10, <2>1, <2>2, <2>3, <2>4, MailFacts DEF BdAsks
  <2>5. CASE c # b
    <3>1. batchTo'[e][c] = batchTo[e][c]
      BY <1>10, <2>5
    <3> QED
      BY <1>5, <1>7, <2>1, <2>2, <2>3, <2>5, <3>1 DEF BdAsks
  <2> QED
    BY <2>4, <2>5
<1> QED
  BY <1>11, <1>13, <1>14, <1>15 DEF Inv

LEMMA EbReceiveInv ==
  ASSUME Inv, NEW e \in Ebs, EbReceive(e)
  PROVE  Inv'
<1>1. TypeInv /\ AskInv /\ FlowInv /\ PlaceInv /\ CoverInv
  BY DEF Inv
<1> DEFINE items == Items(chunkTo[e])
           n == IF Ends(chunkTo[e]) THEN [eb[e] EXCEPT !.pc = "waiting"] ELSE NextBatch(e, eb[e], items)
<1>2. /\ eb[e].pc = "receive" /\ chunkTo[e] # Nothing /\ chunkTo' = [chunkTo EXCEPT ![e] = Nothing]
      /\ UNCHANGED <<run, smd0, bdAsking, batchTo, bd, seen, terminated>> /\ Asked(e)
  BY DEF EbReceive
<1>3. eb[e] \in EbState(e) /\ items \in Seq(Events) /\ run.batch \in Nat \ {0} /\ run.destined \in BOOLEAN
      /\ chunkTo[e] \in Mails
  BY <1>1, EbTypes
<1>4. eb' = [eb EXCEPT ![e] = n]
  <2>1. chunkTo[e][1].items = items /\ (chunkTo[e][1].end <=> Ends(chunkTo[e]))
    BY <1>2, <1>3, MailFacts
  <2> QED
    BY <2>1 DEF EbReceive
<1>5. EbAsks(e) /\ \A c \in BdsOf(e) : BdAsks(e, c)
  BY <1>1 DEF AskInv
<1>6. /\ n \in EbState(e) /\ n.pc \in {"waiting", "receive", "send"}
      /\ n.waiting = eb[e].waiting /\ n.turns = eb[e].turns
      /\ n.pc # "send" => n.dict = <<>> /\ n.todo = <<>>
  <2>1. CASE Ends(chunkTo[e])
    <3>1. n = [eb[e] EXCEPT !.pc = "waiting"]
      BY <2>1
    <3> HIDE DEF n
    <3> QED
      BY <1>2, <1>3, <1>5, <3>1 DEF EbState, EbAsks
  <2>2. CASE ~Ends(chunkTo[e])
    <3> DEFINE y == NextBatch(e, eb[e], items)
    <3>1. n = y
      BY <2>2
    <3>2. /\ y \in EbState(e) /\ y.pc \in {"receive", "send"}
          /\ y.hist = eb[e].hist /\ y.waiting = eb[e].waiting /\ y.turns = eb[e].turns
          /\ y.pc # "send" => y.dict = <<>> /\ y.todo = <<>>
      BY <1>3, NextCut
    <3> HIDE DEF n, y
    <3> QED
      BY <3>1, <3>2
  <2> QED
    BY <2>1, <2>2
<1> HIDE DEF n
<1>7. eb'[e] = n /\ \A f \in Ebs \ {e} : eb'[f] = eb[f]
  BY <1>1, <1>4, EbUpdate
<1>8. Fcn(eb, Ebs)' /\ \A f \in Ebs : eb'[f] \in EbState(f)
  BY <1>1, <1>4, <1>6, EbUpdate
<1>9. asking' = IF n.pc = "receive" THEN asking \cup {e} ELSE asking
  BY <1>2, <1>7 DEF Asked
<1>10. chunkTo' \in [Ebs -> Mails] /\ chunkTo'[e] = Nothing /\ \A f \in Ebs \ {e} : chunkTo'[f] = chunkTo[f]
  BY <1>1, <1>2, MailFacts DEF TypeInv
<1>11. TypeInv'
  <2>1. asking' \subseteq Ebs
    BY <1>1, <1>9 DEF TypeInv
  <2>2. Fcn(bd, Ebs)' /\ Fcn(seen, Ebs)' /\ Fcn(bdAsking, Ebs)' /\ Fcn(batchTo, Ebs)'
    BY <1>1, <1>2 DEF TypeInv, Fcn
  <2> QED
    BY <1>1, <1>2, <1>8, <1>10, <2>1, <2>2 DEF TypeInv
<1>12. EbAsks(e)'
  BY <1>2, <1>5, <1>6, <1>7, <1>9, <1>10 DEF EbAsks
<1>13. ASSUME NEW c \in BdsOf(e)
       PROVE  BdAsks(e, c)'
  <2>1. Waits(e, c)' <=> Waits(e, c)
    BY <1>6, <1>7 DEF Waits
  <2>2. Ends(batchTo[e][c])' <=> Ends(batchTo[e][c])
    BY <1>2 DEF Ends
  <2> QED
    BY <1>2, <1>5, <1>6, <1>7, <2>1, <2>2 DEF BdAsks
<1>14. AskInv'
  <2>1. \A f \in Ebs \ {e} : f \in asking' <=> f \in asking
    BY <1>9
  <2> QED
    BY <1>1, <1>2, <1>7, <1>10, <1>12, <1>13, <2>1, AskStep
<1>15. FlowInv' /\ PlaceInv' /\ CoverInv'
  BY <1>1, EbReceiveFlow
<1> QED
  BY <1>11, <1>14, <1>15 DEF Inv

-----------------------------------------------------------------------------
(***************************************************************************)
(* The big data ranks                                                      *)
(***************************************************************************)

LEMMA BdAskInv ==
  ASSUME Inv, NEW e \in Ebs, NEW b \in BdsOf(e), BdAsk(e, b)
  PROVE  Inv'
<1>1. TypeInv /\ AskInv /\ FlowInv /\ PlaceInv /\ CoverInv
  BY DEF Inv
<1> DEFINE s == bdAsking[e] \cup {b}
<1>2. /\ bd[e][b] = "ask" /\ bdAsking' = [bdAsking EXCEPT ![e] = s] /\ bd' = [bd EXCEPT ![e][b] = "wait"]
      /\ UNCHANGED <<run, smd0, asking, chunkTo, eb, batchTo, seen, terminated>>
  BY DEF BdAsk
<1>3. s \in SUBSET BdsOf(e)
  BY <1>1 DEF TypeInv
<1> HIDE DEF s
<1>4. /\ Fcn(bdAsking, Ebs)' /\ \A f \in Ebs : bdAsking'[f] \subseteq BdsOf(f)
      /\ bdAsking'[e] = s /\ \A f \in Ebs \ {e} : bdAsking'[f] = bdAsking[f]
  BY <1>1, <1>2, <1>3, AskingSet
<1>5. /\ Fcn(bd, Ebs)' /\ \A f \in Ebs : bd'[f] \in [BdsOf(f) -> {"ask", "wait", "done"}]
      /\ bd'[e][b] = "wait" /\ \A c \in BdsOf(e) \ {b} : bd'[e][c] = bd[e][c]
      /\ \A f \in Ebs \ {e} : bd'[f] = bd[f]
  BY <1>1, <1>2, BdSet
<1>6. TypeInv'
  <2>1. Fcn(eb, Ebs)' /\ Fcn(seen, Ebs)' /\ Fcn(batchTo, Ebs)'
    BY <1>1, <1>2 DEF TypeInv, Fcn
  <2> QED
    BY <1>1, <1>2, <1>4, <1>5, <2>1 DEF TypeInv
<1>7. \A f \in Ebs : SameAt(f)
  BY <1>2, SameElsewhere
<1>8. FlowInv' /\ PlaceInv' /\ CoverInv'
  BY <1>1, <1>2, <1>7, QuietStep
<1>9. EbAsks(e) /\ \A c \in BdsOf(e) : BdAsks(e, c)
  BY <1>1 DEF AskInv
<1>10. EbAsks(e)'
  BY <1>2, <1>9 DEF EbAsks
<1>11. ASSUME NEW c \in BdsOf(e)
       PROVE  BdAsks(e, c)'
  <2>1. (Waits(e, c)' <=> Waits(e, c)) /\ (Ends(batchTo[e][c])' <=> Ends(batchTo[e][c]))
    BY <1>2 DEF Waits, Ends
  <2>2. CASE c = b
    BY <1>2, <1>5, <1>9, <2>1, <2>2 DEF BdAsks
  <2>3. CASE c # b
    <3>1. bd'[e][c] = bd[e][c] /\ (c \in bdAsking'[e] <=> c \in bdAsking[e])
      BY <1>4, <1>5, <2>3 DEF s
    <3> QED
      BY <1>2, <1>9, <2>1, <3>1 DEF BdAsks
  <2> QED
    BY <2>2, <2>3
<1>12. AskInv'
  BY <1>1, <1>2, <1>4, <1>5, <1>10, <1>11, AskStep
<1> QED
  BY <1>6, <1>8, <1>12 DEF Inv

LEMMA BdReceiveInv ==
  ASSUME Inv, NEW e \in Ebs, NEW b \in BdsOf(e), BdReceive(e, b)
  PROVE  Inv'
<1>1. TypeInv /\ AskInv /\ FlowInv /\ PlaceInv /\ CoverInv
  BY DEF Inv
<1> DEFINE items == Items(batchTo[e][b])
           s == seen[e][b] \o items
           v == IF Ends(batchTo[e][b]) THEN "done" ELSE "ask"
<1>2. /\ bd[e][b] = "wait" /\ batchTo[e][b] # Nothing /\ batchTo' = [batchTo EXCEPT ![e][b] = Nothing]
      /\ UNCHANGED <<run, smd0, asking, chunkTo, eb, bdAsking, terminated>>
  BY DEF BdReceive
<1>3. batchTo[e][b] \in Mails /\ items \in Seq(Events) /\ seen[e][b] \in Seq(Events)
  BY <1>1, BdTypes
<1>4. batchTo[e][b][1].items = items /\ (batchTo[e][b][1].end <=> Ends(batchTo[e][b]))
  BY <1>2, <1>3, MailFacts
<1>5. seen' = [seen EXCEPT ![e][b] = s] /\ bd' = [bd EXCEPT ![e][b] = v]
  BY <1>4 DEF BdReceive
<1>6. s \in Seq(Events)
  BY <1>3, ConcatFacts
<1>7. v \in {"ask", "wait", "done"}
  OBVIOUS
<1>8. s = Given(e, b)
  BY DEF Given
<1> HIDE DEF items, s, v
<1>9. /\ Fcn(batchTo, Ebs)' /\ \A f \in Ebs : batchTo'[f] \in [BdsOf(f) -> Mails]
      /\ batchTo'[e][b] = Nothing /\ \A c \in BdsOf(e) \ {b} : batchTo'[e][c] = batchTo[e][c]
      /\ \A f \in Ebs \ {e} : batchTo'[f] = batchTo[f]
  BY <1>1, <1>2, MailFacts, BatchSet
<1>10. /\ Fcn(bd, Ebs)' /\ \A f \in Ebs : bd'[f] \in [BdsOf(f) -> {"ask", "wait", "done"}]
       /\ bd'[e][b] = v /\ \A c \in BdsOf(e) \ {b} : bd'[e][c] = bd[e][c]
       /\ \A f \in Ebs \ {e} : bd'[f] = bd[f]
  BY <1>1, <1>5, <1>7, BdSet
<1>11. /\ Fcn(seen, Ebs)' /\ \A f \in Ebs : seen'[f] \in [BdsOf(f) -> Seq(Events)]
       /\ seen'[e][b] = s /\ \A c \in BdsOf(e) \ {b} : seen'[e][c] = seen[e][c]
       /\ \A f \in Ebs \ {e} : seen'[f] = seen[f]
  BY <1>1, <1>5, <1>6, SeenSet
<1>12. TypeInv'
  <2>1. Fcn(eb, Ebs)' /\ Fcn(bdAsking, Ebs)'
    BY <1>1, <1>2 DEF TypeInv, Fcn
  <2> QED
    BY <1>1, <1>2, <1>9, <1>10, <1>11, <2>1 DEF TypeInv
<1>13. SameAt(e)
  <2>1. Given(e, b)' = Given(e, b)
    <3>1. s \o <<>> = s
      BY <1>6, EmptyEnds
    <3> QED
      BY <1>8, <1>9, <1>11, <3>1, MailFacts DEF Given
  <2>2. \A c \in BdsOf(e) \ {b} : Given(e, c)' = Given(e, c)
    BY <1>9, <1>11 DEF Given
  <2>3. Coming(e)' = Coming(e)
    BY <1>2 DEF Coming
  <2> QED
    BY <1>2, <2>1, <2>2, <2>3 DEF SameAt
<1>14. \A f \in Ebs : SameAt(f)
  <2>1. \A f \in Ebs \ {e} : SameAt(f)
    BY <1>2, <1>9, <1>11, SameElsewhere
  <2> QED
    BY <1>13, <2>1
<1>15. FlowInv' /\ PlaceInv' /\ CoverInv'
  BY <1>1, <1>2, <1>14, QuietStep
<1>16. EbAsks(e) /\ \A c \in BdsOf(e) : BdAsks(e, c)
  BY <1>1 DEF AskInv
<1>17. EbAsks(e)'
  BY <1>2, <1>16 DEF EbAsks
<1>18. ASSUME NEW c \in BdsOf(e)
       PROVE  BdAsks(e, c)'
  <2>1. Waits(e, c)' <=> Waits(e, c)
    BY <1>2 DEF Waits
  <2>2. Ends(batchTo[e][c])' <=> Ends(batchTo'[e][c])
    BY DEF Ends
  <2>3. CASE c = b
    <3>1. BdAsks(e, b)
      BY <1>16
    <3>2. CASE Ends(batchTo[e][b])
      <4>1. v = "done" /\ eb[e].pc \in {"kill", "done"} /\ b \notin bdAsking[e]
        BY <1>2, <3>1, <3>2 DEF BdAsks, v
      <4> QED
        BY <1>2, <1>9, <1>10, <2>1, <2>2, <2>3, <3>1, <4>1, MailFacts DEF BdAsks
    <3>3. CASE ~Ends(batchTo[e][b])
      <4>1. v = "ask" /\ b \notin bdAsking[e] /\ ~Waits(e, b)
        BY <1>2, <3>1, <3>3 DEF BdAsks, v
      <4> QED
        BY <1>2, <1>9, <1>10, <2>1, <2>2, <2>3, <4>1, MailFacts DEF BdAsks
    <3> QED
      BY <3>2, <3>3
  <2>4. CASE c # b
    <3>1. bd'[e][c] = bd[e][c] /\ batchTo'[e][c] = batchTo[e][c]
      BY <1>9, <1>10, <2>4
    <3> QED
      BY <1>2, <1>16, <2>1, <2>2, <3>1 DEF BdAsks
  <2> QED
    BY <2>3, <2>4
<1>19. AskInv'
  BY <1>1, <1>2, <1>9, <1>10, <1>17, <1>18, AskStep
<1> QED
  BY <1>12, <1>15, <1>19 DEF Inv

LEMMA TerminateInv ==
  ASSUME Inv, Terminate
  PROVE  Inv'
<1>1. TypeInv /\ AskInv /\ FlowInv /\ PlaceInv /\ CoverInv
  BY DEF Inv
<1>2. UNCHANGED <<run, smd0, asking, chunkTo, eb, bdAsking, batchTo, bd, seen>> /\ terminated' = TRUE
  BY DEF Terminate
<1>3. \A f \in Ebs : SameAt(f)
  BY <1>2, SameElsewhere
<1>4. FlowInv' /\ PlaceInv' /\ CoverInv'
  BY <1>1, <1>2, <1>3, QuietStep
<1>5. \A f \in Ebs : EbAsks(f)' /\ \A b \in BdsOf(f) : BdAsks(f, b)'
  BY <1>1, <1>2, AskElsewhere
<1>6. TypeInv'
  BY <1>1, <1>2 DEF TypeInv, Fcn
<1> QED
  BY <1>4, <1>5, <1>6 DEF Inv, AskInv

-----------------------------------------------------------------------------
(***************************************************************************)
(* smd0                                                                    *)
(***************************************************************************)

\* e gets the transitions it misses, and the next n events.
SmdSent(e, n) ==
  /\ e \in asking /\ asking' = asking \ {e}
  /\ smd0.read + n \in 0 .. NumEvents /\ smd0'.read = smd0.read + n
  /\ smd0' \in [pc : {"chunk", "steps", "kill", "done"}, read : 0 .. NumEvents,
                turns : 0 .. NumEbs - 1, hist : Histories(Ebs)]
  /\ smd0'.hist = Extended(smd0.hist, e, Interval(smd0.read + 1, smd0.read + n))
  /\ chunkTo' = [chunkTo EXCEPT ![e] =
                   Data(Missing(smd0.hist, e) \o Interval(smd0.read + 1, smd0.read + n))]
  /\ UNCHANGED <<run, eb, bdAsking, batchTo, bd, seen, terminated>>

LEMMA SmdTypes ==
  ASSUME TypeInv, FlowInv
  PROVE  /\ smd0.read \in 0 .. NumEvents /\ NumEvents \in Nat /\ NumEbs \in Nat \ {0}
         /\ smd0.hist.bufs \in Seq(Events) /\ smd0.hist \in Histories(Ebs)
         /\ smd0.hist.bufs = Upto(run.steps, smd0.read)
         /\ \A e \in Ebs : smd0.hist.sent[e] \in Nat /\ smd0.hist.sent[e] <= Len(smd0.hist.bufs)
<1>1. /\ smd0.read \in 0 .. NumEvents /\ smd0.hist \in Histories(Ebs)
      /\ smd0.hist.bufs \in Seq(Events) /\ smd0.hist.sent \in [Ebs -> Nat]
  BY DEF TypeInv, Histories
<1>2. \A e \in Ebs : smd0.hist.sent[e] \in Nat
  BY <1>1
<1>3. \A e \in Ebs : smd0.hist.sent[e] <= Len(smd0.hist.bufs)
  BY DEF FlowInv, EbFlow
<1>4. smd0.hist.bufs = Upto(run.steps, smd0.read)
  BY DEF FlowInv
<1>5. NumEvents \in Nat /\ NumEbs \in Nat \ {0}
  BY CountsAssumption
<1> QED
  BY <1>1, <1>2, <1>3, <1>4, <1>5

\* What the chunk is.
LEMMA ChunkFacts ==
  ASSUME TypeInv, FlowInv, NEW n \in Nat, smd0.read + n \in 0 .. NumEvents
  PROVE  LET chunk == Interval(smd0.read + 1, smd0.read + n)
         IN /\ chunk \in Seq(Events) /\ Elems(chunk) = smd0.read + 1 .. smd0.read + n
            /\ \A T : Once(T, chunk)
            /\ Leads(run.steps, smd0.hist.bufs, chunk, Upto(run.steps, smd0.read + n))
            /\ smd0.hist.bufs \o Select(chunk, run.steps) = Upto(run.steps, smd0.read + n)
<1>1. PICK r : r = smd0.read
  OBVIOUS
<1>2. r \in Nat /\ r + n \in 0 .. NumEvents /\ smd0.hist.bufs = Upto(run.steps, r)
      /\ smd0.hist.bufs \in Seq(Events)
  BY <1>1, SmdTypes
<1>3. PICK a : a = r + 1
  OBVIOUS
<1>4. PICK b : b = r + n
  OBVIOUS
<1>5. a \in Nat \ {0} /\ b \in Nat /\ a <= b + 1 /\ r <= b /\ b \in 0 .. NumEvents
  BY <1>2, <1>3, <1>4
<1>6. Interval(a, b) \in Seq(a .. b) /\ Elems(Interval(a, b)) = a .. b /\ \A T : Once(T, Interval(a, b))
  BY <1>5, IntervalFacts
<1>7. a .. b \subseteq Events
  BY <1>2, <1>3, <1>5, CountsAssumption DEF Events
<1> DEFINE chunk == Interval(a, b)
<1>8. chunk \in Seq(Events)
  <2>1. chunk \in Seq(a .. b)
    BY <1>6
  <2>2. PICK S : S = a .. b
    OBVIOUS
  <2> HIDE DEF chunk
  <2>3. chunk \in Seq(S) /\ S \subseteq Events
    BY <1>7, <2>1, <2>2
  <2> QED
    BY <2>3
<1>9. Leads(run.steps, Upto(run.steps, r), Interval(r + 1, b), Upto(run.steps, b))
  BY <1>2, <1>5, LeadsInterval
<1>10. Leads(run.steps, smd0.hist.bufs, chunk, Upto(run.steps, b))
  BY <1>2, <1>3, <1>9
<1>11. Upto(run.steps, b) = smd0.hist.bufs \o Select(chunk, run.steps)
  <2> HIDE DEF chunk
  <2> QED
    BY <1>2, <1>8, <1>10, LeadsSum
<1> QED
  BY <1>1, <1>3, <1>4, <1>6, <1>8, <1>10, <1>11

\* What smd0 has noted then.
LEMMA SmdHistory ==
  ASSUME TypeInv, FlowInv, NEW e \in Ebs, NEW n \in Nat, SmdSent(e, n)
  PROVE  /\ smd0'.hist.bufs = Upto(run.steps, smd0.read + n)
         /\ smd0'.hist.sent[e] = Len(smd0'.hist.bufs)
         /\ Got(e)' = smd0'.hist.bufs
         /\ \A f \in Ebs \ {e} :
              /\ smd0'.hist.sent[f] = smd0.hist.sent[f] /\ Got(f)' = Got(f)
              /\ smd0'.hist.sent[f] <= Len(smd0'.hist.bufs)
<1>1. PICK chunk : chunk = Interval(smd0.read + 1, smd0.read + n)
  OBVIOUS
<1>2. smd0.read + n \in 0 .. NumEvents
  BY DEF SmdSent
<1>3. chunk \in Seq(Events) /\ smd0.hist.bufs \o Select(chunk, run.steps) = Upto(run.steps, smd0.read + n)
  BY <1>1, <1>2, ChunkFacts
<1>4. PICK u : u = smd0.hist.bufs
  OBVIOUS
<1>5. PICK x : x = Select(chunk, run.steps)
  OBVIOUS
<1>6. PICK h : h = smd0.hist.sent
  OBVIOUS
<1>7. u \in Seq(Events) /\ h \in [Ebs -> Nat] /\ \A f \in Ebs : h[f] \in Nat /\ h[f] <= Len(u)
  BY <1>4, <1>6, SmdTypes DEF Histories
<1>8. x \in Seq(Events)
  BY <1>3, <1>5, SelectFacts
<1>9. u \o x \in Seq(Events) /\ Len(u \o x) \in Nat
  BY <1>7, <1>8
<1>10. smd0'.hist = [bufs |-> u \o x, sent |-> [h EXCEPT ![e] = Len(u \o x)]]
  BY <1>1, <1>4, <1>5, <1>6 DEF SmdSent, Extended, StepsOf
<1>11. [h EXCEPT ![e] = Len(u \o x)][e] = Len(u \o x)
       /\ \A f \in Ebs \ {e} : [h EXCEPT ![e] = Len(u \o x)][f] = h[f]
  BY <1>7
<1>12. /\ smd0'.hist.bufs = u \o x /\ smd0'.hist.sent[e] = Len(u \o x)
       /\ \A f \in Ebs \ {e} : smd0'.hist.sent[f] = h[f]
  BY <1>10, <1>11
<1>13. SubSeq(u \o x, 1, Len(u \o x)) = u \o x
  <2>1. PICK y : y = u \o x
    OBVIOUS
  <2> QED
    BY <1>9, <2>1
<1>14. ASSUME NEW f \in Ebs \ {e}
       PROVE  SubSeq(u \o x, 1, h[f]) = SubSeq(u, 1, h[f]) /\ h[f] <= Len(u \o x)
  <2>1. PICK a \in Nat : a = h[f] /\ a <= Len(u)
    BY <1>7
  <2>2. SubSeq(u \o x, 1, a) = SubSeq(u, 1, a) /\ a <= Len(u \o x)
    BY <1>7, <1>8, <2>1
  <2> QED
    BY <2>1, <2>2
<1>15. Got(e)' = u \o x
  BY <1>12, <1>13 DEF Got
<1>16. \A f \in Ebs \ {e} : Got(f)' = Got(f)
  BY <1>4, <1>6, <1>12, <1>14 DEF Got
<1> QED
  BY <1>3, <1>4, <1>5, <1>6, <1>12, <1>14, <1>15, <1>16

LEMMA SmdFlow ==
  ASSUME TypeInv, AskInv, FlowInv, PlaceInv, CoverInv, NEW e \in Ebs, NEW n \in Nat, SmdSent(e, n)
  PROVE  FlowInv' /\ PlaceInv' /\ CoverInv'
<1> DEFINE T == run.steps
           chunk == Interval(smd0.read + 1, smd0.read + n)
           new == smd0.read + 1 .. smd0.read + n
           miss == Missing(smd0.hist, e)
           bufs2 == Upto(T, smd0.read + n)
           given == [b \in BdsOf(e) |-> Given(e, b)]
<1>1. /\ smd0.read + n \in 0 .. NumEvents /\ smd0'.read = smd0.read + n
      /\ run' = run /\ eb' = eb /\ seen' = seen /\ batchTo' = batchTo
      /\ chunkTo' = [chunkTo EXCEPT ![e] = Data(miss \o chunk)] /\ e \in asking
  BY DEF SmdSent
<1>2. /\ smd0.read \in 0 .. NumEvents /\ smd0.hist.bufs \in Seq(Events)
      /\ smd0.hist.bufs = Upto(T, smd0.read)
      /\ \A f \in Ebs : smd0.hist.sent[f] \in Nat /\ smd0.hist.sent[f] <= Len(smd0.hist.bufs)
  BY SmdTypes
<1>3. /\ chunk \in Seq(Events) /\ Elems(chunk) = new /\ Once(T, chunk)
      /\ Leads(T, smd0.hist.bufs, chunk, bufs2)
  BY <1>1, ChunkFacts
<1>4. /\ smd0'.hist.bufs = bufs2 /\ smd0'.hist.sent[e] = Len(smd0'.hist.bufs) /\ Got(e)' = bufs2
      /\ \A f \in Ebs \ {e} :
           /\ smd0'.hist.sent[f] = smd0.hist.sent[f] /\ Got(f)' = Got(f)
           /\ smd0'.hist.sent[f] <= Len(smd0'.hist.bufs)
  BY SmdHistory
<1>5. eb[e].dict = <<>> /\ eb[e].todo = <<>> /\ chunkTo[e] = Nothing
  BY <1>1 DEF AskInv, EbAsks
<1>6. EbFlow(e) /\ EbPlaced(e)
  BY DEF FlowInv, PlaceInv
<1>7. Coming(e) = <<>>
  BY <1>5, ComingTodo
<1>8. miss \in Seq(Events) /\ Elems(miss) \subseteq T /\ Leads(T, Got(e), miss, smd0.hist.bufs)
  <2>1. PICK r : r = smd0.read
    OBVIOUS
  <2>2. PICK u : u = Upto(T, r)
    OBVIOUS
  <2>3. PICK a : a = smd0.hist.sent[e]
    OBVIOUS
  <2>4. u = smd0.hist.bufs /\ u \in Seq(Events) /\ a \in Nat /\ a <= Len(u) /\ Len(u) \in Nat /\ r \in 0 .. NumEvents
    BY <1>2, <2>1, <2>2, <2>3
  <2>5. PICK l : l = Len(u)
    OBVIOUS
  <2>6. SubSeq(u, 1, l) = u
    BY <2>4, <2>5
  <2>7. miss = SubSeq(u, a + 1, l) /\ Got(e) = SubSeq(u, 1, a)
    BY <2>3, <2>4, <2>5 DEF Missing, Got
  <2> HIDE DEF T
  <2>8. l \in Nat /\ a <= l /\ l <= Len(Upto(T, r))
    BY <2>2, <2>4, <2>5
  <2>9. /\ Leads(T, SubSeq(Upto(T, r), 1, a), SubSeq(Upto(T, r), a + 1, l), SubSeq(Upto(T, r), 1, l))
         /\ SubSeq(Upto(T, r), a + 1, l) \in Seq(Events)
         /\ Elems(SubSeq(Upto(T, r), a + 1, l)) \subseteq T
    BY <2>4, <2>8, LeadsMissing
  <2>10. Leads(T, SubSeq(u, 1, a), SubSeq(u, a + 1, l), SubSeq(u, 1, l))
    BY <2>2, <2>9
  <2>11. SubSeq(u, a + 1, l) \in Seq(Events) /\ Elems(SubSeq(u, a + 1, l)) \subseteq T
    BY <2>2, <2>9
  <2> QED
    BY <2>4, <2>6, <2>7, <2>10, <2>11
<1> HIDE DEF chunk, miss
<1>9. miss \o chunk \in Seq(Events) /\ Elems(miss \o chunk) = Elems(miss) \cup new
  <2>1. Elems(miss \o chunk) = Elems(miss) \cup Elems(chunk)
    BY <1>3, <1>8, ElemsConcat, ZenonT(30)
  <2>2. miss \o chunk \in Seq(Events)
    BY <1>3, <1>8, ConcatFacts
  <2> QED
    BY <1>3, <2>1, <2>2
<1>10. chunkTo'[e] = Data(miss \o chunk) /\ \A f \in Ebs \ {e} : chunkTo'[f] = chunkTo[f]
  BY <1>1 DEF TypeInv
<1>11. Coming(e)' = miss \o chunk
  <2>1. Items(chunkTo'[e]) = miss \o chunk /\ eb'[e].todo = <<>>
    BY <1>1, <1>5, <1>9, <1>10, MailFacts
  <2> QED
    BY <1>9, <2>1, EmptyEnds DEF Coming
<1>12. \A f \in Ebs \ {e} : SameAt(f)
  BY <1>1, <1>10, SameElsewhere
<1>13. Leads(T, eb[e].hist.bufs, miss \o chunk, bufs2)
  <2>1. Leads(T, eb[e].hist.bufs, <<>>, Got(e))
    <3>1. Ahead(T, eb[e].hist.bufs, <<>>, <<>>, Got(e))
      BY <1>5, <1>6, <1>7 DEF EbFlow
    <3>2. 0 \notin DOMAIN <<>>
      OBVIOUS
    <3> QED
      BY <3>1, <3>2 DEF Ahead, Noted
  <2>2. eb[e].hist.bufs = Got(e)
    BY <2>1, LeadsEmpty
  <2> HIDE DEF bufs2, T
  <2>3. Leads(T, Got(e), miss \o chunk, bufs2)
    BY <1>3, <1>8, LeadsConcat
  <2> QED
    BY <2>2, <2>3
<1>14. EbFlow(e)'
  <2>1. Ahead(T, eb[e].hist.bufs, <<>>, miss \o chunk, bufs2)
    <3>1. DOMAIN <<>> = {}
      OBVIOUS
    <3> QED
      BY <1>13, <3>1 DEF Ahead, Noted
  <2>2. Len(smd0'.hist.bufs) \in Nat
    <3>1. bufs2 \in Seq(Events)
      BY <1>1, UptoSeq
    <3> HIDE DEF bufs2
    <3> QED
      BY <1>4, <3>1
  <2> HIDE DEF bufs2
  <2> QED
    BY <1>1, <1>4, <1>5, <1>6, <1>11, <2>1, <2>2 DEF EbFlow
<1>15. \A b \in BdsOf(e) : Given(e, b)' = Given(e, b)
  BY <1>1 DEF Given
<1>16. \A b \in BdsOf(e) : BdFlow(e, b)'
  <2>1. \A b \in BdsOf(e) : BdFlow(e, b) /\ Sent(e, b)' = Sent(e, b)
    BY <1>1 DEF FlowInv, Sent
  <2> QED
    BY <1>1, <1>15, <2>1 DEF BdFlow
<1>17. ASSUME NEW f \in Ebs \ {e}
       PROVE  /\ EbFlow(f)' /\ \A b \in BdsOf(f) : BdFlow(f, b)'
              /\ EbPlaced(f)' /\ Held(f)' = Held(f)
  <2>1. SameAt(f) /\ EbFlow(f) /\ (\A b \in BdsOf(f) : BdFlow(f, b)) /\ EbPlaced(f)
    BY <1>12 DEF FlowInv, PlaceInv
  <2>2. /\ \A b \in BdsOf(f) : BdFlow(f, b)' <=> BdFlow(f, b)
        /\ EbPlaced(f)' <=> EbPlaced(f)
        /\ Held(f)' = Held(f)
    BY <1>1, <2>1, SameEb
  <2>3. EbFlow(f)'
    BY <1>1, <1>4, <2>1 DEF EbFlow, SameAt
  <2> QED
    BY <2>1, <2>2, <2>3
<1>18. FlowInv'
  <2>1. \A f \in Ebs : EbFlow(f)' /\ \A b \in BdsOf(f) : BdFlow(f, b)'
    BY <1>14, <1>16, <1>17
  <2>2. (smd0.hist.bufs = Upto(run.steps, smd0.read))'
    BY <1>1, <1>4
  <2> QED
    BY <2>1, <2>2 DEF FlowInv
<1>19. Held(e) \subseteq 1 .. smd0.read /\ \A f \in Ebs \ {e} : Held(e) \cap Held(f) = {}
  BY DEF PlaceInv
<1>20. Held(e) = Owned(e)
  <2>1. Among(T, eb[e].dict) = {}
    BY <1>5 DEF Among
  <2>2. L1(T, Coming(e)) = {}
    BY <1>7, ElemsEmpty DEF L1
  <2> QED
    BY <2>1, <2>2 DEF Held
<1>21. L1(T, miss \o chunk) = new \ T
  BY <1>8, <1>9 DEF L1
<1>22. Held(e)' = Held(e) \cup (new \ T)
  <2>1. Owned(e)' = Owned(e)
    BY <1>1, <1>15 DEF Owned
  <2>2. Among(T, <<>>) = {}
    BY DEF Among
  <2>3. Held(e)' = L1(T, miss \o chunk) \cup Among(T, <<>>) \cup Owned(e)
    BY <1>1, <1>5, <1>11, <2>1 DEF Held
  <2> QED
    BY <1>20, <1>21, <2>2, <2>3
<1>23. new \cap (1 .. smd0.read) = {} /\ 1 .. smd0.read + n = (1 .. smd0.read) \cup new
  BY <1>1, <1>2, CountsAssumption
<1>24. EbPlaced(e)'
  <2>1. Placed(T, e, <<>>, <<>>, given)
    BY <1>5, <1>6, <1>7 DEF EbPlaced
  <2>2. \A b \in BdsOf(e) : L1(T, given[b]) \cap new = {}
    <3>1. \A b \in BdsOf(e) : L1(T, given[b]) \subseteq Owned(e)
      BY DEF Owned
    <3> QED
      BY <1>19, <1>20, <1>23, <3>1
  <2>3. Once(T, miss \o chunk)
    <3>1. Once(T, miss) /\ L1(T, miss) = {}
      BY <1>8, OnceSteps
    <3> QED
      BY <1>3, <1>8, <3>1, OnceConcat
  <2> HIDE DEF given, new
  <2>4. Placed(T, e, <<>>, miss \o chunk, given)
    <3>1. DOMAIN <<>> = {}
      OBVIOUS
    <3>2. \A b \in BdsOf(e) : L1(T, given[b]) \cap L1(T, miss \o chunk) = {}
      BY <1>21, <2>2
    <3> QED
      BY <2>1, <2>3, <3>1, <3>2 DEF Placed
  <2>5. given' = given
    BY <1>15 DEF given
  <2> QED
    BY <1>1, <1>5, <1>11, <2>4, <2>5, SameRun DEF EbPlaced, given
<1> HIDE DEF new
<1>25. PlaceInv'
  <2>1. \A f \in Ebs \ {e} : Held(f) \subseteq 1 .. smd0.read /\ \A g \in Ebs \ {f} : Held(f) \cap Held(g) = {}
    BY DEF PlaceInv
  <2>2. ASSUME NEW f \in Ebs
        PROVE  /\ EbPlaced(f)' /\ Held(f)' \subseteq (1 .. smd0.read)'
               /\ \A g \in Ebs \ {f} : Held(f)' \cap Held(g)' = {}
    <3>1. (1 .. smd0.read)' = (1 .. smd0.read) \cup new
      BY <1>1, <1>23
    <3>2. CASE f = e
      BY <1>17, <1>19, <1>22, <1>23, <1>24, <2>1, <3>1, <3>2
    <3>3. CASE f # e
      BY <1>17, <1>22, <1>23, <2>1, <3>1, <3>3
    <3> QED
      BY <3>2, <3>3
  <2> QED
    BY <2>2 DEF PlaceInv
<1>26. CoverInv'
  <2>1. Whole' <=> Whole
    BY <1>1, SameRun
  <2>2. ASSUME Whole, NEW i \in (1 .. smd0.read)', i \notin T
        PROVE  \E f \in Ebs : i \in Held(f)'
    <3>1. i \in 1 .. smd0.read \/ i \in new
      BY <1>1, <1>23
    <3>2. CASE i \in new
      BY <1>22, <2>2, <3>2
    <3>3. CASE i \in 1 .. smd0.read
      <4>1. PICK f \in Ebs : i \in Held(f)
        BY <2>2, <3>3 DEF CoverInv
      <4> QED
        BY <1>17, <1>22, <4>1
    <3> QED
      BY <3>1, <3>2, <3>3
  <2> QED
    BY <1>1, <2>1, <2>2 DEF CoverInv
<1> QED
  BY <1>18, <1>25, <1>26

LEMMA ExtendedType ==
  ASSUME NEW C, NEW c \in C, NEW h, h \in Histories(C), NEW items \in Seq(Events)
  PROVE  Extended(h, c, items) \in Histories(C)
<1>1. PICK u : u = h.bufs
  OBVIOUS
<1>2. PICK f : f = h.sent
  OBVIOUS
<1>3. PICK x : x = StepsOf(items)
  OBVIOUS
<1>4. u \in Seq(Events) /\ f \in [C -> Nat]
  BY <1>1, <1>2 DEF Histories
<1>5. x \in Seq(Events)
  BY <1>3, SelectFacts DEF StepsOf
<1>6. u \o x \in Seq(Events) /\ Len(u \o x) \in Nat
  BY <1>4, <1>5
<1>7. [f EXCEPT ![c] = Len(u \o x)] \in [C -> Nat]
  BY <1>4, <1>6
<1>8. Extended(h, c, items) = [bufs |-> u \o x, sent |-> [f EXCEPT ![c] = Len(u \o x)]]
  BY <1>1, <1>2, <1>3 DEF Extended
<1> QED
  BY <1>6, <1>7, <1>8 DEF Histories

\* The turns of the loops at the end of smd0.
LEMMA SmdTurns ==
  ASSUME TypeInv
  PROVE  (smd0.turns + 1) % NumEbs \in 0 .. NumEbs - 1
<1>1. smd0.turns + 1 \in Nat /\ NumEbs \in Nat \ {0}
  BY CountsAssumption DEF TypeInv
<1> QED
  BY <1>1

LEMMA SmdAnswers ==
  ASSUME TypeInv, AskInv, NEW e \in Ebs, e \in asking, asking' = asking \ {e}, NEW m \in Mails, m # Nothing,
         chunkTo' = [chunkTo EXCEPT ![e] = m],
         smd0' \in [pc : {"chunk", "steps", "kill", "done"}, read : 0 .. NumEvents,
                    turns : 0 .. NumEbs - 1, hist : Histories(Ebs)],
         UNCHANGED <<run, eb, bdAsking, batchTo, bd, seen, terminated>>
  PROVE  TypeInv' /\ AskInv'
<1>1. chunkTo' \in [Ebs -> Mails] /\ chunkTo'[e] = m /\ \A f \in Ebs \ {e} : chunkTo'[f] = chunkTo[f]
  BY DEF TypeInv
<1>2. TypeInv'
  <2>1. Fcn(eb, Ebs)' /\ Fcn(bdAsking, Ebs)' /\ Fcn(batchTo, Ebs)' /\ Fcn(bd, Ebs)' /\ Fcn(seen, Ebs)'
    BY DEF TypeInv, Fcn
  <2> QED
    BY <1>1, <2>1 DEF TypeInv, Histories
<1>3. EbAsks(e) /\ \A b \in BdsOf(e) : BdAsks(e, b)
  BY DEF AskInv
<1>4. EbAsks(e)'
  BY <1>1, <1>3 DEF EbAsks
<1>5. \A b \in BdsOf(e) : BdAsks(e, b)'
  BY <1>3 DEF BdAsks, Waits, Ends
<1>6. \A f \in Ebs \ {e} : f \in asking' <=> f \in asking
  OBVIOUS
<1> QED
  BY <1>1, <1>2, <1>4, <1>5, <1>6, AskStep

LEMMA SmdSentInv ==
  ASSUME Inv, NEW e \in Ebs, NEW n \in Nat, SmdSent(e, n)
  PROVE  Inv'
<1>1. TypeInv /\ AskInv /\ FlowInv /\ PlaceInv /\ CoverInv
  BY DEF Inv
<1> DEFINE chunk == Interval(smd0.read + 1, smd0.read + n)
           miss == Missing(smd0.hist, e)
           m == Data(miss \o chunk)
<1>2. chunk \in Seq(Events)
  BY <1>1, ChunkFacts DEF SmdSent
<1>3. miss \in Seq(Events)
  <2>1. PICK u : u = smd0.hist.bufs
    OBVIOUS
  <2>2. PICK a : a = smd0.hist.sent[e]
    OBVIOUS
  <2>3. u \in Seq(Events) /\ a \in Nat /\ a <= Len(u)
    BY <1>1, <2>1, <2>2, SmdTypes
  <2>4. SubSeq(u, a + 1, Len(u)) \in Seq(Events)
    BY <2>3
  <2> QED
    BY <2>1, <2>2, <2>4 DEF Missing
<1> HIDE DEF chunk, miss
<1>4. m \in Mails /\ m # Nothing
  BY <1>2, <1>3, MailFacts, ConcatFacts
<1>5. chunkTo' = [chunkTo EXCEPT ![e] = m]
  BY DEF SmdSent, chunk, miss
<1> HIDE DEF m
<1>6. TypeInv' /\ AskInv'
  BY <1>1, <1>4, <1>5, SmdAnswers DEF SmdSent
<1>7. FlowInv' /\ PlaceInv' /\ CoverInv'
  BY <1>1, SmdFlow
<1> QED
  BY <1>6, <1>7 DEF Inv

LEMMA SmdChunkInv ==
  ASSUME Inv, NEW e \in Ebs, SmdChunk(e)
  PROVE  Inv'
<1>1. TypeInv /\ FlowInv
  BY DEF Inv
<1>2. PICK n \in 1 .. ChunkSize :
        /\ smd0.read + n <= NumEvents
        /\ chunkTo' = [chunkTo EXCEPT ![e] =
                         Data(Missing(smd0.hist, e) \o Interval(smd0.read + 1, smd0.read + n))]
        /\ smd0' = [smd0 EXCEPT !.read = smd0.read + n,
                                !.hist = Extended(smd0.hist, e, Interval(smd0.read + 1, smd0.read + n)),
                                !.pc = IF terminated \/ LastChunk(smd0.read + n) THEN "steps" ELSE "chunk"]
  BY DEF SmdChunk
<1>3. n \in Nat /\ smd0.read + n \in 0 .. NumEvents
  BY <1>1, <1>2, SmdTypes, CountsAssumption
<1>4. PICK h : h = Extended(smd0.hist, e, Interval(smd0.read + 1, smd0.read + n))
  OBVIOUS
<1>5. h \in Histories(Ebs)
  <2>1. Interval(smd0.read + 1, smd0.read + n) \in Seq(Events)
    BY <1>1, <1>3, ChunkFacts
  <2> QED
    BY <1>1, <1>4, <2>1, ExtendedType, SmdTypes
<1>6. PICK p \in {"chunk", "steps"} : p = IF terminated \/ LastChunk(smd0.read + n) THEN "steps" ELSE "chunk"
  OBVIOUS
<1>7. smd0' = [smd0 EXCEPT !.read = smd0.read + n, !.hist = h, !.pc = p]
  BY <1>2, <1>4, <1>6
<1>8. /\ smd0' \in [pc : {"chunk", "steps", "kill", "done"}, read : 0 .. NumEvents,
                    turns : 0 .. NumEbs - 1, hist : Histories(Ebs)]
      /\ smd0'.read = smd0.read + n /\ smd0'.hist = h
  BY <1>1, <1>3, <1>5, <1>7 DEF TypeInv, Histories
<1>9. SmdSent(e, n)
  BY <1>2, <1>3, <1>4, <1>8 DEF SmdSent, SmdChunk
<1> QED
  BY <1>3, <1>9, SmdSentInv

LEMMA SmdStepsInv ==
  ASSUME Inv, NEW e \in Ebs, SmdSteps(e)
  PROVE  Inv'
<1>1. TypeInv /\ FlowInv
  BY DEF Inv
<1>2. smd0.read + 0 \in 0 .. NumEvents /\ 0 \in Nat /\ smd0.read + 0 = smd0.read
  BY <1>1, SmdTypes
<1>3. Interval(smd0.read + 1, smd0.read + 0) = <<>>
  <2>1. PICK r \in Nat : r = smd0.read
    BY <1>1, SmdTypes
  <2>2. Interval(r + 1, r + 0) = [i \in 1 .. 0 |-> (r + 1) + i - 1]
    BY <2>1 DEF Interval
  <2>3. [i \in 1 .. 0 |-> (r + 1) + i - 1] = <<>>
    OBVIOUS
  <2> QED
    BY <2>1, <2>2, <2>3
<1>4. Missing(smd0.hist, e) \o <<>> = Missing(smd0.hist, e)
  <2>1. PICK u : u = smd0.hist.bufs
    OBVIOUS
  <2>2. PICK a : a = smd0.hist.sent[e]
    OBVIOUS
  <2>3. u \in Seq(Events) /\ a \in Nat /\ a <= Len(u)
    BY <1>1, <2>1, <2>2, SmdTypes
  <2>4. SubSeq(u, a + 1, Len(u)) \in Seq(Events)
    BY <2>3
  <2> QED
    BY <2>1, <2>2, <2>4, EmptyEnds DEF Missing
<1>5. PICK h : h = Extended(smd0.hist, e, <<>>)
  OBVIOUS
<1>6. h \in Histories(Ebs)
  <2>1. <<>> \in Seq(Events)
    OBVIOUS
  <2> QED
    BY <1>1, <1>5, <2>1, ExtendedType, SmdTypes
<1>7. PICK t \in 0 .. NumEbs - 1 : t = (smd0.turns + 1) % NumEbs
  BY <1>1, SmdTurns
<1>8. PICK p \in {"kill", "steps"} : p = IF smd0.turns + 1 = NumEbs THEN "kill" ELSE "steps"
  OBVIOUS
<1>9. smd0' = [smd0 EXCEPT !.hist = h, !.turns = t, !.pc = p]
  BY <1>5, <1>7, <1>8 DEF SmdSteps
<1>10. /\ smd0' \in [pc : {"chunk", "steps", "kill", "done"}, read : 0 .. NumEvents,
                     turns : 0 .. NumEbs - 1, hist : Histories(Ebs)]
       /\ smd0'.read = smd0.read /\ smd0'.hist = h
  BY <1>1, <1>6, <1>9 DEF TypeInv, Histories
<1>11. SmdSent(e, 0)
  BY <1>2, <1>3, <1>4, <1>5, <1>10 DEF SmdSent, SmdSteps
<1> QED
  BY <1>2, <1>11, SmdSentInv

LEMMA SmdKillInv ==
  ASSUME Inv, NEW e \in Ebs, SmdKill(e)
  PROVE  Inv'
<1>1. TypeInv /\ AskInv /\ FlowInv /\ PlaceInv /\ CoverInv
  BY DEF Inv
<1>2. /\ e \in asking /\ asking' = asking \ {e} /\ chunkTo' = [chunkTo EXCEPT ![e] = Null]
      /\ UNCHANGED <<run, eb, bdAsking, batchTo, bd, seen, terminated>>
  BY DEF SmdKill
<1>3. PICK t \in 0 .. NumEbs - 1 : t = (smd0.turns + 1) % NumEbs
  BY <1>1, SmdTurns
<1>4. PICK p \in {"kill", "done"} : p = IF smd0.turns + 1 = NumEbs THEN "done" ELSE "kill"
  OBVIOUS
<1>5. smd0' = [smd0 EXCEPT !.turns = t, !.pc = p]
  BY <1>3, <1>4 DEF SmdKill
<1>6. /\ smd0' \in [pc : {"chunk", "steps", "kill", "done"}, read : 0 .. NumEvents,
                    turns : 0 .. NumEbs - 1, hist : Histories(Ebs)]
      /\ smd0'.read = smd0.read /\ smd0'.hist = smd0.hist
  BY <1>1, <1>5 DEF TypeInv, Histories
<1>7. TypeInv' /\ AskInv'
  BY <1>1, <1>2, <1>6, MailFacts, SmdAnswers
<1>8. chunkTo[e] = Nothing
  BY <1>1, <1>2 DEF AskInv, EbAsks
<1>9. chunkTo'[e] = Null /\ \A f \in Ebs \ {e} : chunkTo'[f] = chunkTo[f]
  BY <1>1, <1>2 DEF TypeInv
<1>10. SameAt(e)
  <2>1. Coming(e)' = Coming(e)
    BY <1>2, <1>8, <1>9, MailFacts DEF Coming
  <2>2. \A b \in BdsOf(e) : Given(e, b)' = Given(e, b)
    BY <1>2 DEF Given
  <2> QED
    BY <1>2, <2>1, <2>2 DEF SameAt
<1>11. \A f \in Ebs : SameAt(f)
  <2>1. \A f \in Ebs \ {e} : SameAt(f)
    BY <1>2, <1>9, SameElsewhere
  <2> QED
    BY <1>10, <2>1
<1>12. FlowInv' /\ PlaceInv' /\ CoverInv'
  BY <1>1, <1>2, <1>6, <1>11, QuietStep
<1> QED
  BY <1>7, <1>12 DEF Inv

-----------------------------------------------------------------------------
(***************************************************************************)
(* The invariant                                                           *)
(***************************************************************************)

LEMMA InitRun ==
  ASSUME Init
  PROVE  /\ run \in [steps : SUBSET Events, batch : Nat \ {0}, destined : BOOLEAN, eager : BOOLEAN]
         /\ Mixed = FALSE => Whole
<1>1. PICK s \in StepSets, n \in BatchSizes, d \in Destined, g \in Eager :
        /\ d => NumEbs = 1
        /\ d /\ n > 1 => Mixed
        /\ run = [steps |-> s, batch |-> n, destined |-> d, eager |-> g]
  BY DEF Init
<1>2. s \in SUBSET Events /\ n \in Nat \ {0} /\ d \in BOOLEAN /\ g \in BOOLEAN
  BY CountsAssumption DEF Events
<1>3. run.destined = d /\ run.batch = n
  BY <1>1
<1>4. Mixed = FALSE => (d => n = 1)
  BY <1>1, <1>2
<1> QED
  BY <1>1, <1>2, <1>3, <1>4 DEF Whole

LEMMA InitTypes ==
  ASSUME Init
  PROVE  TypeInv /\ AskInv
<1>1. run \in [steps : SUBSET Events, batch : Nat \ {0}, destined : BOOLEAN, eager : BOOLEAN]
  BY InitRun
<1>2. 0 \in 0 .. NumEvents /\ 0 \in 0 .. NumEbs - 1 /\ 0 \in 0 .. NumBds
  BY CountsAssumption
<1>3. \A C : NoHistory(C) \in Histories(C)
  BY DEF NoHistory, Histories
<1>4. smd0 \in [pc : {"chunk", "steps", "kill", "done"}, read : 0 .. NumEvents,
                turns : 0 .. NumEbs - 1, hist : [bufs : Seq(Events), sent : [Ebs -> Nat]]]
  <2>1. NoHistory(Ebs) \in [bufs : Seq(Events), sent : [Ebs -> Nat]]
    BY <1>3 DEF Histories
  <2> QED
    BY <1>2, <2>1 DEF Init
<1>5. Nothing \in Mails
  BY MailFacts
<1>6. chunkTo \in [Ebs -> Mails] /\ Fcn(batchTo, Ebs) /\ \A e \in Ebs : batchTo[e] \in [BdsOf(e) -> Mails]
  BY <1>5 DEF Init, Fcn
<1>7. Fcn(eb, Ebs) /\ \A e \in Ebs : eb[e] \in EbState(e)
  <2>1. <<>> \in Dicts
    <3>1. <<>> \in [{} -> Seq(Events)] /\ {} \in SUBSET Dests
      OBVIOUS
    <3> QED
      BY <3>1 DEF Dicts
  <2>2. ASSUME NEW e \in Ebs
        PROVE  [pc |-> "receive", todo |-> <<>>, dict |-> <<>>, waiting |-> <<>>,
                turns |-> 0, hist |-> NoHistory(BdsOf(e))] \in EbState(e)
    <3>1. NoHistory(BdsOf(e)) \in [bufs : Seq(Events), sent : [BdsOf(e) -> Nat]]
      BY <1>3 DEF Histories
    <3> QED
      BY <1>2, <2>1, <3>1 DEF EbState
  <2> QED
    BY <2>2 DEF Init, Fcn
<1>8. Fcn(bdAsking, Ebs) /\ Fcn(bd, Ebs) /\ Fcn(seen, Ebs) /\ terminated \in BOOLEAN
      /\ \A e \in Ebs : /\ bdAsking[e] \subseteq BdsOf(e) /\ bd[e] \in [BdsOf(e) -> {"ask", "wait", "done"}]
                        /\ seen[e] \in [BdsOf(e) -> Seq(Events)]
  <2>1. Fcn(bdAsking, Ebs) /\ \A e \in Ebs : bdAsking[e] \subseteq BdsOf(e)
    BY DEF Init, Fcn
  <2>2. Fcn(bd, Ebs) /\ \A e \in Ebs : bd[e] \in [BdsOf(e) -> {"ask", "wait", "done"}]
    BY DEF Init, Fcn
  <2>3. <<>> \in Seq(Events)
    OBVIOUS
  <2>4. Fcn(seen, Ebs) /\ \A e \in Ebs : seen[e] \in [BdsOf(e) -> Seq(Events)]
    BY <2>3 DEF Init, Fcn
  <2>5. terminated \in BOOLEAN
    BY DEF Init
  <2> QED
    BY <2>1, <2>2, <2>4, <2>5
<1>9. TypeInv
  BY <1>1, <1>4, <1>6, <1>7, <1>8 DEF TypeInv, Init
<1>10. ASSUME NEW e \in Ebs
       PROVE  EbAsks(e) /\ \A b \in BdsOf(e) : BdAsks(e, b)
  <2>1. /\ eb[e].pc = "receive" /\ eb[e].dict = <<>> /\ eb[e].todo = <<>> /\ eb[e].waiting = <<>>
        /\ chunkTo[e] = Nothing /\ bdAsking[e] = {}
        /\ \A b \in BdsOf(e) : batchTo[e][b] = Nothing /\ bd[e][b] = "ask"
    BY DEF Init
  <2>2. 1 .. Len(<<>>) = {}
    OBVIOUS
  <2>3. EbAsks(e)
    BY <2>1, <2>2 DEF EbAsks
  <2>4. ASSUME NEW b \in BdsOf(e)
        PROVE  BdAsks(e, b)
    BY <2>1, <2>2, MailFacts DEF BdAsks, Waits
  <2> QED
    BY <2>3, <2>4
<1> QED
  BY <1>9, <1>10 DEF AskInv

LEMMA InitFlow ==
  ASSUME Init
  PROVE  FlowInv /\ PlaceInv /\ CoverInv
<1>1. TypeInv
  BY InitTypes
<1>2. smd0.read = 0 /\ smd0.hist = NoHistory(Ebs)
  BY DEF Init
<1>3. smd0.hist.bufs = <<>> /\ \A e \in Ebs : smd0.hist.sent[e] = 0
  BY <1>2 DEF NoHistory
<1>4. Upto(run.steps, 0) = <<>> /\ 0 \in 0 .. NumEvents
  BY UptoZero, CountsAssumption
<1>5. SubSeq(<<>>, 1, 0) = <<>> /\ Len(<<>>) = 0 /\ 0 \notin DOMAIN <<>> /\ DOMAIN <<>> = {}
  OBVIOUS
<1>6. Leads(run.steps, <<>>, <<>>, <<>>)
  BY LeadsEmpty
<1>7. Elems(<<>>) = {} /\ \A T : Once(T, <<>>) /\ L1(T, <<>>) = {}
  BY ElemsEmpty DEF L1
<1>8. ASSUME NEW e \in Ebs
      PROVE  /\ EbFlow(e) /\ (\A b \in BdsOf(e) : BdFlow(e, b)) /\ EbPlaced(e) /\ Held(e) = {}
  <2>1. /\ eb[e].dict = <<>> /\ eb[e].todo = <<>> /\ eb[e].hist = NoHistory(BdsOf(e)) /\ chunkTo[e] = Nothing
        /\ \A b \in BdsOf(e) : batchTo[e][b] = Nothing /\ seen[e][b] = <<>>
    BY DEF Init
  <2>2. eb[e].hist.bufs = <<>> /\ \A b \in BdsOf(e) : eb[e].hist.sent[b] = 0
    BY <2>1 DEF NoHistory
  <2>3. Coming(e) = <<>>
    BY <1>1, <2>1, ComingTodo
  <2>4. \A b \in BdsOf(e) : Given(e, b) = <<>> /\ Sent(e, b) = <<>>
    BY <1>1, <1>5, <2>1, <2>2, GivenSeen DEF Sent
  <2>5. Got(e) = <<>>
    BY <1>3, <1>5 DEF Got
  <2>6. EbFlow(e)
    <3>1. Ahead(run.steps, <<>>, <<>>, <<>>, <<>>)
      BY <1>5, <1>6 DEF Ahead, Noted
    <3> QED
      BY <1>3, <1>4, <1>5, <2>1, <2>2, <2>3, <2>5, <3>1 DEF EbFlow
  <2>7. \A b \in BdsOf(e) : BdFlow(e, b)
    BY <1>5, <1>6, <2>2, <2>4 DEF BdFlow
  <2>8. EbPlaced(e)
    <3>1. \A b \in BdsOf(e) : [c \in BdsOf(e) |-> Given(e, c)][b] = <<>>
      BY <2>4
    <3> QED
      BY <1>5, <1>7, <2>1, <2>3, <3>1 DEF EbPlaced, Placed
  <2>9. Held(e) = {}
    <3>1. Owned(e) = {}
      BY <1>7, <2>4 DEF Owned
    <3>2. Among(run.steps, <<>>) = {}
      BY <1>5 DEF Among
    <3> QED
      BY <1>7, <2>1, <2>3, <3>1, <3>2 DEF Held
  <2> QED
    BY <2>6, <2>7, <2>8, <2>9
<1>9. FlowInv
  BY <1>2, <1>3, <1>4, <1>8 DEF FlowInv
<1>10. PlaceInv
  BY <1>8 DEF PlaceInv
<1>11. CoverInv
  <2>1. 1 .. smd0.read = {}
    BY <1>2
  <2> QED
    BY <2>1 DEF CoverInv
<1> QED
  BY <1>9, <1>10, <1>11

LEMMA StutterInv ==
  ASSUME Inv, UNCHANGED vars
  PROVE  Inv'
<1>1. TypeInv /\ AskInv /\ FlowInv /\ PlaceInv /\ CoverInv
  BY DEF Inv
<1>2. UNCHANGED <<run, smd0, asking, chunkTo, eb, bdAsking, batchTo, bd, seen, terminated>>
  BY DEF vars
<1>3. \A f \in Ebs : SameAt(f)
  BY <1>2, SameElsewhere
<1>4. FlowInv' /\ PlaceInv' /\ CoverInv'
  BY <1>1, <1>2, <1>3, QuietStep
<1>5. \A f \in Ebs : EbAsks(f)' /\ \A b \in BdsOf(f) : BdAsks(f, b)'
  BY <1>1, <1>2, AskElsewhere
<1>6. TypeInv'
  BY <1>1, <1>2 DEF TypeInv, Fcn
<1> QED
  BY <1>4, <1>5, <1>6 DEF Inv, AskInv

LEMMA NextInv ==
  ASSUME Inv, [Next]_vars
  PROVE  Inv'
<1>1. ASSUME NEW e \in Ebs, SmdChunk(e) PROVE Inv'
  BY <1>1, SmdChunkInv
<1>2. ASSUME NEW e \in Ebs, SmdSteps(e) PROVE Inv'
  BY <1>2, SmdStepsInv
<1>3. ASSUME NEW e \in Ebs, SmdKill(e) PROVE Inv'
  BY <1>3, SmdKillInv
<1>4. ASSUME NEW e \in Ebs, EbReceive(e) PROVE Inv'
  BY <1>4, EbReceiveInv
<1>5. ASSUME NEW e \in Ebs, NEW b \in BdsOf(e), EbSendWaiting(e, b) PROVE Inv'
  BY <1>5, EbSendWaitingInv
<1>6. ASSUME NEW e \in Ebs, NEW b \in BdsOf(e), EbSend(e, b) PROVE Inv'
  BY <1>6, EbSendInv
<1>7. ASSUME NEW e \in Ebs, EbLastWaiting(e) PROVE Inv'
  BY <1>7, EbLastWaitingInv
<1>8. ASSUME NEW e \in Ebs, NEW b \in BdsOf(e), EbLast(e, b) PROVE Inv'
  BY <1>8, EbLastInv
<1>9. ASSUME NEW e \in Ebs, EbKillWaiting(e) PROVE Inv'
  BY <1>9, EbKillWaitingInv
<1>10. ASSUME NEW e \in Ebs, NEW b \in BdsOf(e), EbKill(e, b) PROVE Inv'
  BY <1>10, EbKillInv
<1>11. ASSUME NEW e \in Ebs, NEW b \in BdsOf(e), BdAsk(e, b) PROVE Inv'
  BY <1>11, BdAskInv
<1>12. ASSUME NEW e \in Ebs, NEW b \in BdsOf(e), BdReceive(e, b) PROVE Inv'
  BY <1>12, BdReceiveInv
<1>13. ASSUME Terminate PROVE Inv'
  BY <1>13, TerminateInv
<1>14. ASSUME UNCHANGED vars PROVE Inv'
  BY <1>14, StutterInv
<1> QED
  BY <1>1, <1>2, <1>3, <1>4, <1>5, <1>6, <1>7, <1>8, <1>9, <1>10, <1>11, <1>12, <1>13, <1>14
  DEF Next, Smd0Step, EbStep, BdStep

\* The user's start of the run stays what it is.
LEMMA WholeNext ==
  ASSUME Mixed = FALSE => Whole, [Next]_vars
  PROVE  (Mixed = FALSE => Whole)'
<1>1. run' = run
  <2>1. ASSUME NEW e \in Ebs, SmdChunk(e) PROVE run' = run
    BY <2>1 DEF SmdChunk
  <2>2. ASSUME NEW e \in Ebs, SmdSteps(e) PROVE run' = run
    BY <2>2 DEF SmdSteps
  <2>3. ASSUME NEW e \in Ebs, SmdKill(e) PROVE run' = run
    BY <2>3 DEF SmdKill
  <2>4. ASSUME NEW e \in Ebs, EbReceive(e) PROVE run' = run
    BY <2>4 DEF EbReceive
  <2>5. ASSUME NEW e \in Ebs, NEW b \in BdsOf(e), EbSendWaiting(e, b) PROVE run' = run
    BY <2>5 DEF EbSendWaiting
  <2>6. ASSUME NEW e \in Ebs, NEW b \in BdsOf(e), EbSend(e, b) PROVE run' = run
    BY <2>6 DEF EbSend
  <2>7. ASSUME NEW e \in Ebs, EbLastWaiting(e) PROVE run' = run
    BY <2>7 DEF EbLastWaiting
  <2>8. ASSUME NEW e \in Ebs, NEW b \in BdsOf(e), EbLast(e, b) PROVE run' = run
    BY <2>8 DEF EbLast
  <2>9. ASSUME NEW e \in Ebs, EbKillWaiting(e) PROVE run' = run
    BY <2>9 DEF EbKillWaiting
  <2>10. ASSUME NEW e \in Ebs, NEW b \in BdsOf(e), EbKill(e, b) PROVE run' = run
    BY <2>10 DEF EbKill
  <2>11. ASSUME NEW e \in Ebs, NEW b \in BdsOf(e), BdAsk(e, b) PROVE run' = run
    BY <2>11 DEF BdAsk
  <2>12. ASSUME NEW e \in Ebs, NEW b \in BdsOf(e), BdReceive(e, b) PROVE run' = run
    BY <2>12 DEF BdReceive
  <2>13. Terminate \/ UNCHANGED vars => run' = run
    BY DEF Terminate, vars
  <2> QED
    BY <2>1, <2>2, <2>3, <2>4, <2>5, <2>6, <2>7, <2>8, <2>9, <2>10, <2>11, <2>12, <2>13
    DEF Next, Smd0Step, EbStep, BdStep
<1> QED
  BY <1>1 DEF Whole

LEMMA InvAlways == Spec => [](Inv /\ (Mixed = FALSE => Whole))
<1>1. ASSUME Init
      PROVE  Inv /\ (Mixed = FALSE => Whole)
  BY <1>1, InitRun, InitTypes, InitFlow DEF Inv
<1>2. ASSUME Inv /\ (Mixed = FALSE => Whole), [Next]_vars
      PROVE  (Inv /\ (Mixed = FALSE => Whole))'
  BY <1>2, NextInv, WholeNext
<1> QED
  BY <1>1, <1>2, PTL DEF Spec

-----------------------------------------------------------------------------
(***************************************************************************)
(* The theorems                                                            *)
(***************************************************************************)

\* What a rank was given begins what it was and is being given.
LEMMA SeenGiven ==
  ASSUME TypeInv, NEW e \in Ebs, NEW b \in BdsOf(e)
  PROVE  /\ seen[e][b] \in Seq(Events) /\ Given(e, b) \in Seq(Events)
         /\ \A k \in DOMAIN seen[e][b] :
              /\ k \in 1 .. Len(seen[e][b]) /\ k \in 1 .. Len(Given(e, b)) /\ Given(e, b)[k] = seen[e][b][k]
              /\ k - 1 \in 0 .. Len(Given(e, b))
              /\ SubSeq(Given(e, b), 1, k - 1) = SubSeq(seen[e][b], 1, k - 1)
<1> DEFINE s == seen[e][b]
           t == Items(batchTo[e][b])
<1>1. s \in Seq(Events) /\ t \in Seq(Events)
  BY BdTypes
<1>2. Given(e, b) = s \o t
  BY DEF Given
<1> HIDE DEF s, t
<1>3. /\ s \o t \in Seq(Events)
      /\ \A k \in DOMAIN s :
           /\ k \in 1 .. Len(s) /\ k \in 1 .. Len(s \o t) /\ (s \o t)[k] = s[k]
           /\ k - 1 \in 0 .. Len(s \o t)
  BY <1>1
<1>4. \A k \in DOMAIN s : SubSeq(s \o t, 1, k - 1) = SubSeq(s, 1, k - 1)
  BY <1>1
<1> QED
  BY <1>1, <1>2, <1>3, <1>4 DEF s

LEMMA LeadsAfter ==
  ASSUME NEW T, NEW c \in Seq(Events), NEW d, NEW s \in Seq(Events), Leads(T, c, s, d),
         NEW n \in 0 .. Len(s)
  PROVE  After(T, c, s, n) = c \o Select(SubSeq(s, 1, n), T)
<1>1. /\ \A k \in 0 .. Len(s) : After(T, c, s, k) = c \o Select(SubSeq(s, 1, k), T)
      /\ d = c \o Select(s, T) /\ d \in Seq(Events)
  BY LeadsSteps
<1> QED
  BY <1>1

LEMMA InvStepsInContext ==
  ASSUME Inv
  PROVE  StepsInContext
<1>1. TypeInv /\ FlowInv
  BY DEF Inv
<1>2. ASSUME NEW e \in Ebs, NEW b \in BdsOf(e), NEW k \in DOMAIN seen[e][b]
      PROVE  StepsOf(SubSeq(seen[e][b], 1, k - 1)) = StepsOf(Interval(1, seen[e][b][k] - 1))
  <2> DEFINE g == Given(e, b)
             T == run.steps
             d == Sent(e, b)
             n == k - 1
  <2>1. g \in Seq(Events) /\ k \in 1 .. Len(g) /\ g[k] = seen[e][b][k] /\ k - 1 \in 0 .. Len(g)
        /\ SubSeq(g, 1, k - 1) = SubSeq(seen[e][b], 1, k - 1)
    BY <1>1, SeenGiven
  <2>2. Leads(T, <<>>, g, d)
    BY <1>1 DEF FlowInv, BdFlow
  <2> HIDE DEF g, T, d, n
  <2>3. <<>> \in Seq(Events)
    OBVIOUS
  <2>4. n \in 0 .. Len(g) /\ n = k - 1
    BY <2>1 DEF n
  <2>5. After(T, <<>>, g, n) = <<>> \o Select(SubSeq(g, 1, n), T)
    <3>1. PICK c : c = <<>>
      OBVIOUS
    <3>2. c \in Seq(Events) /\ Leads(T, c, g, d)
      BY <2>2, <2>3, <3>1
    <3>3. After(T, c, g, n) = c \o Select(SubSeq(g, 1, n), T)
      BY <2>1, <2>4, <3>2, LeadsAfter
    <3> QED
      BY <2>4, <3>1, <3>3
  <2>6. Upto(T, g[k] - 1) = After(T, <<>>, g, n)
    BY <2>1, <2>2, <2>4 DEF Leads
  <2>7. Select(SubSeq(g, 1, n), T) \in Seq(Events)
    <3>1. SubSeq(g, 1, n) \in Seq(Events)
      BY <2>1, <2>4, PrefixFacts
    <3> QED
      BY <3>1, SelectFacts
  <2>8. <<>> \o Select(SubSeq(g, 1, n), T) = Select(SubSeq(g, 1, n), T)
    BY <2>7, EmptyEnds
  <2>9. Select(SubSeq(g, 1, n), T) = Select(Interval(1, g[k] - 1), T)
    BY <2>5, <2>6, <2>8 DEF Upto
  <2> QED
    BY <2>1, <2>4, <2>9 DEF StepsOf, T
<1> QED
  BY <1>2 DEF StepsInContext

LEMMA InvEventsPlaced ==
  ASSUME Inv
  PROVE  EventsPlaced
<1>1. TypeInv /\ PlaceInv
  BY DEF Inv
<1> SUFFICES ASSUME NEW e \in Ebs, NEW f \in Ebs, NEW b \in BdsOf(e), NEW c \in BdsOf(f),
                    NEW j \in DOMAIN seen[e][b], NEW k \in DOMAIN seen[f][c],
                    seen[e][b][j] = seen[f][c][k], ~IsStep(seen[e][b][j])
             PROVE  /\ <<e, b, j>> = <<f, c, k>>
                    /\ Destination(e, seen[e][b][j]) \in {0, b}
  BY DEF EventsPlaced
<1> DEFINE i == seen[e][b][j]
<1>2. j \in 1 .. Len(Given(e, b)) /\ Given(e, b)[j] = i
  BY <1>1, SeenGiven
<1>3. k \in 1 .. Len(Given(f, c)) /\ Given(f, c)[k] = i
  BY <1>1, SeenGiven
<1>4. i \notin run.steps
  BY DEF IsStep
<1> HIDE DEF i
<1>5. i \in L1(run.steps, Given(e, b)) /\ i \in L1(run.steps, Given(f, c))
  BY <1>2, <1>3, <1>4 DEF L1, Elems
<1>6. i \in Held(e) /\ i \in Held(f)
  BY <1>5 DEF Held, Owned
<1>7. e = f
  BY <1>1, <1>6 DEF PlaceInv
<1>8. Placed(run.steps, e, eb[e].dict, Coming(e), [x \in BdsOf(e) |-> Given(e, x)])
  BY <1>1 DEF PlaceInv, EbPlaced
<1>9. /\ Once(run.steps, Given(e, b))
      /\ \A x \in BdsOf(e) \ {b} : L1(run.steps, Given(e, b)) \cap L1(run.steps, Given(e, x)) = {}
      /\ \A x \in L1(run.steps, Given(e, b)) : Destination(e, x) \in {0, b}
  BY <1>8 DEF Placed
<1>10. b = c
  BY <1>5, <1>7, <1>9
<1>11. j = k
  BY <1>2, <1>3, <1>4, <1>7, <1>9, <1>10 DEF Once
<1>12. Destination(e, i) \in {0, b}
  BY <1>5, <1>9
<1> QED
  BY <1>7, <1>10, <1>11, <1>12 DEF i

\* When the ranks of an event builder have ended, it holds nothing back.
LEMMA DoneHeld ==
  ASSUME Inv, NumBds >= NumEbs, NEW e \in Ebs, \A b \in BdsOf(e) : bd[e][b] = "done"
  PROVE  \A i \in Held(e) : \E b \in BdsOf(e) : i \in Range(seen[e][b])
<1>1. TypeInv /\ AskInv
  BY DEF Inv
<1>2. PICK m \in 0 .. NumBds : BdsOf(e) = 1 .. m /\ (NumBds >= NumEbs => m > 0)
  BY BdsFacts
<1>3. 1 \in BdsOf(e)
  BY <1>2
<1>4. eb[e].pc \in {"kill", "done"}
  BY <1>1, <1>3 DEF AskInv, BdAsks
<1>5. eb[e].dict = <<>> /\ eb[e].todo = <<>> /\ chunkTo[e] = Nothing
  BY <1>1, <1>4 DEF AskInv, EbAsks
<1>6. Coming(e) = <<>>
  BY <1>5, MailFacts DEF Coming
<1>7. L1(run.steps, Coming(e)) = {} /\ Among(run.steps, eb[e].dict) = {}
  <2>1. DOMAIN <<>> = {}
    OBVIOUS
  <2> QED
    BY <1>5, <1>6, <2>1, ElemsEmpty DEF L1, Among
<1>8. Held(e) = Owned(e)
  BY <1>7 DEF Held
<1>9. ASSUME NEW b \in BdsOf(e), NEW i \in L1(run.steps, Given(e, b))
      PROVE  i \in Range(seen[e][b])
  <2>1. batchTo[e][b] = Nothing
    BY <1>1 DEF AskInv, BdAsks
  <2>2. Given(e, b) = seen[e][b] /\ seen[e][b] \in Seq(Events)
    BY <1>1, <2>1, GivenSeen, BdTypes
  <2>3. PICK k \in 1 .. Len(seen[e][b]) : i = seen[e][b][k]
    BY <2>2 DEF L1, Elems
  <2>4. DOMAIN seen[e][b] = 1 .. Len(seen[e][b])
    BY <2>2
  <2> QED
    BY <2>3, <2>4 DEF Range
<1> QED
  BY <1>8, <1>9 DEF Owned

LEMMA InvEventsDelivered ==
  ASSUME Inv, Whole, NumBds >= NumEbs
  PROVE  EventsDelivered
<1>1. CoverInv
  BY DEF Inv
<1> SUFFICES ASSUME AllDone, NEW i \in 1 .. smd0.read, ~IsStep(i)
             PROVE  \E e \in Ebs : \E b \in BdsOf(e) : i \in Range(seen[e][b])
  BY DEF EventsDelivered
<1>2. PICK e \in Ebs : i \in Held(e)
  BY <1>1 DEF CoverInv, IsStep
<1>3. \A b \in BdsOf(e) : bd[e][b] = "done"
  BY DEF AllDone
<1>4. \E b \in BdsOf(e) : i \in Range(seen[e][b])
  BY <1>2, <1>3, DoneHeld
<1> QED
  BY <1>4

LEMMA InvTypeOK ==
  ASSUME Inv, NumBds >= NumEbs
  PROVE  TypeOK
<1>1. TypeInv /\ AskInv
  BY DEF Inv
<1>2. smd0.pc \in {"chunk", "steps", "kill", "done"} /\ smd0.read \in 0 .. NumEvents
      /\ smd0.turns \in 0 .. NumEbs - 1 /\ asking \subseteq Ebs /\ terminated \in BOOLEAN
  BY <1>1 DEF TypeInv
<1>3. ASSUME NEW e \in Ebs
      PROVE  /\ eb[e].pc \in {"receive", "send", "waiting", "last", "kill", "done"}
             /\ eb[e].waiting \in Seq(BdsOf(e)) /\ eb[e].turns \in 0 .. NumBds /\ eb[e].dict \in Dicts
             /\ IsInjective(eb[e].waiting) /\ bdAsking[e] \subseteq BdsOf(e)
  <2>1. eb[e] \in EbState(e) /\ bdAsking[e] \subseteq BdsOf(e)
    BY <1>1 DEF TypeInv
  <2>2. /\ eb[e].pc \in {"receive", "send", "waiting", "last", "kill", "done"}
        /\ eb[e].waiting \in Seq(BdsOf(e)) /\ eb[e].turns \in 0 .. NumBds /\ eb[e].dict \in Dicts
    BY <2>1 DEF EbState
  <2>3. \A j, k \in 1 .. Len(eb[e].waiting) : eb[e].waiting[j] = eb[e].waiting[k] => j = k
    BY <1>1 DEF AskInv, EbAsks
  <2>4. DOMAIN eb[e].waiting = 1 .. Len(eb[e].waiting)
    BY <2>2
  <2>5. IsInjective(eb[e].waiting)
    BY <2>3, <2>4 DEF IsInjective
  <2> QED
    BY <2>1, <2>2, <2>5
<1>4. Dests \subseteq 0 .. NumBds
  <2>1. ASSUME NEW e \in Ebs, NEW i \in Events
        PROVE  1 + (i % Cardinality(BdsOf(e))) \in 0 .. NumBds
    <3>1. PICK m \in 0 .. NumBds : Cardinality(BdsOf(e)) = m /\ m > 0
      BY BdsFacts
    <3>2. NumBds \in Nat /\ i \in Int /\ m \in Nat /\ m > 0 /\ m <= NumBds
      BY <3>1, CountsAssumption DEF Events
    <3>3. i % m \in 0 .. m - 1
      BY <3>2
    <3> QED
      BY <3>1, <3>2, <3>3
  <2>2. 0 \in 0 .. NumBds
    BY CountsAssumption
  <2> QED
    BY <2>1, <2>2 DEF Dests
<1>5. ASSUME NEW d \in Dicts
      PROVE  DOMAIN d \subseteq 0 .. NumBds
  BY <1>4 DEF Dicts
<1>6. ASSUME NEW e \in Ebs, NEW b \in BdsOf(e)
      PROVE  /\ bd[e][b] \in {"ask", "wait", "done"}
             /\ seen[e][b] \in Seq(Events)
             /\ b \in bdAsking[e] => bd[e][b] = "wait"
  <2>1. bd[e] \in [BdsOf(e) -> {"ask", "wait", "done"}] /\ seen[e] \in [BdsOf(e) -> Seq(Events)]
    BY <1>1 DEF TypeInv
  <2>2. BdAsks(e, b)
    BY <1>1 DEF AskInv
  <2> QED
    BY <2>1, <2>2 DEF BdAsks
<1> QED
  BY <1>2, <1>3, <1>5, <1>6 DEF TypeOK

\* Whatever the order of requests and however the events are cut in chunks and
\* batches, a big data rank that gets an event was given exactly the
\* transitions that precede it in the files: StepHistory.get_buffer and
\* extend_buffers, and the sends of smd0 and of the event builders that go
\* with them, miss none and repeat none.
THEOREM ParallelStepsInContext == Spec => []StepsInContext
<1>1. Inv => StepsInContext
  BY InvStepsInContext
<1> QED
  BY <1>1, InvAlways, PTL

\* No L1Accept is given twice, to one big data rank or to two, and one with a
\* destination is given to this rank: the batches that gen_batches cuts do not
\* overlap, and _send_to_dest deletes what it sent.
THEOREM ParallelEventsPlaced == Spec => []EventsPlaced
<1>1. Inv => EventsPlaced
  BY InvEventsPlaced
<1> QED
  BY <1>1, InvAlways, PTL

\* When each event builder has a big data rank and no batch with a destination
\* is dropped by Mixed (a dictionary reduced to its batch for any rank),
\* nothing that smd0 read is left behind in an event builder when all ranks
\* have ended: EventBuilderNode.start() ends a rank only after the last batch
\* was sent.
THEOREM ParallelEventsDelivered ==
  ASSUME Mixed = FALSE, NumBds >= NumEbs
  PROVE  Spec => []EventsDelivered
<1>1. Inv /\ (Mixed = FALSE => Whole) => EventsDelivered
  BY InvEventsDelivered
<1> QED
  BY <1>1, InvAlways, PTL

\* The types of the state: who waits in waiting_bds is there once, and no loop
\* at the end of EventBuilderNode.start() has a negative number of turns left.
THEOREM ParallelTypes ==
  ASSUME NumBds >= NumEbs
  PROVE  Spec => []TypeOK
<1>1. Inv => TypeOK
  BY InvTypeOK
<1> QED
  BY <1>1, InvAlways, PTL
=============================================================================
