---------------------------- MODULE HeadsProofs -----------------------------
(***************************************************************************)
(* The head tracker keeps one subscription, marks only irreversible heads, *)
(* raises no false alarm in backfill and implements HeadFeed, for every    *)
(* length of the chain, every point at which it forks, every configuration *)
(* and every database that an earlier process may have left.               *)
(*                                                                         *)
(* The argument for finality: a head the tracker ever held may have been   *)
(* reorganised away, but what was irreversible below it then is now.       *)
(*                                                                         *)
(* The second half is about the broadcaster, which starts from that feed.  *)
(***************************************************************************)
EXTENDS HeadTracker, HeadBroadcaster, WellFoundedInduction, TLAPS

\* The provers in the order in which they are tried: most leaves are first-order.
USE ChainAssumption, BoundsAssumption, ZenonT(5), SMTT(12), Z3T(12), ZenonT(20)

-----------------------------------------------------------------------------
(* The chain.                                                              *)

LEMMA Numbers ==
    /\ \A b \in Blocks : Num(b) \in Nat /\ Num(b) <= MaxNum /\ b # NoHead
    /\ Num(NoHead) = -1
    /\ \A b \in HeadOrNone : Num(b) \in Int /\ Num(b) >= -1
BY DEF Blocks, NoHead, Num, HeadOrNone

LEMMA MaxOfTwo ==
    ASSUME NEW x \in Int, NEW y \in Int
    PROVE  Max({x, y}) = IF x >= y THEN x ELSE y
<1>1. \E z \in {x, y} : \A w \in {x, y} : z >= w
  OBVIOUS
<1>2. Max({x, y}) \in {x, y} /\ \A w \in {x, y} : Max({x, y}) >= w
  BY <1>1 DEF Max
<1> QED
  BY <1>2

\* A block is its own ancestor, and an ancestor is a block no higher.
LEMMA OnBasics ==
    ASSUME NEW b \in Blocks
    PROVE  b \in On(b) /\ \A c \in On(b) : c \in Blocks /\ Num(c) <= Num(b)
BY DEF On, Num, Blocks

LEMMA OnTransitive ==
    ASSUME NEW b \in Blocks, NEW c \in On(b), NEW d \in On(c)
    PROVE  d \in On(b)
<1>1. c \in Blocks /\ d \in Blocks /\ Num(c) <= Num(b) /\ Num(d) <= Num(c)
  BY DEF On
<1>2. Num(b) \in Nat /\ Num(c) \in Nat /\ Num(d) \in Nat
  BY <1>1, Numbers
<1>3. c[2] = b[2] \/ (c[2] = "a" /\ Num(c) < ForkAt)
  BY DEF On
<1>4. d[2] = c[2] \/ (d[2] = "a" /\ Num(d) < ForkAt)
  BY DEF On
<1> HIDE DEF Num, Blocks
<1> QED
  BY <1>1, <1>2, <1>3, <1>4 DEF On

\* A chain has one block at each height.
LEMMA OnUnique ==
    ASSUME NEW b \in Blocks, NEW c \in On(b), NEW d \in On(b), Num(c) = Num(d)
    PROVE  c = d
<1>1. c \in Blocks /\ d \in Blocks
  BY DEF On
<1>2. c = <<Num(c), c[2]>> /\ d = <<Num(d), d[2]>>
  BY <1>1 DEF Blocks, Num
<1>3. c[2] = d[2]
  <2>1. \A x \in Blocks : Num(x) \in Nat /\ (x[2] = "a" \/ (x[2] = "b" /\ Num(x) >= ForkAt))
    BY DEF Blocks, Num
  <2>2. \A x \in On(b) : x[2] = b[2] \/ (x[2] = "a" /\ Num(x) < ForkAt)
    BY DEF On
  <2> HIDE DEF Num, Blocks
  <2> QED
    BY <1>1, <2>1, <2>2
<1> QED
  BY <1>2, <1>3

\* ... and one at every height up to its own.
LEMMA AtFacts ==
    ASSUME NEW b \in Blocks, NEW n \in 0..Num(b)
    PROVE  At(b, n) \in On(b) /\ Num(At(b, n)) = n
<1>1. Num(b) \in Nat /\ Num(b) <= MaxNum
  BY Numbers
<1>2. \E c \in On(b) : Num(c) = n
  <2>1. CASE n < ForkAt
    <3>1. <<n, "a">> \in Blocks /\ Num(<<n, "a">>) = n
      BY <1>1 DEF Blocks, Num
    <3>2. <<n, "a">> \in On(b)
      BY <1>1, <2>1, <3>1 DEF On
    <3> QED
      BY <3>1, <3>2
  <2>2. CASE n >= ForkAt
    <3>1. <<n, b[2]>> \in Blocks /\ Num(<<n, b[2]>>) = n
      BY <1>1, <2>2 DEF Blocks, Num
    <3>2. <<n, b[2]>> \in On(b)
      BY <1>1, <3>1 DEF On
    <3> QED
      BY <3>1, <3>2
  <2> QED
    BY <1>1, <2>1, <2>2
<1> QED
  BY <1>2 DEF At

\* The genesis block is on every chain.
LEMMA Genesis ==
    ASSUME NEW b \in Blocks, NEW c \in Blocks, Num(c) = 0
    PROVE  c \in On(b)
<1>1. Num(b) \in Nat
  BY Numbers
<1>2. c[2] = "a"
  BY DEF Blocks, Num
<1> QED
  BY <1>1, <1>2 DEF On

\* What nodes answer is on the chain.
LEMMA LatestOnChain ==
    ASSUME tip \in Blocks, NEW b \in Latest
    PROVE  b \in On(tip)
<1>1. Num(tip) \in Nat
  BY Numbers
<1>2. Max({Num(tip) - 1, 0}) \in Nat
  BY <1>1, MaxOfTwo
<1>3. PICK n \in Max({Num(tip) - 1, 0})..Num(tip) : b = At(tip, n)
  BY DEF Latest
<1>4. n \in 0..Num(tip)
  BY <1>1, <1>2
<1> QED
  BY <1>3, <1>4, AtFacts

\* A set of heads that is not empty has a highest one.
LEMMA HighestExists ==
    ASSUME NEW F \in SUBSET Blocks, F # {}
    PROVE  \E c \in F : \A d \in F : Num(d) <= Num(c)
<1> DEFINE T == {MaxNum - Num(c) : c \in F}
           R == {p \in Nat \X Nat : p[1] < p[2]}
<1>1. \A c \in F : Num(c) \in Nat /\ Num(c) <= MaxNum
  BY Numbers
<1>2. T \subseteq Nat /\ T # {}
  BY <1>1
<1>3. \A x, y \in Nat : x < y => <<x, y>> \in R
  OBVIOUS
<1>4. PICK x \in T : \A y \in T : ~(<<y, x>> \in R)
  <2>1. IsWellFoundedOn(R, Nat)
    BY NatLessThanWellFounded DEF OpToRel
  <2> HIDE DEF T, R
  <2> QED
    BY <1>2, <2>1, WFMin
<1> HIDE DEF R
<1>5. PICK c \in F : x = MaxNum - Num(c)
  OBVIOUS
<1>6. ASSUME NEW d \in F PROVE Num(d) <= Num(c)
  <2>1. MaxNum - Num(d) \in T
    OBVIOUS
  <2> HIDE DEF T
  <2>2. MaxNum - Num(d) \in Nat /\ x \in Nat
    BY <1>2, <2>1
  <2>3. ~(<<MaxNum - Num(d), x>> \in R)
    BY <1>4, <2>1
  <2>4. ~(MaxNum - Num(d) < x)
    BY <1>3, <2>2, <2>3
  <2>5. Num(d) \in Nat /\ Num(c) \in Nat
    BY <1>1
  <2> HIDE DEF Num
  <2> QED
    BY <1>5, <2>4, <2>5
<1> QED
  BY <1>6

LEMMA LatestFinalizedFacts ==
    ASSUME NEW h, finalized \subseteq Blocks
    PROVE  LatestFinalizedHead(h) = NoHead \/ LatestFinalizedHead(h) \in finalized
<1> DEFINE F == Chain(h) \cap finalized
<1>1. CASE F = {}
  BY <1>1 DEF LatestFinalizedHead
<1>2. CASE F # {}
  <2>1. F \in SUBSET Blocks
    OBVIOUS
  <2>2. \E c \in F : \A d \in F : Num(d) <= Num(c)
    BY <1>2, <2>1, HighestExists
  <2>3. LatestFinalizedHead(h) = CHOOSE c \in F : \A d \in F : Num(d) <= Num(c)
    BY <1>2 DEF LatestFinalizedHead
  <2> QED
    BY <2>2, <2>3
<1> QED
  BY <1>1, <1>2

-----------------------------------------------------------------------------
(* The inductive invariant.                                                *)

\* c cannot be reorganised away when t is the tip and k blocks are reversible.
SolidAt(t, k, c) == c \in On(t) /\ (Num(c) <= Num(t) - k \/ Num(c) = 0)

\* h was the tip, or below it, once: what was irreversible below h still is.
HeldAt(t, k, h) ==
    h # NoHead => /\ Num(h) <= Num(t)
                  /\ \A c \in On(h) : Num(c) <= Num(h) - k => c \in On(t)

Solid(c) == SolidAt(tip, Irreversible, c)
Held(h) == HeldAt(tip, Irreversible, h)

\* The listener holds the one subscription that is open.
SubInv ==
    /\ held => open = 1
    /\ ~held => open = 0
    /\ lpc \in {"subscribe", "done"} => ~held

\* Nothing above the latest chain was handed on, nor above the head that
\* handleNewHead read before it saves, whatever backfill saves in between.
FeedInv ==
    /\ Num(sent) <= Num(latestChain)
    /\ lpc = "save" => lhead.head \in Blocks /\ Num(sent) <= Num(lhead.prev)

FinalInv ==
    /\ alarm = FALSE
    /\ \A c \in finalized : Solid(c)
    /\ bf.pc = "walk" => bf.head \in Blocks /\ bf.final \in Blocks /\ Solid(bf.final)
    /\ Held(chHeaders) /\ Held(lhead.head) /\ Held(backfillMB.head)

IInv == TypeOK /\ SubInv /\ FeedInv /\ FinalInv

-----------------------------------------------------------------------------
LEMMA IrreversibleNat == config \in Configs => Irreversible \in Nat
BY DEF Irreversible

LEMMA NoneHeld == \A t, k : HeldAt(t, k, NoHead)
BY DEF HeldAt

LEMMA OnChainHeld ==
    ASSUME NEW t \in Blocks, NEW k \in Nat, NEW h \in On(t)
    PROVE  HeldAt(t, k, h)
BY OnBasics, OnTransitive DEF HeldAt

LEMMA SolidBelow ==
    ASSUME NEW t \in Blocks, NEW k \in Nat, NEW f, SolidAt(t, k, f), NEW c \in On(f)
    PROVE  SolidAt(t, k, c)
<1>1. f \in Blocks /\ f \in On(t)
  BY OnBasics DEF SolidAt
<1>2. c \in Blocks /\ Num(c) <= Num(f) /\ c \in On(t)
  BY <1>1, OnBasics, OnTransitive
<1>3. Num(c) \in Nat /\ Num(f) \in Nat /\ Num(t) \in Nat
  BY <1>1, <1>2, Numbers
<1> QED
  BY <1>2, <1>3 DEF SolidAt

\* A solid block of its chain, at any height the depth allows.
LEMMA AtSolid ==
    ASSUME NEW t \in Blocks, NEW k \in Nat, NEW n \in 0..Num(t), n <= Num(t) - k \/ n = 0
    PROVE  SolidAt(t, k, At(t, n))
BY AtFacts DEF SolidAt

LEMMA AtBelow ==
    ASSUME NEW t \in Blocks, NEW k \in Nat, NEW h \in Blocks, HeldAt(t, k, h),
           NEW n \in 0..Num(h), n <= Num(h) - k \/ n = 0
    PROVE  SolidAt(t, k, At(h, n))
<1> DEFINE c == At(h, n)
<1>1. c \in On(h) /\ Num(c) = n
  BY AtFacts
<1> HIDE DEF c
<1>2. h # NoHead /\ Num(h) \in Nat /\ Num(t) \in Nat /\ c \in Blocks /\ n \in Nat
  BY <1>1, Numbers, OnBasics
<1>3. Num(h) <= Num(t) /\ (Num(c) <= Num(h) - k => c \in On(t))
  BY <1>1, <1>2 DEF HeldAt
<1>4. Num(c) = 0 => c \in On(t)
  BY <1>2, Genesis
<1>5. SolidAt(t, k, c)
  BY <1>1, <1>2, <1>3, <1>4 DEF SolidAt
<1> QED
  BY <1>5 DEF c

\* The chain grows, or is reorganised above what is irreversible.
LEMMA GrowKeeps ==
    ASSUME NEW t \in Blocks, NEW u \in Blocks, NEW k \in Nat, Num(u) >= Num(t),
           \A c \in On(t) : Num(c) <= Num(t) - k => c \in On(u)
    PROVE  /\ \A c : SolidAt(t, k, c) => SolidAt(u, k, c)
           /\ \A h \in HeadOrNone : HeldAt(t, k, h) => HeldAt(u, k, h)
<1>1. Num(t) \in Nat /\ Num(u) \in Nat
  BY Numbers
<1>2. ASSUME NEW c, SolidAt(t, k, c) PROVE SolidAt(u, k, c)
  <2>1. c \in On(t) /\ c \in Blocks /\ Num(c) \in Nat
    BY <1>2, OnBasics, Numbers DEF SolidAt
  <2>2. Num(c) = 0 => c \in On(u)
    BY <2>1, Genesis
  <2> QED
    BY <1>1, <1>2, <2>1, <2>2 DEF SolidAt
<1>3. ASSUME NEW h \in HeadOrNone, HeldAt(t, k, h) PROVE HeldAt(u, k, h)
  <2> SUFFICES ASSUME h # NoHead
               PROVE  /\ Num(h) <= Num(u)
                      /\ \A c \in On(h) : Num(c) <= Num(h) - k => c \in On(u)
    BY DEF HeldAt
  <2>1. h \in Blocks /\ Num(h) \in Nat /\ Num(h) <= Num(t)
    BY <1>3, Numbers DEF HeldAt, HeadOrNone
  <2>2. ASSUME NEW c \in On(h), Num(c) <= Num(h) - k PROVE c \in On(u)
    <3>1. Num(c) \in Nat /\ c \in On(t)
      BY <1>3, <2>1, <2>2, OnBasics, Numbers DEF HeldAt
    <3> QED
      BY <1>1, <2>1, <2>2, <3>1
  <2> QED
    BY <1>1, <2>1, <2>2
<1> QED
  BY <1>2, <1>3

-----------------------------------------------------------------------------
\* What backfill takes for the finalized head is solid, whichever node answers,
\* and what it is linked to lies below it.
LEMMA CalculateSolid ==
    ASSUME IInv, NEW h \in Blocks, Held(h), NEW fin \in calculateLatestFinalized(h)
    PROVE  /\ fin.head \in Blocks /\ Solid(fin.head)
           /\ fin.linked \subseteq On(fin.head)
<1> DEFINE k == Irreversible
<1>1. tip \in Blocks /\ k \in Nat /\ config \in [tag : BOOLEAN, depth : Nat, offset : Nat]
  BY IrreversibleNat DEF IInv, TypeOK
<1>2. Num(tip) \in Nat /\ Num(h) \in Nat /\ Num(h) <= Num(tip)
  BY <1>1, Numbers DEF Held, HeldAt
<1>3. \A c \in Blocks : Chain(c) \subseteq On(c)
  BY DEF Chain
<1>4. ASSUME NEW g \in Blocks, Held(g), NEW n \in 0..Num(g), n <= Num(g) - k \/ n = 0
      PROVE  LET r == getHeadAtHeight(g, n)
             IN r.head \in Blocks /\ Solid(r.head) /\ r.linked \subseteq On(r.head)
  <2> DEFINE c == At(g, n)
             d == At(tip, n)
  <2>1. Num(g) \in Nat /\ Num(g) <= Num(tip)
    BY <1>4, Numbers DEF Held, HeldAt
  <2>2. n \in 0..Num(tip) /\ (n <= Num(tip) - k \/ n = 0)
    BY <1>1, <1>2, <1>4, <2>1
  <2>3. Solid(c) /\ c \in Blocks
    BY <1>1, <1>4, AtBelow, AtFacts, OnBasics DEF Held, Solid
  <2>4. Solid(d) /\ d \in Blocks /\ d \in On(d)
    BY <1>1, <2>2, AtSolid, AtFacts, OnBasics DEF Solid
  <2> HIDE DEF c, d
  <2>5. getHeadAtHeight(g, n) = IF c \in Chain(g) THEN [head |-> c, linked |-> Chain(c)]
                                ELSE [head |-> d, linked |-> {d}]
    BY DEF getHeadAtHeight, c, d
  <2> QED
    BY <1>3, <2>3, <2>4, <2>5
<1>5. \A n \in Nat, j \in Nat : FinalizedNumber(n, j) = IF n - j >= 0 THEN n - j ELSE 0
  BY MaxOfTwo DEF FinalizedNumber
<1>6. CASE config.tag
  <2>1. k = TagDepth
    BY <1>6 DEF Irreversible
  <2>2. PICK f \in LatestFinalizedBlock :
           fin = IF config.offset = 0 THEN [head |-> f, linked |-> {f}]
                 ELSE getHeadAtHeight(f, FinalizedNumber(Num(f), config.offset))
    BY <1>6 DEF calculateLatestFinalized
  <2>3. PICK b \in Latest : f = At(tip, Max({Num(b) - TagDepth, 0}))
    BY DEF LatestFinalizedBlock
  <2>4. b \in Blocks /\ Num(b) \in Nat /\ Num(b) <= Num(tip)
    BY <1>1, LatestOnChain, OnBasics, Numbers
  <2>5. /\ Max({Num(b) - TagDepth, 0}) \in 0..Num(tip)
        /\ Max({Num(b) - TagDepth, 0}) <= Num(tip) - k \/ Max({Num(b) - TagDepth, 0}) = 0
    BY <1>2, <2>1, <2>4, MaxOfTwo
  <2>6. Solid(f) /\ f \in On(tip) /\ Num(f) = Max({Num(b) - TagDepth, 0})
    BY <1>1, <2>3, <2>5, AtSolid, AtFacts DEF Solid
  <2>7. f \in Blocks /\ f \in On(f) /\ Held(f) /\ Num(f) \in Nat
    BY <1>1, <2>6, OnBasics, OnChainHeld, Numbers DEF Held
  <2>8. CASE config.offset = 0
    BY <2>2, <2>6, <2>7, <2>8
  <2>9. CASE config.offset # 0
    <3> DEFINE n == FinalizedNumber(Num(f), config.offset)
    <3>1. n \in 0..Num(f)
      BY <1>1, <1>5, <2>7
    <3> HIDE DEF n
    <3>2. Solid(At(f, n)) /\ At(f, n) \in Blocks
      BY <1>1, <2>6, <2>7, <3>1, AtFacts, SolidBelow, OnBasics DEF Solid
    <3>3. Num(At(f, n)) = n /\ n \in 0..Num(tip)
      BY <1>1, <1>2, <2>7, <2>6, <3>1, AtFacts, OnBasics
    <3>4. n <= Num(tip) - k \/ n = 0
      BY <3>2, <3>3 DEF Solid, SolidAt
    <3>5. Solid(At(tip, n)) /\ At(tip, n) \in Blocks /\ At(tip, n) \in On(At(tip, n))
      BY <1>1, <3>3, <3>4, AtSolid, AtFacts, OnBasics DEF Solid
    <3>6. fin = getHeadAtHeight(f, n)
      BY <2>2, <2>9 DEF n
    <3>7. fin = IF At(f, n) \in Chain(f) THEN [head |-> At(f, n), linked |-> Chain(At(f, n))]
                ELSE [head |-> At(tip, n), linked |-> {At(tip, n)}]
      BY <3>6 DEF getHeadAtHeight
    <3> QED
      BY <1>3, <3>2, <3>5, <3>7
  <2> QED
    BY <2>8, <2>9
<1>7. CASE ~config.tag /\ instantFinality
  <2>1. k = 0
    BY <1>1, <1>7 DEF Irreversible, instantFinality
  <2>2. fin = [head |-> h, linked |-> Chain(h)]
    BY <1>7 DEF calculateLatestFinalized
  <2>3. h # NoHead /\ h \in On(h)
    BY Numbers, OnBasics
  <2>4. Solid(h)
    BY <1>2, <2>1, <2>3 DEF Held, HeldAt, Solid, SolidAt
  <2> QED
    BY <1>3, <2>2, <2>4
<1>8. CASE ~config.tag /\ ~instantFinality
  <2>1. k = config.depth + config.offset
    BY <1>8 DEF Irreversible
  <2>2. fin = getHeadAtHeight(h, FinalizedNumber(Num(h), k))
    BY <1>8, <2>1 DEF calculateLatestFinalized
  <2> HIDE DEF k
  <2>3. /\ FinalizedNumber(Num(h), k) \in 0..Num(h)
        /\ FinalizedNumber(Num(h), k) <= Num(h) - k \/ FinalizedNumber(Num(h), k) = 0
    BY <1>1, <1>2, <1>5
  <2> QED
    BY <1>4, <2>2, <2>3
<1> QED
  BY <1>6, <1>7, <1>8

-----------------------------------------------------------------------------
(* The steps.                                                              *)

\* While neither the chain nor the finalized heads change, finality is about
\* the heads that the tracker holds.
LEMMA FinalFrame ==
    ASSUME IInv, UNCHANGED <<config, tip, finalized, alarm, bf>>,
           chHeaders' = NoHead \/ Held(chHeaders'),
           lhead'.head = NoHead \/ Held(lhead'.head),
           backfillMB'.head = NoHead \/ Held(backfillMB'.head)
    PROVE  FinalInv'
<1>1. Irreversible' = Irreversible
  BY DEF Irreversible
<1>2. Held(chHeaders') /\ Held(lhead'.head) /\ Held(backfillMB'.head)
  BY NoneHeld DEF Held
<1> QED
  BY <1>1, <1>2 DEF IInv, FinalInv, Solid, Held

\* The steps of the listener that touch its subscription only.
LEMMA SubscriptionSteps ==
    ASSUME IInv, Unsubscribe \/ subscribeToHead \/ ListenerExits \/ SubscriptionBreaks
    PROVE  IInv'
<1>1. /\ UNCHANGED <<config, tip, stopped, stored, lhead, behind, saver, backfilling, sent>>
      /\ chHeaders' \in {chHeaders, NoHead} /\ lpc' # "save"
      /\ lpc' \in {"unsubscribe", "subscribe", "initial", "done"}
  BY DEF Unsubscribe, subscribeToHead, ListenerExits, SubscriptionBreaks, unsubscribe, chain
<1>2. trouble' \in 0..MaxTrouble
  BY DEF Unsubscribe, subscribeToHead, ListenerExits, SubscriptionBreaks, Fails, chain, IInv, TypeOK
<1>3. SubInv' /\ held' \in BOOLEAN
  <2>1. CASE Unsubscribe \/ ListenerExits
    <3>1. held' = FALSE /\ open' = IF held THEN open - 1 ELSE open
      BY <2>1 DEF Unsubscribe, ListenerExits, unsubscribe
    <3>2. open' = 0
      <4>1. CASE held
        BY <3>1, <4>1 DEF IInv, SubInv
      <4>2. CASE ~held
        BY <3>1, <4>2 DEF IInv, SubInv
      <4> QED
        BY <4>1, <4>2
    <3> QED
      BY <3>1, <3>2 DEF SubInv
  <2>2. CASE subscribeToHead
    <3>1. ~held /\ open = 0 /\ held \in BOOLEAN
      BY <2>2 DEF subscribeToHead, IInv, SubInv, TypeOK
    <3>2. \/ lpc' = "unsubscribe" /\ held' = held /\ open' = open
          \/ lpc' = "initial" /\ held' = TRUE /\ open' = open + 1
      BY <2>2 DEF subscribeToHead
    <3>3. CASE lpc' = "unsubscribe" /\ held' = held /\ open' = open
      BY <3>1, <3>3 DEF SubInv
    <3>4. CASE lpc' = "initial" /\ held' = TRUE /\ open' = open + 1
      <4>1. open' = 1
        BY <3>1, <3>4
      <4> QED
        BY <3>4, <4>1 DEF SubInv
    <3> QED
      BY <3>2, <3>3, <3>4
  <2>3. CASE SubscriptionBreaks
    BY <2>3 DEF SubscriptionBreaks, IInv, SubInv, TypeOK
  <2> QED
    BY <2>1, <2>2, <2>3
<1>4. open' \in 0..MaxTrouble + 2
  BY <1>3 DEF SubInv
<1>5. TypeOK'
  BY <1>1, <1>2, <1>3, <1>4 DEF IInv, TypeOK, HeadOrNone, saver, backfilling
<1>6. FeedInv'
  BY <1>1 DEF IInv, FeedInv, saver, Num
<1>7. FinalInv'
  BY <1>1, FinalFrame DEF IInv, FinalInv, saver, backfilling
<1> QED
  BY <1>3, <1>5, <1>6, <1>7 DEF IInv

\* Load never lowers the latest chain.
LEMMA LoadRaises ==
    ASSUME IInv, Load
    PROVE  /\ saved \subseteq saved' /\ saved' \subseteq Blocks
           /\ latestChain' \in HeadOrNone /\ Num(latestChain') >= Num(latestChain)
<1>1. stored \subseteq Blocks /\ saved \subseteq Blocks /\ latestChain \in HeadOrNone
  BY DEF IInv, TypeOK
<1>2. saved' = saved \cup stored
  BY DEF Load
<1>3. latestChain' = latestChain \/ (latestChain' \in stored /\ Num(latestChain') > Num(latestChain))
  BY DEF Load
<1>4. latestChain' \in HeadOrNone
  BY <1>1, <1>3 DEF HeadOrNone
<1>5. Num(latestChain) \in Int /\ Num(latestChain') \in Int
  BY <1>1, <1>4, Numbers
<1>6. Num(latestChain') >= Num(latestChain)
  BY <1>3, <1>5
<1> QED
  BY <1>1, <1>2, <1>4, <1>6

\* handleNewHead up to the Save, for a head of the chain, perhaps after a Load.
LEMMA CheckStep ==
    ASSUME IInv, NEW h \in Blocks, Held(h), NEW initial \in BOOLEAN, Check(h, initial),
           lpc \in {"initial", "receive"}, chHeaders' \in {chHeaders, NoHead},
           trouble' \in 0..MaxTrouble,
           saved \subseteq saved', saved' \subseteq Blocks,
           latestChain' \in HeadOrNone, Num(latestChain') >= Num(latestChain),
           UNCHANGED <<config, tip, stopped, stored, held, open, finalized, backfilling, sent>>
    PROVE  IInv'
<1>1. \/ lpc' \in {"receive", "unsubscribe"} /\ lhead' = NoLocals
      \/ /\ lpc' = "save"
         /\ lhead' = [head |-> h, prev |-> latestChain', initial |-> initial]
  BY DEF Check
<1>2. NoLocals \in [head : HeadOrNone, prev : HeadOrNone, initial : BOOLEAN]
  BY DEF NoLocals, HeadOrNone
<1>3. /\ lhead' \in [head : HeadOrNone, prev : HeadOrNone, initial : BOOLEAN]
      /\ behind' \in BOOLEAN
  <2>1. h \in HeadOrNone
    BY DEF HeadOrNone
  <2>2. behind' \in BOOLEAN
    BY DEF Check
  <2> QED
    BY <1>1, <1>2, <2>1, <2>2
<1>4. lhead'.head \in {NoHead, h}
  BY <1>1 DEF NoLocals
<1>5. TypeOK'
  BY <1>1, <1>3 DEF IInv, TypeOK, HeadOrNone, backfilling
<1>6. SubInv'
  BY <1>1 DEF IInv, SubInv
<1>7. FeedInv'
  <2>1. Num(sent) \in Int /\ Num(latestChain) \in Int /\ Num(latestChain') \in Int
    BY Numbers DEF IInv, TypeOK
  <2>2. Num(sent) <= Num(latestChain')
    BY <2>1 DEF IInv, FeedInv
  <2>3. Num(sent') = Num(sent) /\ Num(latestChain)' = Num(latestChain')
    BY DEF Num
  <2>4. lpc' = "save" => lhead'.head = h /\ lhead'.prev = latestChain'
    BY <1>1
  <2> QED
    BY <2>2, <2>3, <2>4 DEF FeedInv, Num
<1>8. FinalInv'
  BY <1>4, FinalFrame DEF IInv, FinalInv, backfilling
<1> QED
  BY <1>5, <1>6, <1>7, <1>8 DEF IInv

LEMMA HandleInitialHeadStep == ASSUME IInv, handleInitialHead PROVE IInv'
<1>1. PICK f \in BOOLEAN, h \in Latest :
         /\ Fails(f)
         /\ IF f THEN lpc' = "receive" /\ UNCHANGED <<lhead, behind, saved, latestChain>>
            ELSE Load /\ Check(h, TRUE)
  BY DEF handleInitialHead
<1>2. /\ lpc = "initial"
      /\ UNCHANGED <<config, tip, stopped, stored, held, open, chHeaders, finalized,
                     backfilling, sent>>
  BY DEF handleInitialHead
<1>3. trouble' \in 0..MaxTrouble
  BY <1>1 DEF Fails, IInv, TypeOK
<1>4. h \in Blocks /\ Held(h)
  BY LatestOnChain, OnBasics, OnChainHeld, IrreversibleNat DEF IInv, TypeOK, Held
<1>5. CASE f
  <2>1. lpc' = "receive" /\ UNCHANGED <<lhead, behind, saved, latestChain>>
    BY <1>1, <1>5
  <2>2. TypeOK' /\ SubInv' /\ FeedInv'
    BY <1>2, <1>3, <2>1 DEF IInv, TypeOK, SubInv, FeedInv, backfilling, Num
  <2>3. FinalInv'
    BY <1>2, <2>1, FinalFrame DEF IInv, FinalInv, backfilling
  <2> QED
    BY <2>2, <2>3 DEF IInv
<1>6. CASE ~f
  <2>1. Check(h, TRUE) /\ Load
    BY <1>1, <1>6
  <2> QED
    BY <1>2, <1>3, <1>4, <2>1, LoadRaises, CheckStep
<1> QED
  BY <1>5, <1>6

LEMMA ReceiveHeadersStep == ASSUME IInv, receiveHeaders PROVE IInv'
<1>1. /\ lpc = "receive" /\ Check(chHeaders, FALSE) /\ chHeaders' = NoHead
      /\ UNCHANGED <<config, tip, trouble, stopped, stored, held, open, saver, backfilling, sent>>
  BY DEF receiveHeaders, chain
<1>2. chHeaders \in Blocks /\ Held(chHeaders)
  BY DEF receiveHeaders, IInv, TypeOK, FinalInv, HeadOrNone
<1>3. trouble' \in 0..MaxTrouble
  BY <1>1 DEF IInv, TypeOK
<1>4. /\ saved \subseteq saved' /\ saved' \subseteq Blocks /\ finalized' = finalized
      /\ latestChain' \in HeadOrNone /\ Num(latestChain') >= Num(latestChain)
  BY <1>1, Numbers DEF IInv, TypeOK, saver
<1> QED
  BY <1>1, <1>2, <1>3, <1>4, CheckStep

\* Save never lowers the latest chain, and raises it to what it saves.
LEMMA SaveRaises ==
    ASSUME IInv, NEW h \in Blocks, Save(h)
    PROVE  /\ saved' = saved \cup {h} /\ latestChain' \in HeadOrNone
           /\ Num(latestChain') >= Num(latestChain) /\ Num(latestChain') >= Num(h)
<1>1. Num(h) \in Int /\ Num(latestChain) \in Int /\ latestChain \in HeadOrNone /\ h \in HeadOrNone
  BY Numbers DEF IInv, TypeOK, HeadOrNone
<1> QED
  BY <1>1 DEF Save

LEMMA HandleNewHeadStep ==
    ASSUME IInv, handleNewHead
    PROVE  IInv' /\ (sent' = sent \/ (sent' \in Blocks /\ Num(sent') > Num(sent)))
<1> DEFINE h == lhead.head
<1>1. PICK f \in BOOLEAN :
         /\ Fails(f)
         /\ IF f
            THEN /\ lpc' = IF lhead.initial \/ stopped THEN "receive" ELSE "unsubscribe"
                 /\ UNCHANGED <<saved, latestChain, backfillMB, sent>>
            ELSE /\ lpc' = "receive"
                 /\ Save(h)
                 /\ IF Highest(h, lhead.prev) /\ ~stopped
                    THEN /\ backfillMB' = [head |-> h, prev |-> lhead.prev]
                         /\ sent' = h
                    ELSE UNCHANGED <<backfillMB, sent>>
  BY DEF handleNewHead
<1>2. /\ lpc = "save" /\ lhead' = NoLocals
      /\ UNCHANGED <<config, tip, stopped, stored, held, open, chHeaders, behind, finalized, bf, alarm>>
  BY DEF handleNewHead
<1>3. trouble' \in 0..MaxTrouble
  BY <1>1 DEF Fails, IInv, TypeOK
<1>4. /\ h \in Blocks /\ h \in HeadOrNone /\ Held(h) /\ lhead.prev \in HeadOrNone
      /\ Num(sent) <= Num(lhead.prev)
  BY <1>2 DEF IInv, TypeOK, FeedInv, FinalInv, HeadOrNone
<1>5. /\ lhead' \in [head : HeadOrNone, prev : HeadOrNone, initial : BOOLEAN]
      /\ lhead'.head = NoHead
  BY <1>2 DEF NoLocals, HeadOrNone
<1>6. Num(h) \in Int /\ Num(lhead.prev) \in Int /\ Num(sent) \in Int /\ Num(latestChain) \in Int
  BY <1>4, Numbers DEF IInv, TypeOK
<1>7. lpc' \in {"receive", "unsubscribe"}
  BY <1>1
<1>8. SubInv'
  BY <1>2, <1>7 DEF IInv, SubInv
<1>9. CASE f
  <2>1. UNCHANGED <<saved, latestChain, backfillMB, sent>>
    BY <1>1, <1>9
  <2>2. TypeOK'
    BY <1>2, <1>3, <1>5, <1>7, <2>1 DEF IInv, TypeOK
  <2>3. FeedInv'
    BY <1>7, <2>1 DEF IInv, FeedInv, Num
  <2>4. FinalInv'
    BY <1>2, <1>5, <2>1, FinalFrame DEF IInv, FinalInv
  <2> QED
    BY <1>8, <2>1, <2>2, <2>3, <2>4 DEF IInv
<1>10. CASE ~f
  <2> HIDE DEF h
  <2>1. /\ saved' = saved \cup {h} /\ latestChain' \in HeadOrNone
        /\ Num(latestChain') >= Num(latestChain) /\ Num(latestChain') >= Num(h)
    BY <1>1, <1>4, <1>10, SaveRaises
  <2>2. \/ Num(h) > Num(lhead.prev) /\ backfillMB' = [head |-> h, prev |-> lhead.prev] /\ sent' = h
        \/ UNCHANGED <<backfillMB, sent>>
    BY <1>1, <1>10 DEF Highest
  <2>3. /\ backfillMB' \in [head : HeadOrNone, prev : HeadOrNone] /\ sent' \in HeadOrNone
        /\ backfillMB'.head \in {backfillMB.head, h}
    BY <1>4, <2>2 DEF IInv, TypeOK
  <2>4. TypeOK'
    BY <1>2, <1>3, <1>4, <1>5, <1>7, <2>1, <2>3 DEF IInv, TypeOK
  <2>5. FeedInv'
    <3>1. Num(latestChain') \in Int
      BY <2>1, Numbers
    <3>2. Num(sent') <= Num(latestChain')
      BY <1>6, <2>1, <2>2, <3>1 DEF IInv, FeedInv
    <3> QED
      BY <1>7, <3>2 DEF FeedInv, Num
  <2>6. FinalInv'
    BY <1>2, <1>4, <1>5, <2>3, FinalFrame DEF IInv, FinalInv
  <2>7. sent' = sent \/ (sent' \in Blocks /\ Num(sent') > Num(sent))
    BY <1>4, <1>6, <2>2
  <2> QED
    BY <1>8, <2>4, <2>5, <2>6, <2>7 DEF IInv
<1> QED
  BY <1>9, <1>10

-----------------------------------------------------------------------------
(* The chain and the backfill loop.                                        *)

LEMMA GrowStep == ASSUME IInv, Grow PROVE IInv'
<1>1. PICK b \in Blocks :
         /\ Num(b) \in {Num(tip), Num(tip) + 1} /\ tip' = b
         /\ \A c \in On(tip) : Num(c) <= Num(tip) - Irreversible => c \in On(b)
  BY DEF Grow
<1>2. UNCHANGED <<config, trouble, stopped, stored, listening, saver, backfilling, sent>>
  BY DEF Grow
<1>3. tip \in Blocks /\ Irreversible \in Nat /\ Num(tip) \in Nat /\ Num(b) >= Num(tip)
  BY <1>1, IrreversibleNat, Numbers DEF IInv, TypeOK
<1>4. /\ \A c : SolidAt(tip, Irreversible, c) => SolidAt(b, Irreversible, c)
      /\ \A h \in HeadOrNone : HeldAt(tip, Irreversible, h) => HeldAt(b, Irreversible, h)
  BY <1>1, <1>3, GrowKeeps
<1>5. TypeOK' /\ SubInv' /\ FeedInv'
  BY <1>1, <1>2 DEF IInv, TypeOK, SubInv, FeedInv, listening, saver, backfilling, Num
<1>6. FinalInv'
  <2>1. Irreversible' = Irreversible
    BY <1>2 DEF Irreversible
  <2>2. chHeaders \in HeadOrNone /\ lhead.head \in HeadOrNone /\ backfillMB.head \in HeadOrNone
    BY DEF IInv, TypeOK
  <2>3. UNCHANGED <<chHeaders, lhead, backfillMB, bf, alarm, finalized>>
    BY <1>2 DEF listening, saver, backfilling
  <2> QED
    BY <1>1, <1>4, <2>1, <2>2, <2>3 DEF IInv, FinalInv, Solid, Held
<1> QED
  BY <1>5, <1>6 DEF IInv

LEMMA EmitStep == ASSUME IInv, NEW b \in Latest, Emit(b) PROVE IInv'
<1>1. /\ chHeaders' = b
      /\ UNCHANGED <<chain, lpc, held, open, lhead, behind, saver, backfilling, sent>>
  BY DEF Emit
<1>2. b \in Blocks /\ Held(b)
  BY LatestOnChain, OnBasics, OnChainHeld, IrreversibleNat DEF IInv, TypeOK, Held
<1>3. TypeOK' /\ SubInv' /\ FeedInv'
  BY <1>1, <1>2 DEF IInv, TypeOK, SubInv, FeedInv, HeadOrNone, chain, saver, backfilling, Num
<1>4. FinalInv'
  BY <1>1, <1>2, FinalFrame DEF IInv, FinalInv, chain, saver, backfilling
<1> QED
  BY <1>3, <1>4 DEF IInv

LEMMA QuietStep == ASSUME IInv, Stop \/ UNCHANGED vars PROVE IInv'
<1>1. /\ UNCHANGED <<config, tip, trouble, stored, listening, saver, backfilling, sent>>
      /\ stopped' \in BOOLEAN
  BY DEF Stop, vars, chain, IInv, TypeOK
<1>2. TypeOK' /\ SubInv' /\ FeedInv'
  BY <1>1 DEF IInv, TypeOK, SubInv, FeedInv, listening, saver, backfilling, Num
<1>3. FinalInv'
  BY <1>1, FinalFrame DEF IInv, FinalInv, listening, saver, backfilling
<1> QED
  BY <1>2, <1>3 DEF IInv

\* Two final heads of the same height are the same head: no conflict is found.
LEMMA NoConflict ==
    ASSUME IInv, NEW fin, fin.head \in Blocks, Solid(fin.head), fin.linked \subseteq On(fin.head),
           NEW prev
    PROVE  ~Conflict(fin, PreviouslyFinalized(prev))
<1> DEFINE p == PreviouslyFinalized(prev)
<1> SUFFICES ASSUME p # NoHead, NEW c \in fin.linked, Num(c) = Num(p)
             PROVE  c = p
  BY DEF Conflict
<1>1. finalized \subseteq Blocks /\ tip \in Blocks /\ Irreversible \in Nat
  BY IrreversibleNat DEF IInv, TypeOK
<1>2. p \in On(tip)
  BY <1>1, LatestFinalizedFacts DEF PreviouslyFinalized, IInv, FinalInv, Solid, SolidAt
<1>3. c \in On(tip)
  BY <1>1, SolidBelow DEF Solid, SolidAt
<1> HIDE DEF p
<1> QED
  BY <1>1, <1>2, <1>3, OnUnique

LEMMA BackfillStep == ASSUME IInv, Backfill PROVE IInv'
<1> DEFINE h == backfillMB.head
<1>1. PICK f \in BOOLEAN, fin \in calculateLatestFinalized(h) :
         LET gap == Num(h) - Num(fin.head)
             bad == ~instantFinality /\ Conflict(fin, PreviouslyFinalized(backfillMB.prev))
         IN /\ Fails(f)
            /\ IF f \/ gap < 0 \/ gap > MaxAllowedFinalityDepth
               THEN bf' = bf /\ UNCHANGED alarm
               ELSE /\ alarm' = IF instantFinality THEN alarm ELSE bad
                    /\ bf' = IF bad THEN bf
                             ELSE [pc |-> "walk", head |-> h, final |-> fin.head]
  BY DEF Backfill
<1>2. /\ backfillMB' = [head |-> NoHead, prev |-> NoHead]
      /\ UNCHANGED <<config, tip, stopped, stored, listening, saver, sent>>
  BY DEF Backfill
<1>3. h \in Blocks /\ h \in HeadOrNone /\ Held(h)
  BY DEF Backfill, IInv, TypeOK, FinalInv, HeadOrNone
<1>4. fin.head \in Blocks /\ Solid(fin.head) /\ fin.linked \subseteq On(fin.head)
  BY <1>3, CalculateSolid
<1>5. ~Conflict(fin, PreviouslyFinalized(backfillMB.prev))
  BY <1>4, NoConflict
<1>6. alarm' = FALSE
  BY <1>1, <1>5 DEF IInv, FinalInv
<1>7. bf' = bf \/ bf' = [pc |-> "walk", head |-> h, final |-> fin.head]
  BY <1>1
<1>8. trouble' \in 0..MaxTrouble
  BY <1>1 DEF Fails, IInv, TypeOK
<1> HIDE DEF h
<1>9. bf' \in [pc : {"idle", "walk"}, head : HeadOrNone, final : HeadOrNone]
  BY <1>3, <1>4, <1>7 DEF IInv, TypeOK, HeadOrNone
<1>10. backfillMB' \in [head : HeadOrNone, prev : HeadOrNone] /\ backfillMB'.head = NoHead
  BY <1>2 DEF HeadOrNone
<1>11. TypeOK' /\ SubInv' /\ FeedInv'
  BY <1>2, <1>6, <1>8, <1>9, <1>10 DEF IInv, TypeOK, SubInv, FeedInv, listening, saver, Num
<1>12. FinalInv'
  <2>1. Irreversible' = Irreversible
    BY <1>2 DEF Irreversible
  <2>2. UNCHANGED <<tip, chHeaders, lhead, finalized>>
    BY <1>2 DEF listening, saver
  <2>3. bf'.pc = "walk" => bf'.head \in Blocks /\ bf'.final \in Blocks /\ Solid(bf'.final)
    BY <1>3, <1>4, <1>7 DEF IInv, FinalInv
  <2>4. Held(backfillMB'.head)
    BY <1>10, NoneHeld DEF Held
  <2> QED
    BY <1>6, <2>1, <2>2, <2>3, <2>4 DEF IInv, FinalInv, Solid, Held
<1> QED
  BY <1>11, <1>12 DEF IInv

LEMMA FetchAndSaveHeadStep == ASSUME IInv, fetchAndSaveHead PROVE IInv'
<1> DEFINE p == At(bf.head, Num(bf.head) - 1)
<1>1. PICK f \in BOOLEAN :
         /\ Fails(f)
         /\ IF f THEN bf' = Idle /\ UNCHANGED <<saved, latestChain>>
            ELSE /\ bf' = [bf EXCEPT !.head = p]
                 /\ IF p \in saved THEN UNCHANGED <<saved, latestChain>> ELSE Save(p)
  BY DEF fetchAndSaveHead
<1>2. /\ bf.pc = "walk" /\ Num(bf.head) > Num(bf.final)
      /\ UNCHANGED <<config, tip, stopped, stored, listening, finalized, backfillMB, alarm, sent>>
  BY DEF fetchAndSaveHead
<1>3. bf.head \in Blocks /\ bf.final \in Blocks /\ Solid(bf.final)
  BY <1>2 DEF IInv, FinalInv
<1>4. p \in Blocks /\ p \in HeadOrNone
  <2>1. Num(bf.head) - 1 \in 0..Num(bf.head)
    BY <1>2, <1>3, Numbers
  <2> QED
    BY <1>3, <2>1, AtFacts, OnBasics DEF HeadOrNone
<1> HIDE DEF p
<1>5. /\ saved \subseteq saved' /\ saved' \subseteq Blocks /\ latestChain' \in HeadOrNone
      /\ Num(latestChain') >= Num(latestChain)
  <2>1. Num(latestChain) \in Int /\ latestChain \in HeadOrNone /\ saved \subseteq Blocks
    BY Numbers DEF IInv, TypeOK
  <2>2. CASE UNCHANGED <<saved, latestChain>>
    BY <2>1, <2>2
  <2>3. CASE Save(p)
    BY <1>4, <2>1, <2>3, SaveRaises
  <2> QED
    BY <1>1, <2>2, <2>3
<1>6. /\ bf' \in [pc : {"idle", "walk"}, head : HeadOrNone, final : HeadOrNone]
      /\ bf'.pc = "walk" => bf'.head \in Blocks /\ bf'.final = bf.final
  <2>1. bf \in [pc : {"idle", "walk"}, head : HeadOrNone, final : HeadOrNone]
    BY DEF IInv, TypeOK
  <2>2. CASE bf' = Idle
    BY <2>2 DEF Idle, HeadOrNone
  <2>3. CASE bf' = [bf EXCEPT !.head = p]
    BY <1>4, <2>1, <2>3
  <2> QED
    BY <1>1, <2>2, <2>3
<1>7. trouble' \in 0..MaxTrouble
  BY <1>1 DEF Fails, IInv, TypeOK
<1>8. TypeOK' /\ SubInv'
  BY <1>2, <1>5, <1>6, <1>7 DEF IInv, TypeOK, SubInv, listening
<1>9. FeedInv'
  <2>1. Num(latestChain) \in Int /\ Num(sent) \in Int /\ Num(latestChain') \in Int
    BY <1>5, Numbers DEF IInv, TypeOK
  <2>2. Num(sent) <= Num(latestChain')
    BY <1>5, <2>1 DEF IInv, FeedInv
  <2> QED
    BY <1>2, <2>2 DEF IInv, FeedInv, listening, Num
<1>10. FinalInv'
  <2>1. Irreversible' = Irreversible
    BY <1>2 DEF Irreversible
  <2>2. UNCHANGED <<tip, chHeaders, lhead, finalized, backfillMB, alarm>>
    BY <1>2 DEF listening
  <2> QED
    BY <1>3, <1>6, <2>1, <2>2 DEF IInv, FinalInv, Solid, Held
<1> QED
  BY <1>8, <1>9, <1>10 DEF IInv

LEMMA MarkFinalizedStep == ASSUME IInv, MarkFinalized PROVE IInv'
<1>1. PICK f \in BOOLEAN :
         /\ Fails(f)
         /\ finalized' = IF bf.head = bf.final /\ ~f
                         THEN finalized \cup (Chain(bf.final) \cap saved) ELSE finalized
  BY DEF MarkFinalized
<1>2. /\ bf.pc = "walk" /\ bf' = Idle
      /\ UNCHANGED <<config, tip, stopped, stored, listening, saved, latestChain, backfillMB, alarm, sent>>
  BY DEF MarkFinalized
<1>3. \A c \in Chain(bf.final) : Solid(c)
  <2>1. tip \in Blocks /\ Irreversible \in Nat /\ Solid(bf.final)
    BY <1>2, IrreversibleNat DEF IInv, TypeOK, FinalInv
  <2> QED
    BY <2>1, SolidBelow DEF Chain, Solid
<1>4. finalized' \subseteq saved /\ \A c \in finalized' : Solid(c)
  BY <1>1, <1>3 DEF IInv, TypeOK, FinalInv
<1>5. /\ bf' \in [pc : {"idle", "walk"}, head : HeadOrNone, final : HeadOrNone]
      /\ bf'.pc = "idle"
  BY <1>2 DEF Idle, HeadOrNone
<1>6. trouble' \in 0..MaxTrouble
  BY <1>1 DEF Fails, IInv, TypeOK
<1>7. TypeOK' /\ SubInv' /\ FeedInv'
  BY <1>2, <1>4, <1>5, <1>6 DEF IInv, TypeOK, SubInv, FeedInv, listening, Num
<1>8. FinalInv'
  <2>1. Irreversible' = Irreversible
    BY <1>2 DEF Irreversible
  <2>2. UNCHANGED <<tip, chHeaders, lhead, backfillMB, alarm>>
    BY <1>2 DEF listening
  <2> QED
    BY <1>4, <1>5, <2>1, <2>2 DEF IInv, FinalInv, Solid, Held
<1> QED
  BY <1>7, <1>8 DEF IInv

-----------------------------------------------------------------------------
LEMMA InitIInv == Init => IInv
<1> SUFFICES ASSUME Init PROVE IInv
  OBVIOUS
<1>1. tip \in Blocks /\ stored \subseteq Blocks /\ NoHead \in HeadOrNone
  BY DEF Init, InitChain, HeadOrNone
<1>2. TypeOK
  <2>1. lhead \in [head : HeadOrNone, prev : HeadOrNone, initial : BOOLEAN]
    BY <1>1 DEF Init
  <2>2. /\ backfillMB \in [head : HeadOrNone, prev : HeadOrNone]
        /\ bf \in [pc : {"idle", "walk"}, head : HeadOrNone, final : HeadOrNone]
    BY <1>1 DEF Init
  <2>3. trouble \in 0..MaxTrouble /\ open \in 0..MaxTrouble + 2
    BY DEF Init
  <2>4. /\ config \in Configs /\ tip \in Blocks /\ chHeaders \in HeadOrNone
        /\ saved \subseteq Blocks /\ latestChain \in HeadOrNone /\ finalized \subseteq saved
        /\ sent \in HeadOrNone /\ stored \subseteq Blocks
    BY <1>1 DEF Init, InitChain
  <2> QED
    BY <2>1, <2>2, <2>3, <2>4 DEF Init, TypeOK
<1>3. SubInv /\ FeedInv
  BY Numbers DEF Init, SubInv, FeedInv
<1>4. FinalInv
  BY NoneHeld DEF Init, FinalInv, Held
<1> QED
  BY <1>2, <1>3, <1>4 DEF IInv

LEMMA NextIInv == IInv /\ [Next]_vars => IInv'
BY SubscriptionSteps, HandleInitialHeadStep, ReceiveHeadersStep, HandleNewHeadStep, GrowStep,
   EmitStep, QuietStep, BackfillStep, FetchAndSaveHeadStep, MarkFinalizedStep DEF Next

\* The invariant holds along every behaviour.
THEOREM Invariance == Spec => []IInv
BY InitIInv, NextIInv, PTL DEF Spec

\* The client never holds more than one subscription open for the listener, and
\* none once the listener has returned.
THEOREM OneSubscriptionAtATime == Spec => []SubscribedOnce
<1>1. IInv => SubscribedOnce
  BY DEF IInv, SubInv, TypeOK, SubscribedOnce, OneSubscription
<1> QED
  BY <1>1, Invariance, PTL

\* Backfill marks only irreversible heads, and its own check never reports a
\* violation of finality on a chain that keeps its promise.
THEOREM Finality == Spec => []FinalityHolds
<1>1. IInv => FinalityHolds
  <2> SUFFICES ASSUME IInv PROVE FinalityHolds
    OBVIOUS
  <2>1. ASSUME NEW c \in finalized
        PROVE  c \in On(tip) /\ (Num(c) <= Num(tip) - Irreversible \/ Num(c) = 0)
    BY DEF IInv, FinalInv, Solid, SolidAt
  <2> QED
    BY <2>1 DEF IInv, FinalInv, FinalityHolds, FinalizedIsFinal, NoFalseAlarm
<1> QED
  BY <1>1, Invariance, PTL

\* The tracker implements the feed of rising heads that the broadcaster starts
\* from: every step delivers a higher head or none.
THEOREM ImplementsFeed == Spec => FeedsRisingHeads
<1>1. Init => Feed!FeedInit
  BY DEF Init, Feed!FeedInit
<1>2. ASSUME IInv, [Next]_vars PROVE [Feed!FeedNext]_sent
  <2>1. CASE handleNewHead
    BY <1>2, <2>1, HandleNewHeadStep DEF Feed!FeedNext, Feed!DeliverHead, Num
  <2>2. CASE UNCHANGED vars
    BY <2>2 DEF vars
  <2>3. CASE Next /\ ~handleNewHead
    BY <2>3 DEF Next, Grow, Stop, Emit, Unsubscribe, subscribeToHead, ListenerExits,
       SubscriptionBreaks, handleInitialHead, receiveHeaders, Backfill, fetchAndSaveHead,
       MarkFinalized
  <2> QED
    BY <1>2, <2>1, <2>2, <2>3
<1> QED
  BY <1>1, <1>2, Invariance, PTL DEF Spec, FeedsRisingHeads, Feed!FeedSpec

-----------------------------------------------------------------------------
(***************************************************************************)
(* What subscribers are told (HeadBroadcaster), for every number of        *)
(* subscribers, every capacity of the mailbox and every length of the chain.*)
(*                                                                         *)
(* The argument is that the heads on their way are ordered: what the       *)
(* broadcaster took last is below what is in its slot, that is below what  *)
(* is in the tracker's mailbox, and that rises up to the last head         *)
(* delivered.  A round of callbacks is always a round for the latest head. *)
(***************************************************************************)

\* The heads on their way are ordered by block number.
InOrder ==
    /\ \A i, j \in DOMAIN broadcastMB : i < j => Number(broadcastMB[i]) < Number(broadcastMB[j])
    /\ \A i \in DOMAIN broadcastMB : /\ Number(broadcastMB[i]) <= Number(delivered)
                                     /\ Number(mailbox) < Number(broadcastMB[i])
                                     /\ Number(latest) < Number(broadcastMB[i])
    /\ mailbox # None => Number(latest) < Number(mailbox)
    /\ Number(mailbox) <= Number(delivered)
    /\ Number(latest) <= Number(delivered)

\* A round is a round for the latest head, and only a round has callbacks
\* running; a subscriber whose callback runs knows of an older head, or of the
\* latest one if it subscribed during the round.
InRound ==
    /\ round # None => round = latest
    /\ calling # {} => round # None
    /\ \A s \in callbacks \cap calling :
          told[s] = latest \/ Number(told[s]) < Number(latest)

BroadcastInv == BroadcasterTypeOK /\ InOrder /\ InRound /\ NoneMissed

-----------------------------------------------------------------------------
LEMMA HeadNumbers ==
    /\ \A h \in Heads : Number(h) \in Nat /\ Number(h) <= MaxHeight /\ h # None
    /\ Number(None) = -1
    /\ \A h \in MaybeHead : Number(h) \in Int /\ Number(h) >= -1
BY DEF Heads, None, Number, MaybeHead

\* What the mailbox holds after a delivery.
LEMMA KeepFacts ==
    ASSUME NEW q \in Seq(Heads), NEW h \in Heads, Len(q) <= HeadsBufferSize
    PROVE  /\ Keep(Append(q, h)) \in Seq(Heads)
           /\ Len(Keep(Append(q, h))) <= HeadsBufferSize
           /\ \E k \in {0, 1} :
                 /\ Len(Keep(Append(q, h))) = Len(q) + 1 - k
                 /\ \A i \in DOMAIN Keep(Append(q, h)) :
                       Keep(Append(q, h))[i] = IF i + k = Len(q) + 1 THEN h ELSE q[i + k]
<1> DEFINE a == Append(q, h)
<1>1. a \in Seq(Heads) /\ Len(a) = Len(q) + 1 /\ a # <<>>
  <2>1. a \in Seq(Heads) /\ Len(a) = Len(q) + 1
    OBVIOUS
  <2> HIDE DEF a
  <2>2. Len(a) # 0
    BY <2>1
  <2> QED
    BY <2>1, <2>2
<1>2. \A i \in 1..Len(a) : a[i] = IF i = Len(q) + 1 THEN h ELSE q[i]
  OBVIOUS
<1>3. CASE Len(a) > HeadsBufferSize
  <2>1. Tail(a) \in Seq(Heads) /\ Len(Tail(a)) = Len(q)
    BY <1>1
  <2>2. \A i \in 1..Len(Tail(a)) : Tail(a)[i] = a[i + 1]
    BY <1>1
  <2>3. Keep(a) = Tail(a)
    BY <1>3 DEF Keep
  <2> HIDE DEF a
  <2>4. \A i \in DOMAIN Tail(a) : Tail(a)[i] = IF i + 1 = Len(q) + 1 THEN h ELSE q[i + 1]
    BY <1>1, <1>2, <2>1, <2>2
  <2> QED
    BY <1>3, <2>1, <2>3, <2>4 DEF a
<1>4. CASE ~(Len(a) > HeadsBufferSize)
  <2>1. Keep(a) = a
    BY <1>4 DEF Keep
  <2> HIDE DEF a
  <2> QED
    BY <1>1, <1>2, <1>4, <2>1 DEF a
<1> QED
  BY <1>3, <1>4

LEMMA DeliverStep == ASSUME BroadcastInv, Deliver PROVE BroadcastInv'
<1>1. PICK h \in Heads : Number(h) > Number(delivered) /\ delivered' = h
  BY DEF Deliver, Source!FeedNext, Source!DeliverHead, Number
<1>2. PICK k \in {0, 1} :
         /\ broadcastMB' \in Seq(Heads) /\ Len(broadcastMB') <= HeadsBufferSize
         /\ Len(broadcastMB') = Len(broadcastMB) + 1 - k
         /\ \A i \in DOMAIN broadcastMB' :
               broadcastMB'[i] = IF i + k = Len(broadcastMB) + 1 THEN h ELSE broadcastMB[i + k]
  <2>1. broadcastMB' = Keep(Append(broadcastMB, h))
    BY <1>1 DEF Deliver
  <2>2. broadcastMB \in Seq(Heads) /\ Len(broadcastMB) <= HeadsBufferSize
    BY DEF BroadcastInv, BroadcasterTypeOK
  <2> DEFINE b == Keep(Append(broadcastMB, h))
  <2>3. /\ b \in Seq(Heads) /\ Len(b) <= HeadsBufferSize
        /\ \E k \in {0, 1} :
              /\ Len(b) = Len(broadcastMB) + 1 - k
              /\ \A i \in DOMAIN b :
                    b[i] = IF i + k = Len(broadcastMB) + 1 THEN h ELSE broadcastMB[i + k]
    BY <2>2, KeepFacts, Zenon
  <2> HIDE DEF b
  <2> QED
    BY <2>1, <2>3 DEF b
<1>3. UNCHANGED <<sampling, draining, trackerUp, slot, calls>> /\ notify' = TRUE
  BY DEF Deliver
<1>4. BroadcasterTypeOK'
  BY <1>1, <1>2, <1>3 DEF BroadcastInv, BroadcasterTypeOK, MaybeHead, slot, calls
<1>5. InOrder'
  <2>1. \A i \in DOMAIN broadcastMB' :
           \/ broadcastMB'[i] = h /\ i + k = Len(broadcastMB) + 1
           \/ i + k \in DOMAIN broadcastMB /\ broadcastMB'[i] = broadcastMB[i + k]
    BY <1>2 DEF BroadcastInv, BroadcasterTypeOK
  <2>2. /\ Number(h) \in Int /\ Number(delivered) \in Int /\ Number(mailbox) \in Int /\ Number(latest) \in Int
        /\ \A i \in DOMAIN broadcastMB : Number(broadcastMB[i]) \in Int
    BY <1>1, HeadNumbers DEF BroadcastInv, BroadcasterTypeOK
  <2>3. mailbox' = mailbox /\ latest' = latest
    BY <1>3 DEF slot, calls
  <2>4. Number(mailbox) <= Number(delivered) /\ Number(latest) <= Number(delivered)
        /\ (mailbox # None => Number(latest) < Number(mailbox))
    BY DEF BroadcastInv, InOrder
  <2>5. \A i, j \in DOMAIN broadcastMB' : i < j => Number(broadcastMB'[i]) < Number(broadcastMB'[j])
    <3> SUFFICES ASSUME NEW i \in DOMAIN broadcastMB', NEW j \in DOMAIN broadcastMB', i < j
                 PROVE  Number(broadcastMB'[i]) < Number(broadcastMB'[j])
      OBVIOUS
    <3>1. i \in Nat /\ j \in Nat /\ k \in Int /\ j + k <= Len(broadcastMB) + 1 /\ Len(broadcastMB) \in Nat
      BY <1>2 DEF BroadcastInv, BroadcasterTypeOK
    <3>2. i + k \in DOMAIN broadcastMB /\ broadcastMB'[i] = broadcastMB[i + k]
      BY <2>1, <3>1
    <3>3. CASE broadcastMB'[j] = h
      BY <3>2, <3>3, <1>1, <2>2 DEF BroadcastInv, InOrder
    <3>4. CASE j + k \in DOMAIN broadcastMB /\ broadcastMB'[j] = broadcastMB[j + k]
      BY <3>1, <3>2, <3>4 DEF BroadcastInv, InOrder
    <3> QED
      BY <2>1, <3>3, <3>4
  <2>6. \A i \in DOMAIN broadcastMB' : /\ Number(broadcastMB'[i]) <= Number(delivered')
                                       /\ Number(mailbox) < Number(broadcastMB'[i])
                                       /\ Number(latest) < Number(broadcastMB'[i])
    BY <1>1, <2>1, <2>2, <2>4 DEF BroadcastInv, InOrder
  <2> QED
    BY <1>1, <2>2, <2>3, <2>4, <2>5, <2>6 DEF InOrder, Number
<1>6. InRound' /\ NoneMissed'
  BY <1>3 DEF BroadcastInv, InRound, NoneMissed, calls, Number
<1> QED
  BY <1>4, <1>5, <1>6 DEF BroadcastInv

\* Passing h on to the broadcaster's slot and keeping q of the mailbox, where
\* h is above all the broadcaster had and below all of q.
LEMMA ForwardStep ==
    ASSUME BroadcastInv, NEW h \in Heads, NEW q \in Seq(Heads),
           Len(q) <= Len(broadcastMB),
           \A i, j \in DOMAIN q : i < j => Number(q[i]) < Number(q[j]),
           \A i \in DOMAIN q : Number(h) < Number(q[i]) /\ Number(q[i]) <= Number(delivered),
           Number(latest) < Number(h), Number(h) <= Number(delivered),
           mailbox' = h, mnotify' = TRUE, broadcastMB' = q,
           draining' \in BOOLEAN, UNCHANGED <<feed, notify, calls>>
    PROVE  BroadcastInv'
<1>1. BroadcasterTypeOK'
  BY DEF BroadcastInv, BroadcasterTypeOK, MaybeHead, feed, calls
<1>2. InOrder'
  <2>1. Number(h) \in Int /\ Number(latest) \in Int /\ \A i \in DOMAIN q : Number(q[i]) \in Int
    BY HeadNumbers DEF BroadcastInv, BroadcasterTypeOK
  <2>2. delivered' = delivered /\ latest' = latest
    BY DEF feed, calls
  <2>3. Number(latest) <= Number(delivered)
    BY DEF BroadcastInv, InOrder
  <2> QED
    BY <2>1, <2>2, <2>3 DEF InOrder, Number
<1>3. InRound' /\ NoneMissed'
  BY DEF BroadcastInv, InRound, NoneMissed, calls, Number
<1> QED
  BY <1>1, <1>2, <1>3 DEF BroadcastInv

LEMMA RetrieveStep == ASSUME BroadcastInv, Retrieve PROVE BroadcastInv'
<1>1. CASE broadcastMB = <<>>
  <2>1. draining' = FALSE /\ UNCHANGED <<broadcastMB, slot, feed, notify, calls>>
    BY <1>1 DEF Retrieve
  <2> QED
    BY <2>1 DEF BroadcastInv, BroadcasterTypeOK, InOrder, InRound, NoneMissed, slot, feed, calls,
       Number
<1>2. CASE broadcastMB # <<>>
  <2> DEFINE h == Head(broadcastMB)
             q == Tail(broadcastMB)
  <2>1. broadcastMB \in Seq(Heads) /\ Len(broadcastMB) >= 1
    BY <1>2 DEF BroadcastInv, BroadcasterTypeOK
  <2>2. /\ h \in Heads /\ h = broadcastMB[1] /\ 1 \in DOMAIN broadcastMB
        /\ q \in Seq(Heads) /\ Len(q) = Len(broadcastMB) - 1
        /\ \A i \in DOMAIN q : i + 1 \in DOMAIN broadcastMB /\ q[i] = broadcastMB[i + 1]
    BY <2>1
  <2>3. /\ mailbox' = h /\ mnotify' = TRUE /\ broadcastMB' = q
        /\ UNCHANGED <<feed, notify, calls>> /\ draining' \in BOOLEAN
    BY <1>2 DEF Retrieve, BroadcastNewLongestChain, BroadcastInv, BroadcasterTypeOK
  <2> HIDE DEF h, q
  <2>4. \A i \in DOMAIN q : i \in Int /\ i >= 1
    BY <2>2
  <2>5. \A i, j \in DOMAIN q : i < j => Number(q[i]) < Number(q[j])
    BY <2>2, <2>4 DEF BroadcastInv, InOrder
  <2>6. \A i \in DOMAIN q : Number(h) < Number(q[i]) /\ Number(q[i]) <= Number(delivered)
    BY <2>2, <2>4 DEF BroadcastInv, InOrder
  <2>7. Number(latest) < Number(h) /\ Number(h) <= Number(delivered) /\ Len(q) <= Len(broadcastMB)
    BY <2>1, <2>2 DEF BroadcastInv, InOrder
  <2> QED
    BY <2>2, <2>3, <2>5, <2>6, <2>7, ForwardStep
<1> QED
  BY <1>1, <1>2

LEMMA SampleStep == ASSUME BroadcastInv, Sample PROVE BroadcastInv'
<1> DEFINE h == broadcastMB[Len(broadcastMB)]
<1>1. Len(broadcastMB) \in DOMAIN broadcastMB /\ h \in Heads
  BY DEF Sample, BroadcastInv, BroadcasterTypeOK
<1>2. /\ mailbox' = h /\ mnotify' = TRUE /\ broadcastMB' = <<>>
      /\ UNCHANGED <<feed, notify, calls>> /\ draining' \in BOOLEAN
  BY DEF Sample, RetrieveLatestAndClear, BroadcastNewLongestChain, BroadcastInv, BroadcasterTypeOK
<1>3. Number(latest) < Number(h) /\ Number(h) <= Number(delivered)
  BY <1>1 DEF BroadcastInv, InOrder
<1>4. <<>> \in Seq(Heads) /\ Len(<<>>) = 0 /\ DOMAIN <<>> = {} /\ 0 <= Len(broadcastMB)
  BY DEF BroadcastInv, BroadcasterTypeOK
<1> HIDE DEF h
<1> QED
  BY <1>1, <1>2, <1>3, <1>4, ForwardStep

-----------------------------------------------------------------------------
(* The broadcaster.                                                        *)

LEMMA ExecuteCallbacksStep == ASSUME BroadcastInv, executeCallbacks PROVE BroadcastInv'
<1>1. /\ mnotify' = FALSE /\ mailbox' = None
      /\ UNCHANGED <<feed, forwarding, callbacks, up, told>>
      /\ round = None /\ calling = {}
  BY DEF executeCallbacks, BroadcastInv, InRound
<1>2. Number(None) = -1 /\ None \in MaybeHead
  BY HeadNumbers DEF MaybeHead
<1>3. /\ Number(latest) \in Int /\ Number(mailbox) \in Int /\ Number(delivered) \in Int
      /\ Number(delivered) >= -1
      /\ \A i \in DOMAIN broadcastMB : Number(broadcastMB[i]) \in Nat
  BY HeadNumbers DEF BroadcastInv, BroadcasterTypeOK
<1>4. CASE mailbox = None
  <2>1. UNCHANGED <<latest, round, calling>>
    BY <1>4 DEF executeCallbacks
  <2>2. BroadcasterTypeOK' /\ InRound' /\ NoneMissed'
    BY <1>1, <1>2, <2>1 DEF BroadcastInv, BroadcasterTypeOK, InRound, NoneMissed, feed, forwarding,
       Number
  <2>3. InOrder'
    BY <1>1, <1>4, <2>1 DEF BroadcastInv, InOrder, feed, forwarding, Number
  <2> QED
    BY <2>2, <2>3 DEF BroadcastInv
<1>5. CASE mailbox # None
  <2>1. latest' = mailbox /\ round' = mailbox /\ calling' = callbacks
    BY <1>5 DEF executeCallbacks, TakeHead
  <2>2. BroadcasterTypeOK'
    BY <1>1, <1>2, <2>1 DEF BroadcastInv, BroadcasterTypeOK, feed, forwarding
  <2>3. InOrder'
    <3>1. /\ \A i \in DOMAIN broadcastMB : Number(None) < Number(broadcastMB[i])
          /\ Number(None) <= Number(delivered)
      BY <1>2, <1>3
    <3> HIDE DEF None, Number
    <3>2. broadcastMB' = broadcastMB /\ delivered' = delivered
      BY <1>1 DEF feed, forwarding
    <3> QED
      BY <1>1, <1>5, <2>1, <3>1, <3>2 DEF BroadcastInv, InOrder
  <2>4. InRound' /\ NoneMissed'
    BY <1>1, <1>5, <2>1 DEF BroadcastInv, InOrder, InRound, NoneMissed, Number
  <2> QED
    BY <2>2, <2>3, <2>4 DEF BroadcastInv
<1> QED
  BY <1>4, <1>5

LEMMA CallbackStep ==
    ASSUME BroadcastInv, NEW s \in Subscribers, OnNewLongestChain(s)
    PROVE  BroadcastInv'
<1>1. /\ s \in calling /\ calling' = calling \ {s}
      /\ told' = IF s \in callbacks THEN [told EXCEPT ![s] = round] ELSE told
      /\ UNCHANGED <<feed, forwarding, slot, latest, callbacks, round, up>>
  BY DEF OnNewLongestChain
<1>2. round = latest /\ round # None
  BY <1>1 DEF BroadcastInv, InRound
<1>3. BroadcasterTypeOK'
  BY <1>1 DEF BroadcastInv, BroadcasterTypeOK, feed, forwarding, slot
<1>4. InOrder'
  BY <1>1 DEF BroadcastInv, InOrder, feed, forwarding, slot, Number
<1>5. \A t \in callbacks : t # s => told'[t] = told[t]
  BY <1>1 DEF BroadcastInv, BroadcasterTypeOK
<1>6. s \in callbacks => told'[s] = latest
  BY <1>1, <1>2 DEF BroadcastInv, BroadcasterTypeOK
<1>7. InRound' /\ NoneMissed'
  BY <1>1, <1>2, <1>5, <1>6 DEF BroadcastInv, InRound, NoneMissed, Number
<1> QED
  BY <1>3, <1>4, <1>7 DEF BroadcastInv

LEMMA SubscribeStep ==
    ASSUME BroadcastInv, NEW s \in Subscribers, Subscribe(s)
    PROVE  BroadcastInv'
<1>1. /\ callbacks' = callbacks \cup {s} /\ told' = [told EXCEPT ![s] = latest]
      /\ UNCHANGED <<feed, forwarding, slot, latest, round, calling, up>>
  BY DEF Subscribe
<1>2. told'[s] = latest /\ \A t \in callbacks : t # s => told'[t] = told[t]
  BY <1>1 DEF BroadcastInv, BroadcasterTypeOK
<1>3. BroadcasterTypeOK' /\ InOrder'
  BY <1>1 DEF BroadcastInv, BroadcasterTypeOK, InOrder, feed, forwarding, slot, Number
<1>4. InRound' /\ NoneMissed'
  BY <1>1, <1>2 DEF BroadcastInv, InRound, NoneMissed, Number
<1> QED
  BY <1>3, <1>4 DEF BroadcastInv

LEMMA UnsubscribeStep ==
    ASSUME BroadcastInv, NEW s \in Subscribers, UnsubscribeCallback(s)
    PROVE  BroadcastInv'
<1>1. /\ callbacks' = callbacks \ {s} /\ told' = [told EXCEPT ![s] = None]
      /\ UNCHANGED <<feed, forwarding, slot, latest, round, calling, up>>
  BY DEF UnsubscribeCallback
<1>2. \A t \in callbacks' : told'[t] = told[t]
  BY <1>1 DEF BroadcastInv, BroadcasterTypeOK
<1>3. BroadcasterTypeOK' /\ InOrder'
  BY <1>1 DEF BroadcastInv, BroadcasterTypeOK, InOrder, MaybeHead, feed, forwarding, slot, Number
<1>4. InRound' /\ NoneMissed'
  BY <1>1, <1>2 DEF BroadcastInv, InRound, NoneMissed, Number
<1> QED
  BY <1>3, <1>4 DEF BroadcastInv

LEMMA CloseStep == ASSUME BroadcastInv, Close PROVE BroadcastInv'
<1>1. /\ callbacks' = {} /\ told' = [s \in Subscribers |-> None] /\ up' = FALSE
      /\ UNCHANGED <<feed, forwarding, slot, latest, round, calling>>
  BY DEF Close
<1>2. BroadcasterTypeOK'
  BY <1>1 DEF BroadcastInv, BroadcasterTypeOK, MaybeHead, feed, forwarding, slot
<1>3. InOrder' /\ InRound' /\ NoneMissed'
  BY <1>1 DEF BroadcastInv, InOrder, InRound, NoneMissed, feed, forwarding, slot
<1> QED
  BY <1>2, <1>3 DEF BroadcastInv

\* Steps that move no head.
LEMMA QuietRoundStep ==
    ASSUME BroadcastInv, TrackerCloses \/ broadcastLoop \/ EndRound \/ UNCHANGED broadcasting
    PROVE  BroadcastInv'
<1>1. CASE TrackerCloses \/ broadcastLoop \/ UNCHANGED broadcasting
  <2>1. /\ UNCHANGED <<sampling, delivered, broadcastMB, slot, calls>>
        /\ notify' \in BOOLEAN /\ draining' \in BOOLEAN /\ trackerUp' \in BOOLEAN
    BY <1>1 DEF TrackerCloses, broadcastLoop, broadcasting, feed, forwarding, BroadcastInv,
       BroadcasterTypeOK
  <2> QED
    BY <2>1 DEF BroadcastInv, BroadcasterTypeOK, InOrder, InRound, NoneMissed, slot, calls, Number
<1>2. CASE EndRound
  <2>1. /\ round' = None /\ calling = {}
        /\ UNCHANGED <<feed, forwarding, slot, latest, callbacks, calling, up, told>>
    BY <1>2 DEF EndRound
  <2> QED
    BY <2>1 DEF BroadcastInv, BroadcasterTypeOK, InOrder, InRound, NoneMissed, MaybeHead, feed,
       forwarding, slot, Number
<1> QED
  BY <1>1, <1>2

-----------------------------------------------------------------------------
LEMMA BroadcastInit == ASSUME BroadcasterInit PROVE BroadcastInv
<1>1. BroadcasterTypeOK
  <2>1. broadcastMB \in Seq(Heads) /\ Len(broadcastMB) <= HeadsBufferSize
    BY DEF BroadcasterInit
  <2>2. /\ delivered \in MaybeHead /\ mailbox \in MaybeHead
        /\ latest \in MaybeHead /\ round \in MaybeHead
        /\ told \in [Subscribers -> MaybeHead]
    BY DEF BroadcasterInit, Source!FeedInit, MaybeHead
  <2>3. callbacks \subseteq Subscribers /\ calling \subseteq Subscribers
    BY DEF BroadcasterInit
  <2> QED
    BY <2>1, <2>2, <2>3 DEF BroadcasterInit, BroadcasterTypeOK
<1>2. InOrder
  BY HeadNumbers DEF BroadcasterInit, Source!FeedInit, InOrder
<1>3. InRound /\ NoneMissed
  BY DEF BroadcasterInit, InRound, NoneMissed
<1> QED
  BY <1>1, <1>2, <1>3 DEF BroadcastInv

LEMMA BroadcastNext == ASSUME BroadcastInv, [BroadcasterNext]_broadcasting PROVE BroadcastInv'
BY DeliverStep, RetrieveStep, SampleStep, ExecuteCallbacksStep, CallbackStep, SubscribeStep,
   UnsubscribeStep, CloseStep, QuietRoundStep DEF BroadcasterNext

\* The heads on their way stay in order, whatever the mailboxes drop.
THEOREM BroadcastInvariance == BroadcasterSpec => []BroadcastInv
<1>1. BroadcasterInit => BroadcastInv
  BY BroadcastInit
<1>2. BroadcastInv /\ [BroadcasterNext]_broadcasting => BroadcastInv'
  BY BroadcastNext
<1> QED
  BY <1>1, <1>2, PTL DEF BroadcasterSpec

\* Nobody falls between the copy of the callbacks and the latest head.
THEOREM NobodyMisses == BroadcasterSpec => []NoneMissed
<1>1. BroadcastInv => NoneMissed
  BY DEF BroadcastInv
<1> QED
  BY <1>1, BroadcastInvariance, PTL

\* What a step tells a subscriber that stays subscribed is what it knew, or a
\* higher head.
LEMMA TellsHigher ==
    ASSUME BroadcastInv, BroadcasterNext, NEW s \in callbacks \cap callbacks'
    PROVE  told'[s] = told[s] \/ Number(told'[s]) > Number(told[s])
<1>1. CASE \E t \in Subscribers : OnNewLongestChain(t)
  <2>1. PICK t \in Subscribers : OnNewLongestChain(t)
    BY <1>1
  <2>2. CASE s # t
    BY <2>1, <2>2 DEF OnNewLongestChain, BroadcastInv, BroadcasterTypeOK
  <2>3. CASE s = t
    <3>1. told'[s] = latest /\ s \in calling
      BY <2>1, <2>3 DEF OnNewLongestChain, BroadcastInv, InRound, BroadcasterTypeOK
    <3>2. told[s] = latest \/ Number(told[s]) < Number(latest)
      BY <3>1 DEF BroadcastInv, InRound
    <3>3. Number(told[s]) \in Int /\ Number(latest) \in Int
      BY HeadNumbers DEF BroadcastInv, BroadcasterTypeOK
    <3> HIDE DEF Number
    <3> QED
      BY <3>1, <3>2, <3>3
  <2> QED
    BY <2>2, <2>3
<1>2. CASE \E t \in Subscribers : Subscribe(t) \/ UnsubscribeCallback(t)
  BY <1>2 DEF Subscribe, UnsubscribeCallback, BroadcastInv, BroadcasterTypeOK
<1>3. CASE Close
  BY <1>3 DEF Close
<1>4. CASE Deliver \/ TrackerCloses \/ broadcastLoop \/ Retrieve \/ Sample \/ executeCallbacks
           \/ EndRound
  <2>1. told' = told
    BY <1>4 DEF Deliver, TrackerCloses, broadcastLoop, Retrieve, Sample, executeCallbacks,
       EndRound, calls
  <2> QED
    BY <2>1
<1> QED
  BY <1>1, <1>2, <1>3, <1>4 DEF BroadcasterNext

\* Block numbers rise for every subscriber, for as long as it stays subscribed.
THEOREM ToldInOrder == BroadcasterSpec => ToldRises
<1>1. ASSUME BroadcastInv, [BroadcasterNext]_broadcasting
      PROVE  [\A s \in callbacks \cap callbacks' :
                 told'[s] = told[s] \/ Number(told'[s]) > Number(told[s])]_broadcasting
  <2>1. CASE BroadcasterNext
    BY <1>1, <2>1, TellsHigher
  <2> QED
    BY <1>1, <2>1
<1> QED
  BY <1>1, BroadcastInvariance, PTL DEF BroadcasterSpec, ToldRises

=============================================================================
