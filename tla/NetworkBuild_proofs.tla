------------------------- MODULE NetworkBuild_proofs -------------------------
(***************************************************************************)
(* Proofs about NetworkBuild.                                              *)
(***************************************************************************)
EXTENDS NetworkBuild, FiniteSetTheorems, SequenceTheorems, TLAPS

F == INSTANCE FoldLemmas WITH Op <- FirstPass
A == INSTANCE FoldLemmas WITH Op <- AttachOne
S == INSTANCE FoldLemmas WITH Op <- Sort

(***************************************************************************)
(* What a network is, whatever rules it was built from.                    *)
(***************************************************************************)
IdsOf(n)    == 1 .. n.next - 1
AlphasOf(n) == DOMAIN n.patternOf
BetasOf(n)  == DOMAIN n.parents

Fields == {"next", "nodes", "patternOf", "alphaHash", "parents", "passThru",
           "varsOf", "common", "feeds", "consequent", "heads", "exists",
           "filters", "terminals"}

\* A pattern has one alpha node that the dictionary leads to or that feeds a beta
\* node, and is known.
FoundIn(n) == {n.nodes[k] : k \in DOMAIN n.nodes}
InUse(n) == {a \in AlphasOf(n) : a \in FoundIn(n) \/ n.feeds[a] # <<>>}
OneEach(n) == /\ \A a \in InUse(n) : Known(n, <<n.patternOf[a]>>)
              /\ \A a1, a2 \in InUse(n) : n.patternOf[a1] = n.patternOf[a2] => a1 = a2

\* What a beta node may be built on: an alpha node only if the dictionary leads there.
Usable(n, i) == i \in AlphasOf(n) => i \in FoundIn(n)

\* The dictionary leads to nodes, and to beta nodes from lists with a None.
Filed(n) == \A k \in DOMAIN n.nodes :
                /\ n.nodes[k] \in IdsOf(n)
                /\ k[1] # 0 => n.nodes[k] \in BetasOf(n)

\* Its nodes are numbered in the order of their creation.
Numbered(n) ==
    /\ n.next \in Nat \ {0}
    /\ AlphasOf(n) \cup BetasOf(n) = IdsOf(n) /\ AlphasOf(n) \cap BetasOf(n) = {}

\* A beta node joins nodes older than itself.
Joined(n) ==
    \A b \in BetasOf(n) : /\ n.parents[b] = <<n.parents[b][1], n.parents[b][2]>>
                          /\ n.parents[b][1] \in 0 .. b - 1
                          /\ n.parents[b][2] \in 1 .. b - 1

Memories(n) ==
    /\ DOMAIN n.feeds = IdsOf(n)
    /\ \A i \in IdsOf(n) :
          n.feeds[i] \in Seq([node : BetasOf(n), side : {"left", "right"}])

Typed(n) ==
    /\ n.patternOf \in [AlphasOf(n) -> Pattern]
    /\ n.varsOf \in [IdsOf(n) -> SUBSET Var]
    /\ n.common \in [BetasOf(n) -> SUBSET Var]
    /\ n.consequent \in [BetasOf(n) -> SUBSET Pattern]
    /\ n.heads \in [BetasOf(n) -> SUBSET Pattern]
    /\ n.exists \in [BetasOf(n) -> SUBSET Var]
    /\ n.terminals \in [DOMAIN n.terminals -> SUBSET RuleBase]
    /\ DOMAIN n.terminals \subseteq BetasOf(n)

WellFormed(n) ==
    /\ DOMAIN n = Fields
    /\ Numbered(n) /\ Joined(n) /\ Memories(n) /\ Typed(n) /\ Filed(n) /\ OneEach(n)

\* m is n with nodes added.
Grows(n, m) ==
    /\ n.next <= m.next
    /\ AlphasOf(n) = AlphasOf(m) \cap IdsOf(n)
    /\ BetasOf(n) = BetasOf(m) \cap IdsOf(n)
    /\ \A a \in AlphasOf(n) : m.patternOf[a] = n.patternOf[a]
    /\ \A b \in BetasOf(n) : /\ m.parents[b] = n.parents[b]
                             /\ m.consequent[b] = n.consequent[b]
    /\ \A b \in BetasOf(m) \ BetasOf(n) : m.consequent[b] = {}
    /\ m.terminals = n.terminals
    /\ DOMAIN n.nodes \subseteq DOMAIN m.nodes

(***************************************************************************)
(* The dictionary's keys.                                                  *)
(***************************************************************************)
BodyPatterns == UNION {ToSet(r.body) : r \in RuleBase}
Lists == Seq(BodyPatterns \cup {<<>>})

LEMMA InToSet ==
    ASSUME NEW s, NEW x
    PROVE  x \in ToSet(s) <=> \E i \in DOMAIN s : x = s[i]
BY DEF ToSet

LEMMA BodyIs ==
    /\ BodyPatterns \subseteq Pattern
    /\ \A r \in RuleBase : r.body \in Seq(BodyPatterns) /\ ToSet(r.body) \subseteq BodyPatterns
<1>1. ASSUME NEW r \in RuleBase
      PROVE  /\ ToSet(r.body) \subseteq Pattern /\ ToSet(r.body) \subseteq BodyPatterns
             /\ r.body \in Seq(BodyPatterns)
  <2>1. r.body \in Seq(Pattern)
    BY RuleBaseAssumption
  <2>2. ToSet(r.body) \subseteq BodyPatterns
    BY DEF BodyPatterns
  <2>3. \A i \in 1 .. Len(r.body) : r.body[i] \in Pattern /\ r.body[i] \in ToSet(r.body)
    <3>1. \A i \in 1 .. Len(r.body) : i \in DOMAIN r.body
      BY <2>1
    <3> QED  BY <2>1, <3>1, ElementOfSeq DEF ToSet
  <2>4. ToSet(r.body) \subseteq Pattern
    BY <2>1, <2>3 DEF ToSet
  <2> QED  BY <2>1, <2>2, <2>3, <2>4
<1> QED  BY <1>1 DEF BodyPatterns

LEMMA PatternNotNone ==
    ASSUME NEW p \in BodyPatterns
    PROVE  p # <<>>
BY BodyIs DEF Pattern, Place

LEMMA KeyTellsNone ==
    ASSUME NEW ps \in Lists
    PROVE  Key(ps)[1] # 0 <=> \E i \in DOMAIN ps : ps[i] = <<>>
<1> DEFINE D == {i \in DOMAIN ps : ps[i] = <<>>}
<1>1. IsFiniteSet(1 .. Len(ps)) /\ D \subseteq 1 .. Len(ps)
  BY FS_Interval DEF Lists
<1>2. IsFiniteSet(D)
  BY <1>1, FS_Subset
<1>3. Cardinality(D) = 0 <=> D = {}
  BY <1>2, FS_EmptySet
<1>4. Key(ps)[1] = Cardinality(D)
  BY DEF Key
<1> QED  BY <1>3, <1>4

LEMMA PaddedIs ==
    ASSUME NEW ps \in Lists
    PROVE  /\ Padded(ps) \in Lists /\ Padded(ps) # <<>> /\ Key(Padded(ps))[1] # 0
           /\ ToSet(Padded(ps)) = {<<>>} \cup ToSet(ps)
<1>1. /\ Padded(ps) \in Lists /\ Len(Padded(ps)) = 1 + Len(ps)
      /\ Padded(ps)[1] = <<>>
      /\ \A i \in 1 .. Len(ps) : Padded(ps)[i + 1] = ps[i]
  BY DEF Padded, Lists
<1>2. 1 \in DOMAIN Padded(ps) /\ Padded(ps) # <<>>
  BY <1>1 DEF Lists
<1>3. Key(Padded(ps))[1] # 0
  BY <1>1, <1>2, KeyTellsNone
<1>4. ToSet(Padded(ps)) = {<<>>} \cup ToSet(ps)
  <2>1. ASSUME NEW i \in DOMAIN Padded(ps)
        PROVE  Padded(ps)[i] = <<>> \/ Padded(ps)[i] \in ToSet(ps)
    <3>1. CASE i = 1
      BY <3>1, <1>1
    <3>2. CASE i # 1
      <4>1. i - 1 \in 1 .. Len(ps) /\ i = (i - 1) + 1 /\ DOMAIN ps = 1 .. Len(ps)
        BY <3>2, <1>1 DEF Lists
      <4>2. Padded(ps)[i] = ps[i - 1]
        BY <4>1, <1>1
      <4> QED  BY <4>1, <4>2 DEF ToSet
    <3> QED  BY <3>1, <3>2
  <2>2. ASSUME NEW i \in DOMAIN ps
        PROVE  ps[i] \in ToSet(Padded(ps))
    <3>1. i \in 1 .. Len(ps) /\ i + 1 \in DOMAIN Padded(ps)
      BY <1>1 DEF Lists
    <3> QED  BY <3>1, <1>1 DEF ToSet
  <2>3. <<>> \in ToSet(Padded(ps))
    BY <1>1, <1>2 DEF ToSet
  <2>4. ToSet(Padded(ps)) \subseteq {<<>>} \cup ToSet(ps)
    BY <2>1 DEF ToSet
  <2>5. ToSet(ps) \subseteq ToSet(Padded(ps))
    BY <2>2, InToSet
  <2> QED  BY <2>3, <2>4, <2>5
<1> QED  BY <1>1, <1>2, <1>3, <1>4

LEMMA SingleIs ==
    ASSUME NEW p \in BodyPatterns
    PROVE  <<p>> \in Lists /\ <<p>> # <<>> /\ Key(<<p>>)[1] = 0 /\ ToSet(<<p>>) = {p}
<1>1. <<p>> \in Lists /\ DOMAIN <<p>> = {1} /\ <<p>>[1] = p
  BY DEF Lists
<1>2. Key(<<p>>)[1] = 0
  BY <1>1, KeyTellsNone, PatternNotNone
<1>3. ToSet(<<p>>) = {p}
  BY <1>1 DEF ToSet
<1> QED  BY <1>1, <1>2, <1>3

(***************************************************************************)
(* One node.                                                               *)
(***************************************************************************)
LEMMA PutIs ==
    ASSUME NEW f, NEW x, NEW y
    PROVE  /\ DOMAIN Put(f, x, y) = {x} \cup DOMAIN f
           /\ Put(f, x, y)[x] = y
           /\ \A z \in DOMAIN f : z # x => Put(f, x, y)[z] = f[z]
BY DEF Put

LEMMA AppendIn ==
    ASSUME NEW T, NEW s \in Seq(T), NEW x \in T
    PROVE  Append(s, x) \in Seq(T)
OBVIOUS

LEMMA PutIn ==
    ASSUME NEW f, NEW x, NEW y, NEW X, NEW Y, f \in [X -> Y], y \in Y
    PROVE  Put(f, x, y) \in [{x} \cup X -> Y]
BY DEF Put

LEMMA AlphaMade ==
    ASSUME NEW n, WellFormed(n), NEW p \in BodyPatterns
    PROVE  LET m == CreateAlphaNode(n, p)
               id == n.next
           IN  /\ DOMAIN m = Fields
               /\ m.next = n.next + 1
               /\ m.nodes = n.nodes /\ m.parents = n.parents /\ m.common = n.common
               /\ m.consequent = n.consequent /\ m.heads = n.heads
               /\ m.exists = n.exists /\ m.terminals = n.terminals
               /\ m.patternOf = Put(n.patternOf, id, p)
               /\ m.varsOf = Put(n.varsOf, id, IF IsBuiltin(p) THEN {} ELSE VarsOf(p))
               /\ m.feeds = Put(n.feeds, id, <<>>)
BY DEF CreateAlphaNode, WellFormed, Numbered, Fields

LEMMA FileMade ==
    ASSUME NEW n, DOMAIN n = Fields, NEW ps, NEW id
    PROVE  LET m == File(n, ps, id)
           IN  /\ DOMAIN m = Fields
               /\ \A f \in Fields \ {"nodes"} : m[f] = n[f]
               /\ m.nodes = Put(n.nodes, Key(ps), id)
BY DEF File, Fields

\* m is n after from has been asked to feed b.
HasFed(n, from, b) == \E i \in DOMAIN n.feeds[from] : n.feeds[from][i].node = b
FedAs(n, m, from, b, side) ==
    /\ DOMAIN m = Fields
    /\ \A f \in Fields \ {"feeds"} : m[f] = n[f]
    /\ from = None \/ HasFed(n, from, b) => m.feeds = n.feeds
    /\ from # None /\ ~HasFed(n, from, b) =>
          m.feeds = [n.feeds EXCEPT ![from] = Append(@, [node |-> b, side |-> side])]

LEMMA FeedsMade ==
    ASSUME NEW n, DOMAIN n = Fields, NEW from, NEW b, NEW side
    PROVE  FedAs(n, Feeds(n, from, b, side), from, b, side)
BY DEF Feeds, Fields, FedAs, HasFed

\* What a new alpha node changes.
AlphaAdded(n, m, p) ==
    /\ DOMAIN m = Fields
    /\ m.next = n.next + 1
    /\ m.nodes = Put(n.nodes, Key(<<p>>), n.next)
    /\ m.patternOf = Put(n.patternOf, n.next, p)
    /\ m.varsOf = Put(n.varsOf, n.next, IF IsBuiltin(p) THEN {} ELSE VarsOf(p))
    /\ m.feeds = Put(n.feeds, n.next, <<>>)
    /\ m.parents = n.parents /\ m.common = n.common
    /\ m.consequent = n.consequent /\ m.heads = n.heads
    /\ m.exists = n.exists /\ m.terminals = n.terminals

LEMMA NewAlpha ==
    ASSUME NEW n, WellFormed(n), NEW p \in BodyPatterns
    PROVE  AlphaAdded(n, File(CreateAlphaNode(n, p), <<p>>, n.next), p)
<1> DEFINE c == CreateAlphaNode(n, p)
           m == File(c, <<p>>, n.next)
<1>1. /\ DOMAIN c = Fields
      /\ c.next = n.next + 1
      /\ c.nodes = n.nodes /\ c.parents = n.parents /\ c.common = n.common
      /\ c.consequent = n.consequent /\ c.heads = n.heads
      /\ c.exists = n.exists /\ c.terminals = n.terminals
      /\ c.patternOf = Put(n.patternOf, n.next, p)
      /\ c.varsOf = Put(n.varsOf, n.next, IF IsBuiltin(p) THEN {} ELSE VarsOf(p))
      /\ c.feeds = Put(n.feeds, n.next, <<>>)
  BY AlphaMade
<1> HIDE DEF c
<1>2. /\ DOMAIN m = Fields
      /\ \A f \in Fields \ {"nodes"} : m[f] = c[f]
      /\ m.nodes = Put(c.nodes, Key(<<p>>), n.next)
  BY <1>1, FileMade
<1> HIDE DEF m
<1>3. /\ m.next = c.next /\ m.patternOf = c.patternOf /\ m.parents = c.parents
      /\ m.common = c.common /\ m.varsOf = c.varsOf /\ m.feeds = c.feeds
      /\ m.consequent = c.consequent /\ m.heads = c.heads /\ m.exists = c.exists
      /\ m.terminals = c.terminals
  BY <1>2 DEF Fields
<1>4. AlphaAdded(n, m, p)
  BY <1>1, <1>2, <1>3 DEF AlphaAdded
<1> QED  BY <1>4 DEF m, c

\* What a new beta node changes.
BetaAdded(n, m, l, r, ps, passThru) ==
    /\ DOMAIN m = Fields
    /\ m.next = n.next + 1
    /\ m.nodes = Put(n.nodes, Key(ps), n.next)
    /\ m.parents = Put(n.parents, n.next, <<l, r>>)
    /\ m.varsOf = Put(n.varsOf, n.next,
                      (IF l = None THEN {} ELSE n.varsOf[l]) \cup n.varsOf[r])
    /\ m.common = Put(n.common, n.next,
                      IF passThru THEN n.varsOf[r]
                      ELSE (IF l = None THEN {} ELSE n.varsOf[l]) \cap n.varsOf[r])
    /\ m.consequent = Put(n.consequent, n.next, {})
    /\ m.heads = Put(n.heads, n.next, {})
    /\ m.exists = Put(n.exists, n.next, {})
    /\ m.patternOf = n.patternOf /\ m.terminals = n.terminals
    \* The memories: an item for each parent, one only if they are the same.
    /\ DOMAIN m.feeds = 1 .. n.next
    /\ m.feeds[n.next] = <<>>
    /\ l # None => m.feeds[l] = Append(n.feeds[l], [node |-> n.next, side |-> "left"])
    /\ r # l => m.feeds[r] = Append(n.feeds[r], [node |-> n.next, side |-> "right"])
    /\ \A i \in IdsOf(n) \ {l, r} : m.feeds[i] = n.feeds[i]

LEMMA NewBeta ==
    ASSUME NEW n, WellFormed(n), NEW l \in 0 .. n.next - 1, NEW r \in IdsOf(n),
           NEW ps, NEW passThru \in BOOLEAN
    PROVE  BetaAdded(n, CreateBetaNode(n, l, r, ps, passThru), l, r, ps, passThru)
<1> DEFINE b == n.next
           lvars == IF l = None THEN {} ELSE n.varsOf[l]
           made ==
             [n EXCEPT !.next = @ + 1,
                    !.parents = Put(@, b, <<l, r>>),
                    !.passThru = IF passThru THEN @ \cup {b} ELSE @,
                    !.varsOf = Put(@, b, lvars \cup n.varsOf[r]),
                    !.common = Put(@, b, IF passThru THEN n.varsOf[r]
                                         ELSE lvars \cap n.varsOf[r]),
                    !.feeds = Put(@, b, <<>>), !.consequent = Put(@, b, {}),
                    !.heads = Put(@, b, {}), !.exists = Put(@, b, {})]
           filed == File(made, ps, b)
           left == Feeds(filed, l, b, "left")
           m == Feeds(left, r, b, "right")
<1>1. m = CreateBetaNode(n, l, r, ps, passThru)
  BY DEF CreateBetaNode
<1>2. /\ DOMAIN made = Fields
      /\ made.next = b + 1 /\ made.nodes = n.nodes
      /\ made.parents = Put(n.parents, b, <<l, r>>)
      /\ made.varsOf = Put(n.varsOf, b, lvars \cup n.varsOf[r])
      /\ made.common = Put(n.common, b, IF passThru THEN n.varsOf[r]
                                        ELSE lvars \cap n.varsOf[r])
      /\ made.feeds = Put(n.feeds, b, <<>>) /\ made.consequent = Put(n.consequent, b, {})
      /\ made.heads = Put(n.heads, b, {}) /\ made.exists = Put(n.exists, b, {})
      /\ made.patternOf = n.patternOf /\ made.terminals = n.terminals
  BY DEF WellFormed, Numbered, Fields
<1> HIDE DEF made
<1>3. /\ DOMAIN filed = Fields
      /\ \A f \in Fields \ {"nodes"} : filed[f] = made[f]
      /\ filed.nodes = Put(made.nodes, Key(ps), b)
  BY <1>2, FileMade
<1> HIDE DEF filed
<1>4. FedAs(filed, left, l, b, "left")
  BY <1>3, FeedsMade
<1> HIDE DEF left
<1>5. FedAs(left, m, r, b, "right")
  <2>1. DOMAIN left = Fields
    BY <1>4 DEF FedAs
  <2> QED  BY <2>1, FeedsMade
<1> HIDE DEF m
<1>6. /\ m.next = made.next /\ m.patternOf = made.patternOf /\ m.parents = made.parents
      /\ m.common = made.common /\ m.varsOf = made.varsOf /\ m.nodes = filed.nodes
      /\ m.consequent = made.consequent /\ m.heads = made.heads /\ m.exists = made.exists
      /\ m.terminals = made.terminals /\ filed.feeds = made.feeds
  BY <1>3, <1>4, <1>5 DEF Fields, FedAs
<1>7. /\ DOMAIN m.feeds = 1 .. b /\ m.feeds[b] = <<>>
      /\ l # None => m.feeds[l] = Append(n.feeds[l], [node |-> b, side |-> "left"])
      /\ r # l => m.feeds[r] = Append(n.feeds[r], [node |-> b, side |-> "right"])
      /\ \A i \in IdsOf(n) \ {l, r} : m.feeds[i] = n.feeds[i]
  <2>1. /\ n.next \in Nat \ {0} /\ b = n.next /\ r # None /\ l # b /\ r # b
        /\ b \notin IdsOf(n) /\ {b} \cup IdsOf(n) = 1 .. b
        /\ l # None => l \in IdsOf(n)
    BY DEF WellFormed, Numbered, IdsOf, None
  <2>2. /\ DOMAIN n.feeds = IdsOf(n)
        /\ \A i \in IdsOf(n) : /\ n.feeds[i] \in Seq([node : BetasOf(n), side : {"left", "right"}])
                               /\ \A j \in DOMAIN n.feeds[i] : n.feeds[i][j].node # b
    <3>1. b \notin BetasOf(n)
      BY <2>1 DEF WellFormed, Numbered
    <3>2. ASSUME NEW i \in IdsOf(n), NEW j \in DOMAIN n.feeds[i]
          PROVE  n.feeds[i][j].node # b
      <4>1. n.feeds[i] \in Seq([node : BetasOf(n), side : {"left", "right"}])
        BY DEF WellFormed, Memories
      <4>2. n.feeds[i][j] \in [node : BetasOf(n), side : {"left", "right"}]
        <5>1. j \in 1 .. Len(n.feeds[i])
          BY <4>1
        <5> QED  BY <4>1, <5>1, ElementOfSeq
      <4> QED  BY <4>2, <3>1
    <3> QED  BY <3>2 DEF WellFormed, Memories
  <2>3. /\ DOMAIN filed.feeds = 1 .. b /\ filed.feeds[b] = <<>>
        /\ \A i \in IdsOf(n) : filed.feeds[i] = n.feeds[i]
    <3>1. filed.feeds = Put(n.feeds, b, <<>>)
      BY <1>2, <1>6
    <3>2. /\ DOMAIN filed.feeds = {b} \cup DOMAIN n.feeds /\ filed.feeds[b] = <<>>
          /\ \A i \in DOMAIN n.feeds : i # b => filed.feeds[i] = n.feeds[i]
      BY <3>1 DEF Put
    <3>3. DOMAIN filed.feeds = 1 .. b
      <4>1. DOMAIN n.feeds = IdsOf(n)
        BY <2>2
      <4> HIDE DEF b
      <4> QED  BY <2>1, <3>2, <4>1
    <3>4. ASSUME NEW i \in IdsOf(n)
          PROVE  filed.feeds[i] = n.feeds[i]
      <4>1. i # b /\ i \in DOMAIN n.feeds
        BY <2>1, <2>2
      <4> QED  BY <3>2, <4>1
    <3> QED  BY <3>2, <3>3, <3>4
  <2> HIDE DEF b
  <2>4. /\ DOMAIN left.feeds = 1 .. b /\ left.feeds[b] = <<>>
        /\ l # None => left.feeds[l] = Append(n.feeds[l], [node |-> b, side |-> "left"])
        /\ \A i \in IdsOf(n) \ {l} : left.feeds[i] = n.feeds[i]
    <3>1. CASE l = None
      <4>1. left.feeds = filed.feeds
        BY <3>1, <1>4 DEF FedAs
      <4> QED  BY <3>1, <4>1, <2>3
    <3>2. CASE l # None
      <4>1. l \in IdsOf(n) /\ filed.feeds[l] = n.feeds[l]
        BY <3>2, <2>1, <2>3
      <4>2. ~HasFed(filed, l, b)
        BY <4>1, <2>2 DEF HasFed
      <4>3. left.feeds = [filed.feeds EXCEPT ![l] = Append(@, [node |-> b, side |-> "left"])]
        BY <3>2, <4>2, <1>4 DEF FedAs
      <4>4. l \in DOMAIN filed.feeds /\ \A i \in IdsOf(n) : i \in DOMAIN filed.feeds
        BY <4>1, <2>1, <2>3
      <4> QED  BY <4>1, <4>3, <4>4, <2>1, <2>3
    <3> QED  BY <3>1, <3>2
  <2>5. CASE r = l
    <3>1. \E i \in DOMAIN left.feeds[r] : left.feeds[r][i].node = b
      <4> DEFINE x == [node |-> b, side |-> "left"]
      <4>1. left.feeds[r] = Append(n.feeds[l], x) /\ l \in IdsOf(n)
        BY <2>1, <2>4, <2>5
      <4>2. n.feeds[l] \in Seq([node : BetasOf(n), side : {"left", "right"}])
        BY <2>2, <4>1
      <4>3. /\ Len(n.feeds[l]) + 1 \in DOMAIN Append(n.feeds[l], x)
            /\ Append(n.feeds[l], x)[Len(n.feeds[l]) + 1] = x
        BY <4>2
      <4> QED  BY <4>1, <4>3
    <3>2. m.feeds = left.feeds
      BY <3>1, <1>5 DEF FedAs, HasFed
    <3> QED  BY <3>2, <2>4, <2>5
  <2>6. CASE r # l
    <3>1. left.feeds[r] = n.feeds[r]
      BY <2>4, <2>6
    <3>2. m.feeds = [left.feeds EXCEPT ![r] = Append(@, [node |-> b, side |-> "right"])]
      BY <3>1, <2>1, <2>2, <1>5 DEF FedAs, HasFed
    <3>3. /\ r \in 1 .. b /\ (l # None => l \in 1 .. b)
          /\ \A i \in IdsOf(n) : i \in 1 .. b
      BY <2>1
    <3> QED  BY <3>1, <3>2, <3>3, <2>1, <2>4, <2>6
  <2> QED  BY <2>5, <2>6
<1>8. BetaAdded(n, m, l, r, ps, passThru)
  BY <1>2, <1>3, <1>5, <1>6, <1>7 DEF BetaAdded, FedAs
<1> QED  BY <1>1, <1>8
LEMMA AlphaKeeps ==
    ASSUME NEW n, WellFormed(n), NEW p \in BodyPatterns, ~Known(n, <<p>>),
           NEW m, AlphaAdded(n, m, p)
    PROVE  /\ WellFormed(m) /\ Grows(n, m)
           /\ Known(m, <<p>>) /\ NodeAt(m, <<p>>) = n.next /\ n.next \in AlphasOf(m)
<1> DEFINE a == n.next
<1>1. a \in Nat \ {0} /\ a \notin IdsOf(n) /\ IdsOf(m) = {a} \cup IdsOf(n)
  BY DEF WellFormed, Numbered, IdsOf, AlphaAdded
<1>2. AlphasOf(m) = {a} \cup AlphasOf(n) /\ BetasOf(m) = BetasOf(n)
  BY DEF AlphaAdded, AlphasOf, BetasOf, Put
<1>3. a \notin AlphasOf(n) /\ a \notin BetasOf(n)
  BY <1>1 DEF WellFormed, Numbered
<1>4. Numbered(m)
  BY <1>1, <1>2, <1>3 DEF WellFormed, Numbered, AlphaAdded
<1>5. Joined(m)
  BY <1>2 DEF WellFormed, Joined, AlphaAdded
<1>6. Memories(m)
  <2>1. DOMAIN m.feeds = {a} \cup DOMAIN n.feeds /\ m.feeds[a] = <<>>
        /\ \A i \in DOMAIN n.feeds : i # a => m.feeds[i] = n.feeds[i]
    BY DEF AlphaAdded, Put
  <2>2. DOMAIN n.feeds = IdsOf(n)
    BY DEF WellFormed, Memories
  <2>3. ASSUME NEW i \in IdsOf(m)
        PROVE  m.feeds[i] \in Seq([node : BetasOf(m), side : {"left", "right"}])
    <3>1. CASE i = a
      BY <3>1, <2>1
    <3>2. CASE i # a
      <4>1. i \in IdsOf(n)
        BY <3>2, <1>1
      <4> QED  BY <3>2, <4>1, <2>1, <2>2, <1>2 DEF WellFormed, Memories
    <3> QED  BY <3>1, <3>2
  <2> QED  BY <1>1, <2>1, <2>2, <2>3 DEF Memories
<1>7. Typed(m)
  <2>1. m.patternOf \in [AlphasOf(m) -> Pattern]
    <3>1. n.patternOf \in [AlphasOf(n) -> Pattern]
      BY DEF WellFormed, Typed
    <3>2. m.patternOf = Put(n.patternOf, a, p)
      BY DEF AlphaAdded
    <3> QED  BY <3>1, <3>2, <1>2, BodyIs DEF Put
  <2>2. m.varsOf \in [IdsOf(m) -> SUBSET Var]
    <3>1. n.varsOf \in [IdsOf(n) -> SUBSET Var]
      BY DEF WellFormed, Typed
    <3>2. (IF IsBuiltin(p) THEN {} ELSE VarsOf(p)) \in SUBSET Var
      BY DEF VarsOf
    <3>3. m.varsOf = Put(n.varsOf, a, IF IsBuiltin(p) THEN {} ELSE VarsOf(p))
      BY DEF AlphaAdded
    <3> DEFINE v == IF IsBuiltin(p) THEN {} ELSE VarsOf(p)
    <3> HIDE DEF v
    <3>4. Put(n.varsOf, a, v) \in [{a} \cup IdsOf(n) -> SUBSET Var]
      BY <3>1, <3>2, PutIn DEF v
    <3> QED  BY <3>3, <3>4, <1>1 DEF v
  <2> QED  BY <2>1, <2>2, <1>2 DEF WellFormed, Typed, AlphaAdded
<1>8. /\ DOMAIN m.nodes = {Key(<<p>>)} \cup DOMAIN n.nodes /\ m.nodes[Key(<<p>>)] = a
      /\ \A k \in DOMAIN n.nodes : k # Key(<<p>>) => m.nodes[k] = n.nodes[k]
  BY DEF AlphaAdded, Put
<1>9. Filed(m)
  <2>1. ASSUME NEW k \in DOMAIN m.nodes
        PROVE  m.nodes[k] \in IdsOf(m) /\ (k[1] # 0 => m.nodes[k] \in BetasOf(m))
    <3>1. CASE k = Key(<<p>>)
      BY <3>1, <1>1, <1>8, SingleIs
    <3>2. CASE k # Key(<<p>>)
      BY <3>2, <1>1, <1>2, <1>8 DEF WellFormed, Filed
    <3> QED  BY <3>1, <3>2
  <2> QED  BY <2>1 DEF Filed
<1>10. \A i \in AlphasOf(n) : m.patternOf[i] = n.patternOf[i]
  BY <1>3 DEF AlphaAdded, AlphasOf, Put
<1>11. m.patternOf[a] = p
  BY DEF AlphaAdded, Put
<1>12. OneEach(m)
  <2>0. InUse(m) \ {a} \subseteq InUse(n)
    <3>1. FoundIn(m) \ {a} \subseteq FoundIn(n)
      BY <1>8 DEF FoundIn
    <3>2. \A i \in DOMAIN n.feeds : i # a => m.feeds[i] = n.feeds[i]
      BY DEF AlphaAdded, Put
    <3>3. AlphasOf(n) \subseteq DOMAIN n.feeds
      BY DEF WellFormed, Memories, Numbered
    <3> QED  BY <3>1, <3>2, <3>3, <1>2 DEF InUse
  <2>1. ASSUME NEW i \in InUse(m)
        PROVE  Known(m, <<m.patternOf[i]>>) /\ (i # a => m.patternOf[i] # p)
    <3>1. CASE i = a
      BY <3>1, <1>8, <1>11 DEF Known
    <3>2. CASE i # a
      <4>1. i \in InUse(n) /\ m.patternOf[i] = n.patternOf[i]
        BY <3>2, <2>0, <2>1, <1>10 DEF InUse
      <4>2. Known(n, <<n.patternOf[i]>>)
        BY <4>1 DEF WellFormed, OneEach
      <4> QED  BY <4>1, <4>2, <1>8 DEF Known
    <3> QED  BY <3>1, <3>2
  <2>2. ASSUME NEW i \in InUse(m), NEW j \in InUse(m),
               m.patternOf[i] = m.patternOf[j]
        PROVE  i = j
    <3>1. CASE i = a \/ j = a
      BY <3>1, <2>1, <2>2, <1>11
    <3>2. CASE i # a /\ j # a
      <4>1. i \in InUse(n) /\ j \in InUse(n)
        BY <3>2, <2>0, <2>2
      <4>2. m.patternOf[i] = n.patternOf[i] /\ m.patternOf[j] = n.patternOf[j]
        BY <4>1, <1>10 DEF InUse
      <4> QED  BY <4>1, <4>2, <2>2 DEF WellFormed, OneEach
    <3> QED  BY <3>1, <3>2
  <2> QED  BY <2>1, <2>2 DEF OneEach
<1>13. Grows(n, m)
  <2>1. n.next <= m.next /\ m.terminals = n.terminals /\ m.parents = n.parents
        /\ m.consequent = n.consequent
    BY <1>1 DEF AlphaAdded
  <2>2. /\ AlphasOf(n) = AlphasOf(m) \cap IdsOf(n)
        /\ BetasOf(n) = BetasOf(m) \cap IdsOf(n)
    BY <1>1, <1>2 DEF WellFormed, Numbered
  <2>3. BetasOf(m) \ BetasOf(n) = {}
    BY <1>2
  <2> QED  BY <2>1, <2>2, <2>3, <1>8, <1>10 DEF Grows
<1> QED  BY <1>2, <1>4, <1>5, <1>6, <1>7, <1>8, <1>9, <1>12, <1>13
         DEF WellFormed, AlphaAdded, Known, NodeAt

\* The same alpha node, left out of the dictionary.
LEMMA UnfiledKeeps ==
    ASSUME NEW n, WellFormed(n), NEW p \in BodyPatterns, ~Known(n, <<p>>),
           NEW m, DOMAIN m = Fields, m.nodes = n.nodes,
           NEW f, AlphaAdded(n, f, p), \A x \in Fields \ {"nodes"} : m[x] = f[x]
    PROVE  WellFormed(m) /\ Grows(n, m)
<1>1. /\ WellFormed(f) /\ Grows(n, f) /\ n.next \in AlphasOf(f)
      /\ n.next \notin IdsOf(n) /\ n.next \in Nat
  BY AlphaKeeps DEF WellFormed, Numbered, IdsOf
<1>2. /\ m.next = f.next /\ m.patternOf = f.patternOf /\ m.parents = f.parents
      /\ m.common = f.common /\ m.varsOf = f.varsOf /\ m.feeds = f.feeds
      /\ m.consequent = f.consequent /\ m.heads = f.heads /\ m.exists = f.exists
      /\ m.terminals = f.terminals
  BY DEF Fields
<1>3. AlphasOf(m) = AlphasOf(f) /\ BetasOf(m) = BetasOf(f) /\ IdsOf(m) = IdsOf(f)
  BY <1>2 DEF AlphasOf, BetasOf, IdsOf
<1>4. Grows(n, m)
  BY <1>1, <1>2, <1>3 DEF Grows
<1>5. IdsOf(n) \subseteq IdsOf(m)
  <2>1. n.next <= f.next /\ f.next \in Nat
    BY <1>1 DEF Grows, WellFormed, Numbered
  <2>2. IdsOf(m) = 1 .. f.next - 1 /\ IdsOf(n) = 1 .. n.next - 1
    BY <1>3 DEF IdsOf
  <2> QED  BY <2>1, <2>2, <1>1
<1>6. Filed(m)
  <2>1. BetasOf(n) \subseteq BetasOf(m)
    BY <1>4 DEF Grows
  <2> QED  BY <2>1, <1>5 DEF WellFormed, Filed
<1>7. OneEach(m)
  <2>1. FoundIn(m) = FoundIn(n) /\ FoundIn(n) \subseteq IdsOf(n)
    BY DEF FoundIn, WellFormed, Filed
  <2>2. m.feeds[n.next] = <<>> /\ \A i \in IdsOf(n) : m.feeds[i] = n.feeds[i]
    <3>1. f.feeds[n.next] = <<>> /\ \A i \in DOMAIN n.feeds \ {n.next} : f.feeds[i] = n.feeds[i]
      BY DEF AlphaAdded, Put
    <3>2. DOMAIN n.feeds = IdsOf(n)
      BY DEF WellFormed, Memories
    <3> QED  BY <3>1, <3>2, <1>1, <1>2
  <2>3. AlphasOf(m) = {n.next} \cup AlphasOf(n)
    BY <1>3 DEF AlphaAdded, AlphasOf, Put
  <2>4. ASSUME NEW a \in InUse(m)
        PROVE  a \in InUse(n) /\ m.patternOf[a] = n.patternOf[a]
    <3>1. a # n.next
      BY <2>1, <2>2, <2>4, <1>1 DEF InUse
    <3>2. a \in AlphasOf(n) /\ a \in IdsOf(n)
      BY <3>1, <2>3, <2>4 DEF InUse, WellFormed, Numbered
    <3> QED  BY <3>2, <2>1, <2>2, <2>4, <1>4 DEF Grows, InUse
  <2>5. m.nodes = n.nodes
    OBVIOUS
  <2> QED  BY <2>4, <2>5 DEF WellFormed, OneEach, Known
<1>8. Numbered(m) /\ Joined(m) /\ Memories(m) /\ Typed(m)
  BY <1>1, <1>2, <1>3 DEF WellFormed, Numbered, Joined, Memories, Typed
<1> QED  BY <1>4, <1>6, <1>7, <1>8 DEF WellFormed

LEMMA FoundUsable ==
    ASSUME NEW n, NEW ps, Known(n, ps)
    PROVE  Usable(n, NodeAt(n, ps))
BY DEF Usable, FoundIn, Known, NodeAt

LEMMA BetaKeeps ==
    ASSUME NEW n, WellFormed(n), NEW l \in 0 .. n.next - 1, NEW r \in IdsOf(n),
           NEW ps, NEW passThru, NEW m, BetaAdded(n, m, l, r, ps, passThru),
           Usable(n, l), Usable(n, r)
    PROVE  /\ WellFormed(m) /\ Grows(n, m)
           /\ Known(m, ps) /\ NodeAt(m, ps) = n.next /\ n.next \in BetasOf(m)
           /\ m.parents[n.next] = <<l, r>>
<1> DEFINE b == n.next
<1>1. b \in Nat \ {0} /\ b \notin IdsOf(n) /\ IdsOf(m) = {b} \cup IdsOf(n)
  BY DEF WellFormed, Numbered, IdsOf, BetaAdded
<1>2. AlphasOf(m) = AlphasOf(n) /\ BetasOf(m) = {b} \cup BetasOf(n)
  BY DEF BetaAdded, AlphasOf, BetasOf, Put
<1>3. b \notin AlphasOf(n) /\ b \notin BetasOf(n)
  BY <1>1 DEF WellFormed, Numbered
<1>4. Numbered(m)
  BY <1>1, <1>2, <1>3 DEF WellFormed, Numbered, BetaAdded
<1>5. m.parents[b] = <<l, r>> /\ \A i \in BetasOf(n) : m.parents[i] = n.parents[i]
  BY <1>3 DEF BetaAdded, BetasOf, Put
<1>6. Joined(m)
  <2>1. l \in 0 .. b - 1 /\ r \in 1 .. b - 1
    BY DEF IdsOf
  <2> QED  BY <2>1, <1>2, <1>5 DEF WellFormed, Joined
<1>7. Memories(m)
  <2>1. ASSUME NEW i \in IdsOf(n)
        PROVE  n.feeds[i] \in Seq([node : BetasOf(m), side : {"left", "right"}])
    <3>1. n.feeds[i] \in Seq([node : BetasOf(n), side : {"left", "right"}])
      BY DEF WellFormed, Memories
    <3>2. [node : BetasOf(n), side : {"left", "right"}]
            \subseteq [node : BetasOf(m), side : {"left", "right"}]
      BY <1>2
    <3> QED  BY <3>1, <3>2, SeqMonotonic
  <2>2. \A side \in {"left", "right"} :
           [node |-> b, side |-> side] \in [node : BetasOf(m), side : {"left", "right"}]
    BY <1>2
  <2>3. ASSUME NEW i \in IdsOf(m)
        PROVE  m.feeds[i] \in Seq([node : BetasOf(m), side : {"left", "right"}])
    <3>1. CASE i = b
      <4>1. m.feeds[i] = <<>>
        BY <3>1 DEF BetaAdded
      <4> QED  BY <4>1, EmptySeq
    <3>2. CASE i # b /\ i # l /\ i # r
      BY <3>2, <2>1, <1>1 DEF BetaAdded
    <3>3. CASE i # b /\ i = l
      <4>1. m.feeds[i] = Append(n.feeds[i], [node |-> b, side |-> "left"]) /\ i \in IdsOf(n)
        BY <3>3, <1>1 DEF BetaAdded, None, IdsOf
      <4> DEFINE x == [node |-> b, side |-> "left"]
                 T == [node : BetasOf(m), side : {"left", "right"}]
      <4>2. n.feeds[i] \in Seq(T) /\ x \in T
        BY <4>1, <2>1, <2>2
      <4>3. m.feeds[i] = Append(n.feeds[i], x)
        BY <4>1
      <4> HIDE DEF x, T
      <4>4. m.feeds[i] \in Seq(T)
        BY <4>2, <4>3, AppendIn
      <4> QED  BY <4>4 DEF T
    <3>4. CASE i # b /\ i # l /\ i = r
      <4>1. m.feeds[i] = Append(n.feeds[i], [node |-> b, side |-> "right"]) /\ i \in IdsOf(n)
        BY <3>4, <1>1 DEF BetaAdded
      <4> DEFINE x == [node |-> b, side |-> "right"]
                 T == [node : BetasOf(m), side : {"left", "right"}]
      <4>2. n.feeds[i] \in Seq(T) /\ x \in T
        BY <4>1, <2>1, <2>2
      <4>3. m.feeds[i] = Append(n.feeds[i], x)
        BY <4>1
      <4> HIDE DEF x, T
      <4>4. m.feeds[i] \in Seq(T)
        BY <4>2, <4>3, AppendIn
      <4> QED  BY <4>4 DEF T
    <3> QED  BY <3>1, <3>2, <3>3, <3>4
  <2>4. DOMAIN m.feeds = IdsOf(m)
    BY <1>1 DEF BetaAdded, IdsOf
  <2> QED  BY <2>3, <2>4 DEF Memories
<1>8. Typed(m)
  <2>1. n.varsOf \in [IdsOf(n) -> SUBSET Var]
    BY DEF WellFormed, Typed
  <2>2. (IF l = None THEN {} ELSE n.varsOf[l]) \in SUBSET Var /\ n.varsOf[r] \in SUBSET Var
    <3>1. l # None => l \in IdsOf(n)
      BY DEF None, IdsOf, WellFormed, Numbered
    <3> QED  BY <2>1, <3>1
  <2>3. m.varsOf \in [IdsOf(m) -> SUBSET Var]
    <3>1. (IF l = None THEN {} ELSE n.varsOf[l]) \cup n.varsOf[r] \in SUBSET Var
      BY <2>2
    <3>2. m.varsOf = Put(n.varsOf, b, (IF l = None THEN {} ELSE n.varsOf[l]) \cup n.varsOf[r])
      BY DEF BetaAdded
    <3> DEFINE v == (IF l = None THEN {} ELSE n.varsOf[l]) \cup n.varsOf[r]
    <3>4. v \in SUBSET Var
      BY <3>1
    <3> HIDE DEF v
    <3>5. Put(n.varsOf, b, v) \in [{b} \cup IdsOf(n) -> SUBSET Var]
      BY <2>1, <3>2, <3>4, PutIn
    <3> QED  BY <3>2, <3>5, <1>1 DEF v
  <2>4. m.common \in [BetasOf(m) -> SUBSET Var]
    <3>1. (IF passThru THEN n.varsOf[r]
           ELSE (IF l = None THEN {} ELSE n.varsOf[l]) \cap n.varsOf[r]) \in SUBSET Var
      BY <2>2
    <3>2. n.common \in [BetasOf(n) -> SUBSET Var]
      BY DEF WellFormed, Typed
    <3>3. m.common = Put(n.common, b,
                         IF passThru THEN n.varsOf[r]
                         ELSE (IF l = None THEN {} ELSE n.varsOf[l]) \cap n.varsOf[r])
      BY DEF BetaAdded
    <3> DEFINE v == IF passThru THEN n.varsOf[r]
                 ELSE (IF l = None THEN {} ELSE n.varsOf[l]) \cap n.varsOf[r]
    <3>4. v \in SUBSET Var
      BY <3>1
    <3> HIDE DEF v
    <3>5. Put(n.common, b, v) \in [{b} \cup BetasOf(n) -> SUBSET Var]
      BY <3>2, <3>4, PutIn
    <3> QED  BY <3>3, <3>5, <1>2 DEF v
  <2>5. m.consequent \in [BetasOf(m) -> SUBSET Pattern]
    <3>1. n.consequent \in [BetasOf(n) -> SUBSET Pattern] /\ {} \in SUBSET Pattern
      BY DEF WellFormed, Typed
    <3>2. m.consequent = Put(n.consequent, b, {})
      BY DEF BetaAdded
    <3>3. Put(n.consequent, b, {}) \in [{b} \cup BetasOf(n) -> SUBSET Pattern]
      BY <3>1, PutIn
    <3> QED  BY <3>2, <3>3, <1>2
  <2>6. m.heads \in [BetasOf(m) -> SUBSET Pattern]
    <3>1. n.heads \in [BetasOf(n) -> SUBSET Pattern] /\ {} \in SUBSET Pattern
      BY DEF WellFormed, Typed
    <3>2. m.heads = Put(n.heads, b, {})
      BY DEF BetaAdded
    <3>3. Put(n.heads, b, {}) \in [{b} \cup BetasOf(n) -> SUBSET Pattern]
      BY <3>1, PutIn
    <3> QED  BY <3>2, <3>3, <1>2
  <2>7. m.exists \in [BetasOf(m) -> SUBSET Var]
    <3>1. n.exists \in [BetasOf(n) -> SUBSET Var] /\ {} \in SUBSET Var
      BY DEF WellFormed, Typed
    <3>2. m.exists = Put(n.exists, b, {})
      BY DEF BetaAdded
    <3>3. Put(n.exists, b, {}) \in [{b} \cup BetasOf(n) -> SUBSET Var]
      BY <3>1, PutIn
    <3> QED  BY <3>2, <3>3, <1>2
  <2>8. /\ m.patternOf \in [AlphasOf(m) -> Pattern]
        /\ m.terminals \in [DOMAIN m.terminals -> SUBSET RuleBase]
        /\ DOMAIN m.terminals \subseteq BetasOf(m)
    BY <1>2 DEF WellFormed, Typed, BetaAdded
  <2> QED  BY <2>3, <2>4, <2>5, <2>6, <2>7, <2>8 DEF Typed
<1>9. /\ DOMAIN m.nodes = {Key(ps)} \cup DOMAIN n.nodes /\ m.nodes[Key(ps)] = b
      /\ \A k \in DOMAIN n.nodes : k # Key(ps) => m.nodes[k] = n.nodes[k]
  BY DEF BetaAdded, Put
<1>10. Filed(m)
  <2>1. ASSUME NEW k \in DOMAIN m.nodes
        PROVE  m.nodes[k] \in IdsOf(m) /\ (k[1] # 0 => m.nodes[k] \in BetasOf(m))
    <3>1. CASE k = Key(ps)
      BY <3>1, <1>1, <1>2, <1>9
    <3>2. CASE k # Key(ps)
      BY <3>2, <1>1, <1>2, <1>9 DEF WellFormed, Filed
    <3> QED  BY <3>1, <3>2
  <2> QED  BY <2>1 DEF Filed
<1>11. OneEach(m)
  <2>1. m.patternOf = n.patternOf /\ FoundIn(m) \ {b} \subseteq FoundIn(n)
    BY <1>9 DEF BetaAdded, FoundIn
  <2>2. ASSUME NEW a \in InUse(m)
        PROVE  a \in InUse(n)
    <3>1. a \in AlphasOf(n) /\ a \in IdsOf(n) /\ a # b
      BY <2>2, <1>2, <1>3 DEF InUse, WellFormed, Numbered
    <3>2. CASE a \in FoundIn(m)
      BY <3>1, <3>2, <2>1 DEF InUse
    <3>3. CASE a \in {l, r}
      BY <3>1, <3>3 DEF InUse, Usable
    <3>4. CASE a \notin FoundIn(m) /\ a \notin {l, r}
      <4>1. m.feeds[a] = n.feeds[a] /\ m.feeds[a] # <<>>
        BY <3>1, <3>4, <2>2 DEF BetaAdded, InUse
      <4> QED  BY <4>1, <3>1 DEF InUse
    <3> QED  BY <3>2, <3>3, <3>4
  <2>3. \A a \in InUse(n) : Known(n, <<n.patternOf[a]>>) => Known(m, <<n.patternOf[a]>>)
    BY <1>9 DEF Known
  <2> QED  BY <2>1, <2>2, <2>3 DEF WellFormed, OneEach
<1>12. Grows(n, m)
  <2>1. n.next <= m.next /\ m.terminals = n.terminals /\ m.patternOf = n.patternOf
    BY <1>1 DEF BetaAdded
  <2>2. \A i \in BetasOf(n) : m.consequent[i] = n.consequent[i]
    <3>1. DOMAIN n.consequent = BetasOf(n)
      BY DEF WellFormed, Typed
    <3> QED  BY <3>1, <1>3 DEF BetaAdded, Put
  <2>3. /\ AlphasOf(n) = AlphasOf(m) \cap IdsOf(n)
        /\ BetasOf(n) = BetasOf(m) \cap IdsOf(n)
    BY <1>1, <1>2 DEF WellFormed, Numbered
  <2>4. \A i \in BetasOf(m) \ BetasOf(n) : m.consequent[i] = {}
    <3>1. m.consequent[b] = {}
      BY DEF BetaAdded, Put
    <3> QED  BY <3>1, <1>2
  <2> QED  BY <2>1, <2>2, <2>3, <2>4, <1>5, <1>9 DEF Grows
<1> QED  BY <1>2, <1>4, <1>5, <1>6, <1>7, <1>8, <1>9, <1>10, <1>11, <1>12
         DEF WellFormed, BetaAdded, Known, NodeAt

LEMMA GrowsMore ==
    ASSUME NEW n1, NEW n2, NEW n3, WellFormed(n1), WellFormed(n2), WellFormed(n3),
           Grows(n1, n2), Grows(n2, n3)
    PROVE  Grows(n1, n3)
<1>1. IdsOf(n1) \subseteq IdsOf(n2) /\ n1.next <= n3.next
  BY DEF WellFormed, Numbered, Grows, IdsOf
<1>2. /\ AlphasOf(n1) = AlphasOf(n3) \cap IdsOf(n1)
      /\ BetasOf(n1) = BetasOf(n3) \cap IdsOf(n1)
  BY <1>1 DEF Grows
<1>3. AlphasOf(n1) \subseteq AlphasOf(n2) /\ BetasOf(n1) \subseteq BetasOf(n2)
  BY DEF Grows
<1>4. ASSUME NEW b \in BetasOf(n3) \ BetasOf(n1)
      PROVE  n3.consequent[b] = {}
  <2>1. CASE b \in BetasOf(n2)
    BY <2>1 DEF Grows
  <2>2. CASE b \notin BetasOf(n2)
    BY <2>2 DEF Grows
  <2> QED  BY <2>1, <2>2
<1> QED  BY <1>1, <1>2, <1>3, <1>4 DEF Grows

LEMMA GrowsRefl ==
    ASSUME NEW n, WellFormed(n)
    PROVE  Grows(n, n)
<1>1. AlphasOf(n) \subseteq IdsOf(n) /\ BetasOf(n) \subseteq IdsOf(n) /\ n.next <= n.next
  BY DEF WellFormed, Numbered
<1> QED  BY <1>1 DEF Grows

(***************************************************************************)
(* The patterns a node joins.                                              *)
(***************************************************************************)
Joins(n, id) == {n.patternOf[a] : a \in LeavesOf(n)[id]}

LeafStep(n, leaves, id) ==
    IF id = None THEN {}
    ELSE IF id \in DOMAIN n.patternOf THEN {id}
    ELSE leaves[n.parents[id][1]] \cup leaves[n.parents[id][2]]

Leaves(n, k, leaves) == leaves = [id \in 0 .. k |-> LeafStep(n, leaves, id)]

LEMMA LeavesExist ==
    ASSUME NEW n, WellFormed(n)
    PROVE  \E leaves : Leaves(n, n.next - 1, leaves)
<1> DEFINE N == n.next - 1
           P == {k \in 0 .. N : \E leaves : Leaves(n, k, leaves)}
<1>1. N \in Nat
  BY DEF WellFormed, Numbered
<1>2. 0 \in P
  <2> DEFINE leaves == [id \in 0 .. 0 |-> {}]
  <2>1. Leaves(n, 0, leaves)
    BY DEF Leaves, LeafStep, None
  <2> QED  BY <1>1, <2>1
<1>3. ASSUME NEW k \in 1 .. N, k - 1 \in P
      PROVE  k \in P
  <2>1. PICK less : Leaves(n, k - 1, less)
    BY <1>3
  <2> DEFINE leaves == [id \in 0 .. k |-> LeafStep(n, less, id)]
  <2>2. ASSUME NEW id \in 0 .. k
        PROVE  LeafStep(n, less, id) = LeafStep(n, leaves, id)
    <3>1. CASE id = None \/ id \in AlphasOf(n)
      BY <3>1 DEF LeafStep, AlphasOf
    <3>2. CASE id # None /\ id \notin AlphasOf(n)
      <4> DEFINE l == n.parents[id][1]
                 r == n.parents[id][2]
      <4>1. id \in BetasOf(n)
        BY <3>2, <1>1 DEF WellFormed, Numbered, IdsOf, None
      <4>2. l \in 0 .. id - 1 /\ r \in 1 .. id - 1
        BY <4>1 DEF WellFormed, Joined
      <4>3. l \in 0 .. k - 1 /\ r \in 0 .. k - 1 /\ l \in 0 .. k /\ r \in 0 .. k
        BY <4>2
      <4> HIDE DEF l, r
      <4>4. less[l] = LeafStep(n, less, l) /\ less[r] = LeafStep(n, less, r)
        BY <2>1, <4>3 DEF Leaves
      <4>5. leaves[l] = LeafStep(n, less, l) /\ leaves[r] = LeafStep(n, less, r)
        BY <4>3
      <4>6. less[l] = leaves[l] /\ less[r] = leaves[r]
        BY <4>4, <4>5
      <4> HIDE DEF leaves
      <4> QED  BY <3>2, <4>6 DEF LeafStep, AlphasOf, l, r
    <3> QED  BY <3>1, <3>2
  <2>3. Leaves(n, k, leaves)
    BY <2>2 DEF Leaves
  <2> QED  BY <2>3
<1> HIDE DEF P, N
<1>4. 0 .. N \subseteq P
  BY <1>1, <1>2, <1>3, F!UpTo
<1>5. N \in P
  BY <1>1, <1>4
<1> QED  BY <1>5 DEF P, N

LEMMA LeavesAre ==
    ASSUME NEW n, WellFormed(n), NEW id \in 0 .. n.next - 1
    PROVE  LeavesOf(n)[id] = LeafStep(n, LeavesOf(n), id)
<1>1. PICK f : f = [i \in 0 .. n.next - 1 |-> LeafStep(n, f, i)]
  BY LeavesExist DEF Leaves
<1> DEFINE L == CHOOSE leaves : leaves = [i \in 0 .. n.next - 1 |-> LeafStep(n, leaves, i)]
<1>2. LeavesOf(n) = L
  BY DEF LeavesOf, LeafStep
<1>3. L = [i \in 0 .. n.next - 1 |-> LeafStep(n, L, i)]
  BY <1>1
<1> HIDE DEF L
<1> QED  BY <1>2, <1>3

LEMMA JoinsIs ==
    ASSUME NEW n, WellFormed(n)
    PROVE  /\ Joins(n, None) = {}
           /\ \A a \in AlphasOf(n) : Joins(n, a) = {n.patternOf[a]}
           /\ \A b \in BetasOf(n) :
                 Joins(n, b) = Joins(n, n.parents[b][1]) \cup Joins(n, n.parents[b][2])
<1>1. /\ None \in 0 .. n.next - 1
      /\ \A a \in AlphasOf(n) : a \in 0 .. n.next - 1 /\ a # None
      /\ \A b \in BetasOf(n) : b \in 0 .. n.next - 1 /\ b # None /\ b \notin AlphasOf(n)
  BY DEF WellFormed, Numbered, None, IdsOf
<1>2. LeavesOf(n)[None] = {}
  BY <1>1, LeavesAre DEF LeafStep
<1>3. ASSUME NEW a \in AlphasOf(n)
      PROVE  LeavesOf(n)[a] = {a}
  <2>1. LeavesOf(n)[a] = LeafStep(n, LeavesOf(n), a)
    BY <1>1, LeavesAre
  <2> QED  BY <1>1, <2>1 DEF LeafStep, AlphasOf
<1>4. ASSUME NEW b \in BetasOf(n)
      PROVE  LeavesOf(n)[b] = LeavesOf(n)[n.parents[b][1]] \cup LeavesOf(n)[n.parents[b][2]]
  <2>1. LeavesOf(n)[b] = LeafStep(n, LeavesOf(n), b)
    BY <1>1, LeavesAre
  <2> QED  BY <1>1, <2>1 DEF LeafStep, AlphasOf
<1> QED  BY <1>2, <1>3, <1>4 DEF Joins

\* A node that is there joins what it joined, whatever is added.
LEMMA JoinsKept ==
    ASSUME NEW n, NEW m, WellFormed(n), WellFormed(m), Grows(n, m),
           NEW id \in 0 .. n.next - 1
    PROVE  Joins(m, id) = Joins(n, id)
<1> DEFINE N == n.next - 1
           P == {k \in 0 .. N : \A i \in 0 .. k : Joins(m, i) = Joins(n, i)}
<1>1. N \in Nat
  BY DEF WellFormed, Numbered
<1>2. 0 \in P
  <2>1. Joins(m, None) = {} /\ Joins(n, None) = {}
    BY JoinsIs
  <2>2. Joins(m, 0) = Joins(n, 0)
    BY <2>1 DEF None
  <2>3. 0 .. 0 = {0} /\ 0 \in 0 .. N
    BY <1>1
  <2> QED  BY <2>2, <2>3
<1>3. ASSUME NEW k \in 1 .. N, k - 1 \in P
      PROVE  k \in P
  <2>1. k \in AlphasOf(n) \/ k \in BetasOf(n)
    BY DEF WellFormed, Numbered, IdsOf
  <2>2. ASSUME k \in AlphasOf(n)
        PROVE  Joins(m, k) = Joins(n, k)
    <3>1. k \in AlphasOf(m) /\ m.patternOf[k] = n.patternOf[k]
      BY <2>2 DEF Grows
    <3>2. Joins(m, k) = {m.patternOf[k]}
      BY <3>1, JoinsIs
    <3>3. Joins(n, k) = {n.patternOf[k]}
      BY <2>2, JoinsIs
    <3> QED  BY <3>1, <3>2, <3>3
  <2>3. ASSUME k \in BetasOf(n)
        PROVE  Joins(m, k) = Joins(n, k)
    <3>1. k \in BetasOf(m) /\ m.parents[k] = n.parents[k]
      BY <2>3 DEF Grows
    <3> DEFINE l == n.parents[k][1]
               r == n.parents[k][2]
    <3>2. l \in 0 .. k - 1 /\ r \in 0 .. k - 1
      BY <2>3 DEF WellFormed, Joined
    <3>3. Joins(m, l) = Joins(n, l) /\ Joins(m, r) = Joins(n, r)
      BY <3>2, <1>3
    <3>4. Joins(m, k) = Joins(m, l) \cup Joins(m, r)
      BY <3>1, JoinsIs
    <3>5. Joins(n, k) = Joins(n, l) \cup Joins(n, r)
      BY <2>3, JoinsIs
    <3> QED  BY <3>3, <3>4, <3>5
  <2>4. Joins(m, k) = Joins(n, k)
    BY <2>1, <2>2, <2>3
  <2>5. \A i \in 0 .. k : i = k \/ i \in 0 .. k - 1
    OBVIOUS
  <2> QED  BY <2>4, <2>5, <1>3
<1> HIDE DEF P, N
<1>4. 0 .. N \subseteq P
  BY <1>1, <1>2, <1>3, F!UpTo
<1>5. N \in P /\ id \in 0 .. N
  BY <1>1, <1>4 DEF N
<1> QED  BY <1>5 DEF P

(***************************************************************************)
(* What the dictionary means: a list leads to the node that joins its      *)
(* patterns, if no two lists of other patterns have the same hash.         *)
(***************************************************************************)
PatsOf(ps) == ToSet(ps) \ {<<>>}

NoCollision == \A ps, qs \in Lists : Key(ps) = Key(qs) => PatsOf(ps) = PatsOf(qs)

Stands(n, k, ps) == /\ Key(ps) = k /\ PatsOf(ps) # {}
                    /\ Joins(n, n.nodes[k]) = PatsOf(ps)
Meaningful(n) == \A k \in DOMAIN n.nodes : \E ps \in Lists : Stands(n, k, ps)

LEMMA MeaningIs ==
    ASSUME NEW n, WellFormed(n), NoCollision, Meaningful(n), NEW ps \in Lists, Known(n, ps)
    PROVE  Joins(n, NodeAt(n, ps)) = PatsOf(ps) /\ PatsOf(ps) # {}
<1>1. PICK qs \in Lists : Stands(n, Key(ps), qs)
  BY DEF Meaningful, Known
<1>2. PatsOf(qs) = PatsOf(ps)
  BY <1>1 DEF NoCollision, Stands
<1> QED  BY <1>1, <1>2 DEF Stands, NodeAt

LEMMA AlphaMeaning ==
    ASSUME NEW n, WellFormed(n), NEW p \in BodyPatterns, ~Known(n, <<p>>),
           NEW m, AlphaAdded(n, m, p), Meaningful(n)
    PROVE  Meaningful(m) /\ Joins(m, n.next) = {p}
<1>1. WellFormed(m) /\ Grows(n, m) /\ n.next \in AlphasOf(m) /\ NodeAt(m, <<p>>) = n.next
  BY AlphaKeeps
<1>2. Joins(m, n.next) = {p}
  <2>1. m.patternOf[n.next] = p
    BY DEF AlphaAdded, Put
  <2>2. Joins(m, n.next) = {m.patternOf[n.next]}
    BY <1>1, JoinsIs
  <2> QED  BY <2>1, <2>2
<1>3. ASSUME NEW k \in DOMAIN m.nodes
      PROVE  \E ps \in Lists : Stands(m, k, ps)
  <2>1. CASE k = Key(<<p>>)
    <3>1. PatsOf(<<p>>) = {p} /\ <<p>> \in Lists
      BY SingleIs, PatternNotNone DEF PatsOf
    <3>2. Stands(m, k, <<p>>)
      BY <2>1, <3>1, <1>1, <1>2 DEF Stands, NodeAt
    <3> QED  BY <3>1, <3>2
  <2>2. CASE k # Key(<<p>>)
    <3>1. k \in DOMAIN n.nodes /\ m.nodes[k] = n.nodes[k]
      BY <2>2 DEF AlphaAdded, Put
    <3>2. PICK ps \in Lists : Stands(n, k, ps)
      BY <3>1 DEF Meaningful
    <3>3. n.nodes[k] \in 0 .. n.next - 1
      BY <3>1 DEF WellFormed, Filed, IdsOf
    <3>4. Joins(m, n.nodes[k]) = Joins(n, n.nodes[k])
      BY <3>3, <1>1, JoinsKept
    <3> QED  BY <3>1, <3>2, <3>4 DEF Stands
  <2> QED  BY <2>1, <2>2
<1> QED  BY <1>2, <1>3 DEF Meaningful

LEMMA BetaMeaning ==
    ASSUME NEW n, WellFormed(n), NEW l \in 0 .. n.next - 1, NEW r \in IdsOf(n),
           NEW ps \in Lists, NEW passThru, NEW m, BetaAdded(n, m, l, r, ps, passThru),
           Usable(n, l), Usable(n, r), Meaningful(n), PatsOf(ps) # {}, PatsOf(ps) = Joins(n, l) \cup Joins(n, r)
    PROVE  Meaningful(m) /\ Joins(m, n.next) = PatsOf(ps)
<1>1. /\ WellFormed(m) /\ Grows(n, m) /\ n.next \in BetasOf(m) /\ NodeAt(m, ps) = n.next
      /\ m.parents[n.next] = <<l, r>>
  BY BetaKeeps
<1>2. Joins(m, n.next) = PatsOf(ps)
  <2>1. Joins(m, n.next) = Joins(m, l) \cup Joins(m, r)
    BY <1>1, JoinsIs
  <2>2. r \in 0 .. n.next - 1
    BY DEF IdsOf
  <2>3. Joins(m, l) = Joins(n, l) /\ Joins(m, r) = Joins(n, r)
    BY <2>2, <1>1, JoinsKept
  <2> QED  BY <2>1, <2>3
<1>3. ASSUME NEW k \in DOMAIN m.nodes
      PROVE  \E qs \in Lists : Stands(m, k, qs)
  <2>1. CASE k = Key(ps)
    BY <2>1, <1>1, <1>2 DEF Stands, NodeAt
  <2>2. CASE k # Key(ps)
    <3>1. k \in DOMAIN n.nodes /\ m.nodes[k] = n.nodes[k]
      BY <2>2 DEF BetaAdded, Put
    <3>2. PICK qs \in Lists : Stands(n, k, qs)
      BY <3>1 DEF Meaningful
    <3>3. n.nodes[k] \in 0 .. n.next - 1
      BY <3>1 DEF WellFormed, Filed, IdsOf
    <3>4. Joins(m, n.nodes[k]) = Joins(n, n.nodes[k])
      BY <3>3, <1>1, JoinsKept
    <3> QED  BY <3>1, <3>2, <3>4 DEF Stands
  <2> QED  BY <2>1, <2>2
<1> QED  BY <1>2, <1>3 DEF Meaningful

(***************************************************************************)
(* The memories: a node feeds each successor's memory on its side once.    *)
(***************************************************************************)
Feeding(n, i, b, side) ==
    {j \in DOMAIN n.feeds[i] : n.feeds[i][j] = [node |-> b, side |-> side]}
FedOnce(n, i, b, side, yes) == Cardinality(Feeding(n, i, b, side)) = IF yes THEN 1 ELSE 0
Wired(n) ==
    \A i \in IdsOf(n), b \in BetasOf(n) :
        /\ FedOnce(n, i, b, "left", n.parents[b][1] = i)
        /\ FedOnce(n, i, b, "right", n.parents[b][2] = i /\ n.parents[b][1] # i)

\* A join has two parents.
Apart(n) == \A b \in BetasOf(n) : n.parents[b][1] # n.parents[b][2]

LEMMA Appended ==
    ASSUME NEW T, NEW s \in Seq(T), NEW x, NEW y
    PROVE  {j \in DOMAIN Append(s, x) : Append(s, x)[j] = y} =
             {j \in DOMAIN s : s[j] = y} \cup (IF x = y THEN {Len(s) + 1} ELSE {})
<1>1. /\ DOMAIN Append(s, x) = 1 .. Len(s) + 1 /\ DOMAIN s = 1 .. Len(s)
      /\ Append(s, x)[Len(s) + 1] = x
      /\ \A j \in 1 .. Len(s) : Append(s, x)[j] = s[j]
  OBVIOUS
<1>2. 1 .. Len(s) + 1 = (1 .. Len(s)) \cup {Len(s) + 1}
  OBVIOUS
<1> QED  BY <1>1, <1>2

LEMMA AlphaWired ==
    ASSUME NEW n, WellFormed(n), Wired(n), NEW p \in BodyPatterns, ~Known(n, <<p>>),
           NEW m, AlphaAdded(n, m, p)
    PROVE  Wired(m)
<1>1. WellFormed(m) /\ BetasOf(m) = BetasOf(n) /\ m.parents = n.parents
      /\ IdsOf(m) = {n.next} \cup IdsOf(n) /\ n.next \notin IdsOf(n)
  BY AlphaKeeps DEF AlphaAdded, BetasOf, IdsOf, WellFormed, Numbered
<1>2. /\ m.feeds[n.next] = <<>>
      /\ \A i \in IdsOf(n) : m.feeds[i] = n.feeds[i]
  <2>1. DOMAIN n.feeds = IdsOf(n)
    BY DEF WellFormed, Memories
  <2> QED  BY <2>1, <1>1 DEF AlphaAdded, Put
<1>3. ASSUME NEW b \in BetasOf(m), NEW side
      PROVE  FedOnce(m, n.next, b, side, FALSE)
  <2>1. Feeding(m, n.next, b, side) = {}
    BY <1>2 DEF Feeding
  <2> QED  BY <2>1, FS_EmptySet DEF FedOnce
<1>4. ASSUME NEW b \in BetasOf(m)
      PROVE  m.parents[b][1] # n.next /\ m.parents[b][2] # n.next
  <2>1. b \in IdsOf(n) /\ b \in BetasOf(n)
    BY <1>1 DEF WellFormed, Numbered
  <2> QED  BY <2>1, <1>1 DEF WellFormed, Joined, IdsOf, Numbered
<1>5. ASSUME NEW i \in IdsOf(n), NEW b \in BetasOf(m), NEW side, NEW yes
      PROVE  FedOnce(m, i, b, side, yes) <=> FedOnce(n, i, b, side, yes)
  BY <1>2 DEF FedOnce, Feeding
<1>6. ASSUME NEW i \in IdsOf(m), NEW b \in BetasOf(m)
      PROVE  /\ FedOnce(m, i, b, "left", m.parents[b][1] = i)
             /\ FedOnce(m, i, b, "right", m.parents[b][2] = i /\ m.parents[b][1] # i)
  <2>1. CASE i = n.next
    BY <2>1, <1>3, <1>4 DEF FedOnce
  <2>2. CASE i # n.next
    BY <2>2, <1>1, <1>5 DEF Wired
  <2> QED  BY <2>1, <2>2
<1> QED  BY <1>6 DEF Wired

LEMMA BetaWired ==
    ASSUME NEW n, WellFormed(n), Wired(n), NEW l \in 0 .. n.next - 1, NEW r \in IdsOf(n),
           NEW ps, NEW passThru, NEW m, BetaAdded(n, m, l, r, ps, passThru),
           Usable(n, l), Usable(n, r)
    PROVE  Wired(m) /\ (Apart(n) /\ l # r => Apart(m))
<1> DEFINE b == n.next
           T == [node : BetasOf(n), side : {"left", "right"}]
<1>1. /\ WellFormed(m) /\ Grows(n, m) /\ m.parents[b] = <<l, r>>
      /\ b \in Nat /\ b \notin IdsOf(n) /\ IdsOf(m) = {b} \cup IdsOf(n)
      /\ r # b /\ l # b /\ r # None
  <2>1. WellFormed(m) /\ Grows(n, m) /\ m.parents[b] = <<l, r>>
    BY BetaKeeps
  <2>2. m.next = b + 1 /\ b \in Nat \ {0}
    BY DEF BetaAdded, WellFormed, Numbered
  <2> QED  BY <2>1, <2>2 DEF IdsOf, None
<1>2. BetasOf(m) = {b} \cup BetasOf(n) /\ b \notin BetasOf(n)
  <2>1. b \notin BetasOf(n)
    BY <1>1 DEF WellFormed, Numbered
  <2> QED  BY <2>1 DEF BetaAdded, BetasOf, Put
<1>3. ASSUME NEW c \in BetasOf(n)
      PROVE  /\ m.parents[c] = n.parents[c] /\ m.parents[c][1] # b /\ m.parents[c][2] # b
             /\ c \in IdsOf(n) /\ c # b
  <2>1. c \in IdsOf(n)
    BY DEF WellFormed, Numbered
  <2> QED  BY <2>1, <1>1, <1>2 DEF WellFormed, Joined, Grows, IdsOf
<1>4. ASSUME NEW i \in IdsOf(n), NEW c \in BetasOf(n), NEW side
      PROVE  Feeding(m, i, c, side) = Feeding(n, i, c, side)
  <2> DEFINE y == [node |-> c, side |-> side]
  <2>1. n.feeds[i] \in Seq(T)
    BY DEF WellFormed, Memories
  <2>2. CASE i # l /\ i # r
    BY <2>2 DEF BetaAdded, Feeding
  <2>3. CASE i = l \/ i = r
    <3>1. PICK s : m.feeds[i] = Append(n.feeds[i], [node |-> b, side |-> s])
      <4>1. i # None
        BY DEF IdsOf, None
      <4> QED  BY <4>1, <2>3 DEF BetaAdded
    <3>2. [node |-> b, side |-> s] # y
      BY <1>3
    <3> HIDE DEF T
    <3> QED  BY <2>1, <3>1, <3>2, Appended DEF Feeding
  <2> QED  BY <2>2, <2>3
<1>5. ASSUME NEW c \in BetasOf(m), NEW side
      PROVE  FedOnce(m, b, c, side, FALSE)
  <2>1. Feeding(m, b, c, side) = {}
    BY DEF Feeding, BetaAdded
  <2> QED  BY <2>1, FS_EmptySet DEF FedOnce
<1>6. ASSUME NEW i \in IdsOf(n), NEW side \in {"left", "right"}
      PROVE  Feeding(m, i, b, side) =
                IF (side = "left" /\ i = l) \/ (side = "right" /\ i = r /\ i # l)
                THEN {Len(n.feeds[i]) + 1} ELSE {}
  <2> DEFINE y == [node |-> b, side |-> side]
  <2>1. n.feeds[i] \in Seq(T)
    BY DEF WellFormed, Memories
  <2>2. {j \in DOMAIN n.feeds[i] : n.feeds[i][j] = y} = {}
    <3>1. ASSUME NEW j \in DOMAIN n.feeds[i]
          PROVE  n.feeds[i][j] # y
      <4>1. j \in 1 .. Len(n.feeds[i])
        BY <2>1
      <4>2. n.feeds[i][j] \in T
        BY <2>1, <4>1, ElementOfSeq
      <4> QED  BY <4>2, <1>2
    <3> QED  BY <3>1
  <2>3. CASE i = l
    <3> DEFINE x == [node |-> b, side |-> "left"]
    <3>1. m.feeds[i] = Append(n.feeds[i], x)
      BY <2>3 DEF BetaAdded, IdsOf, None
    <3>2. x = y <=> side = "left"
      OBVIOUS
    <3> HIDE DEF T, x, y
    <3>3. {j \in DOMAIN m.feeds[i] : m.feeds[i][j] = y} =
             IF x = y THEN {Len(n.feeds[i]) + 1} ELSE {}
      BY <2>1, <2>2, <3>1, Appended
    <3> QED  BY <3>2, <3>3, <2>3 DEF Feeding, y
  <2>4. CASE i # l /\ i = r
    <3> DEFINE x == [node |-> b, side |-> "right"]
    <3>1. m.feeds[i] = Append(n.feeds[i], x)
      BY <2>4 DEF BetaAdded
    <3>2. x = y <=> side = "right"
      OBVIOUS
    <3> HIDE DEF T, x, y
    <3>3. {j \in DOMAIN m.feeds[i] : m.feeds[i][j] = y} =
             IF x = y THEN {Len(n.feeds[i]) + 1} ELSE {}
      BY <2>1, <2>2, <3>1, Appended
    <3> QED  BY <3>2, <3>3, <2>4 DEF Feeding, y
  <2>5. CASE i # l /\ i # r
    BY <2>2, <2>5 DEF BetaAdded, Feeding
  <2> QED  BY <2>3, <2>4, <2>5
<1>7. ASSUME NEW i \in IdsOf(m), NEW c \in BetasOf(m)
      PROVE  /\ FedOnce(m, i, c, "left", m.parents[c][1] = i)
             /\ FedOnce(m, i, c, "right", m.parents[c][2] = i /\ m.parents[c][1] # i)
  <2>1. CASE i = b
    <3>1. m.parents[c][1] # b /\ m.parents[c][2] # b
      BY <1>1, <1>2, <1>3
    <3> QED  BY <2>1, <3>1, <1>5 DEF FedOnce
  <2>2. CASE i # b /\ c = b
    <3>1. i \in IdsOf(n)
      BY <2>2, <1>1
    <3>2. \A x : Cardinality({x}) = 1
      BY FS_Singleton
    <3>3. Cardinality({}) = 0
      BY FS_EmptySet
    <3>4. /\ Feeding(m, i, b, "left") = IF i = l THEN {Len(n.feeds[i]) + 1} ELSE {}
          /\ Feeding(m, i, b, "right") =
                IF i = r /\ i # l THEN {Len(n.feeds[i]) + 1} ELSE {}
      BY <3>1, <1>6
    <3>5. m.parents[c][1] = l /\ m.parents[c][2] = r
      BY <2>2, <1>1
    <3> QED  BY <2>2, <3>2, <3>3, <3>4, <3>5 DEF FedOnce
  <2>3. CASE i # b /\ c # b
    <3>1. i \in IdsOf(n) /\ c \in BetasOf(n) /\ m.parents[c] = n.parents[c]
      BY <2>3, <1>1, <1>2, <1>3
    <3>2. /\ FedOnce(n, i, c, "left", n.parents[c][1] = i)
          /\ FedOnce(n, i, c, "right", n.parents[c][2] = i /\ n.parents[c][1] # i)
      BY <3>1 DEF Wired
    <3> QED  BY <3>1, <3>2, <1>4 DEF FedOnce
  <2> QED  BY <2>1, <2>2, <2>3
<1>8. ASSUME Apart(n), l # r
      PROVE  Apart(m)
  BY <1>8, <1>1, <1>2, <1>3 DEF Apart
<1> QED  BY <1>7, <1>8 DEF Wired

(***************************************************************************)
(* The first pass over the body.                                           *)
(***************************************************************************)
InLists(attached) == UNION {PatsOf(attached[i]) : i \in DOMAIN attached}

\* What holds of the pass after the patterns done of the body, begun with n0.
Passed(n0, s, done) ==
    /\ DOMAIN s = {"net", "matched", "attached", "raised"} /\ s.raised = FALSE
    /\ WellFormed(s.net) /\ Wired(s.net) /\ Grows(n0, s.net)
    /\ s.matched \in Seq(BodyPatterns) /\ s.attached \in Seq(Lists)
    /\ \A i \in DOMAIN s.matched : Known(s.net, <<s.matched[i]>>)
    /\ \A i \in DOMAIN s.attached : /\ Known(s.net, s.attached[i])
                                    /\ PatsOf(s.attached[i]) # {}
    /\ done = ToSet(s.matched) \cup InLists(s.attached)

\* No pattern is in two of the lists.
Disjoint(attached) ==
    \A i, j \in DOMAIN attached :
        i # j => PatsOf(attached[i]) \cap PatsOf(attached[j]) = {}
Parted(s) == /\ IsInjective(s.matched) /\ Disjoint(s.attached)
             /\ ToSet(s.matched) \cap InLists(s.attached) = {}

LEMMA ToSetAppend ==
    ASSUME NEW T, NEW s \in Seq(T), NEW x
    PROVE  /\ ToSet(Append(s, x)) = ToSet(s) \cup {x}
           /\ IsInjective(s) /\ x \notin ToSet(s) => IsInjective(Append(s, x))
<1>1. /\ DOMAIN Append(s, x) = 1 .. Len(s) + 1 /\ DOMAIN s = 1 .. Len(s)
      /\ Append(s, x)[Len(s) + 1] = x
      /\ \A j \in 1 .. Len(s) : Append(s, x)[j] = s[j]
  OBVIOUS
<1>2. 1 .. Len(s) + 1 = (1 .. Len(s)) \cup {Len(s) + 1} /\ Len(s) + 1 \notin 1 .. Len(s)
  OBVIOUS
<1>3. ToSet(Append(s, x)) = ToSet(s) \cup {x}
  <2>1. ASSUME NEW j \in DOMAIN Append(s, x)
        PROVE  Append(s, x)[j] = x \/ Append(s, x)[j] \in ToSet(s)
    BY <1>1, <1>2 DEF ToSet
  <2>2. x \in ToSet(Append(s, x))
    BY <1>1, <1>2 DEF ToSet
  <2>3. ASSUME NEW j \in DOMAIN s
        PROVE  s[j] \in ToSet(Append(s, x))
    BY <1>1, <1>2 DEF ToSet
  <2>4. ToSet(Append(s, x)) \subseteq ToSet(s) \cup {x}
    <3>1. ASSUME NEW y \in ToSet(Append(s, x))
          PROVE  y \in ToSet(s) \cup {x}
      <4>1. PICK j \in DOMAIN Append(s, x) : y = Append(s, x)[j]
        BY InToSet
      <4> QED  BY <4>1, <2>1
    <3> QED  BY <3>1
  <2>5. ToSet(s) \subseteq ToSet(Append(s, x))
    <3>1. ASSUME NEW y \in ToSet(s)
          PROVE  y \in ToSet(Append(s, x))
      <4>1. PICK j \in DOMAIN s : y = s[j]
        BY InToSet
      <4> QED  BY <4>1, <2>3
    <3> QED  BY <3>1
  <2> QED  BY <2>2, <2>4, <2>5
<1>4. ASSUME IsInjective(s), x \notin ToSet(s)
      PROVE  IsInjective(Append(s, x))
  <2>1. \A j \in 1 .. Len(s) : s[j] # x
    BY <1>1, <1>4 DEF ToSet
  <2> QED  BY <1>1, <1>2, <1>4, <2>1 DEF IsInjective
<1> QED  BY <1>3, <1>4

LEMMA InListsAppend ==
    ASSUME NEW s \in Seq(Lists), NEW ps
    PROVE  /\ InLists(Append(s, ps)) = InLists(s) \cup PatsOf(ps)
           /\ Disjoint(s) /\ PatsOf(ps) \cap InLists(s) = {} => Disjoint(Append(s, ps))
<1>1. /\ DOMAIN Append(s, ps) = 1 .. Len(s) + 1 /\ DOMAIN s = 1 .. Len(s)
      /\ Append(s, ps)[Len(s) + 1] = ps
      /\ \A j \in 1 .. Len(s) : Append(s, ps)[j] = s[j]
  OBVIOUS
<1>2. 1 .. Len(s) + 1 = (1 .. Len(s)) \cup {Len(s) + 1} /\ Len(s) + 1 \notin 1 .. Len(s)
  OBVIOUS
<1>3. InLists(Append(s, ps)) = InLists(s) \cup PatsOf(ps)
  <2>1. ASSUME NEW j \in DOMAIN Append(s, ps), NEW x \in PatsOf(Append(s, ps)[j])
        PROVE  x \in PatsOf(ps) \/ x \in InLists(s)
    BY <1>1, <1>2 DEF InLists
  <2>2. ASSUME NEW x \in PatsOf(ps)
        PROVE  x \in InLists(Append(s, ps))
    BY <1>1, <1>2 DEF InLists
  <2>3. ASSUME NEW j \in DOMAIN s, NEW x \in PatsOf(s[j])
        PROVE  x \in InLists(Append(s, ps))
    <3>1. j \in DOMAIN Append(s, ps) /\ Append(s, ps)[j] = s[j]
      BY <1>1, <1>2
    <3> QED  BY <3>1 DEF InLists
  <2>4. InLists(Append(s, ps)) \subseteq InLists(s) \cup PatsOf(ps)
    BY <2>1 DEF InLists
  <2>5. InLists(s) \subseteq InLists(Append(s, ps))
    <3>1. ASSUME NEW x \in InLists(s)
          PROVE  x \in InLists(Append(s, ps))
      <4>1. PICK j \in DOMAIN s : x \in PatsOf(s[j])
        BY DEF InLists
      <4> QED  BY <4>1, <2>3
    <3> QED  BY <3>1
  <2> QED  BY <2>2, <2>4, <2>5
<1>4. ASSUME Disjoint(s), PatsOf(ps) \cap InLists(s) = {}
      PROVE  Disjoint(Append(s, ps))
  <2>1. \A j \in 1 .. Len(s) : PatsOf(s[j]) \cap PatsOf(ps) = {}
    BY <1>1, <1>4 DEF InLists
  <2> QED  BY <1>1, <1>2, <1>4, <2>1 DEF Disjoint
<1> QED  BY <1>3, <1>4

LEMMA KnownStays ==
    ASSUME NEW n, NEW m, Grows(n, m), NEW ps, Known(n, ps)
    PROVE  Known(m, ps)
BY DEF Grows, Known

Kept(n0, s, t, done, cur) ==
    /\ Passed(n0, t, done \cup {cur})
    /\ Apart(s.net) => Apart(t.net)
    /\ Parted(s) /\ cur \notin done => Parted(t)
    /\ NoCollision /\ Meaningful(s.net) => Meaningful(t.net)

LEMMA MatchKeeps ==
    ASSUME NEW n0, NEW s, NEW done, Passed(n0, s, done), NEW cur \in BodyPatterns,
           Known(s.net, <<cur>>)
    PROVE  Kept(n0, s, [s EXCEPT !.matched = Append(@, cur)], done, cur)
<1> DEFINE t == [s EXCEPT !.matched = Append(@, cur)]
<1>1. /\ DOMAIN t = {"net", "matched", "attached", "raised"} /\ t.net = s.net
      /\ t.raised = FALSE
      /\ t.attached = s.attached /\ t.matched = Append(s.matched, cur)
  BY DEF Passed
<1>2. s.matched \in Seq(BodyPatterns)
  BY DEF Passed
<1>3. /\ ToSet(t.matched) = ToSet(s.matched) \cup {cur}
      /\ IsInjective(s.matched) /\ cur \notin ToSet(s.matched) => IsInjective(t.matched)
  BY <1>1, <1>2, ToSetAppend
<1>4. t.matched \in Seq(BodyPatterns)
  BY <1>1, <1>2
<1>5. \A i \in DOMAIN t.matched : Known(t.net, <<t.matched[i]>>)
  <2>1. ASSUME NEW i \in DOMAIN t.matched
        PROVE  Known(s.net, <<t.matched[i]>>)
    <3>1. t.matched[i] \in ToSet(t.matched)
      BY InToSet
    <3>2. CASE t.matched[i] = cur
      BY <3>2
    <3>3. CASE t.matched[i] \in ToSet(s.matched)
      <4>1. PICK j \in DOMAIN s.matched : t.matched[i] = s.matched[j]
        BY <3>3, InToSet
      <4> QED  BY <4>1 DEF Passed
    <3> QED  BY <3>1, <3>2, <3>3, <1>3
  <2> QED  BY <2>1, <1>1
<1> HIDE DEF t
<1>6. Passed(n0, t, done \cup {cur})
  <2>1. done \cup {cur} = ToSet(t.matched) \cup InLists(t.attached)
    BY <1>1, <1>3 DEF Passed
  <2> QED  BY <2>1, <1>1, <1>4, <1>5 DEF Passed
<1>7. ASSUME Parted(s), cur \notin done
      PROVE  Parted(t)
  BY <1>7, <1>1, <1>3 DEF Parted, Passed
<1> QED  BY <1>1, <1>6, <1>7 DEF Kept, t

LEMMA AloneKeeps ==
    ASSUME NEW n0, WellFormed(n0), NEW s, NEW done, Passed(n0, s, done),
           NEW cur \in BodyPatterns, ~Known(s.net, <<cur>>),
           NEW m, AlphaAdded(s.net, m, cur)
    PROVE  Kept(n0, s, [s EXCEPT !.net = m, !.attached = Append(@, <<cur>>)], done, cur)
<1> DEFINE t == [s EXCEPT !.net = m, !.attached = Append(@, <<cur>>)]
<1>1. /\ DOMAIN t = {"net", "matched", "attached", "raised"} /\ t.net = m
      /\ t.raised = FALSE
      /\ t.attached = Append(s.attached, <<cur>>) /\ t.matched = s.matched
  BY DEF Passed
<1> HIDE DEF t
<1>2. /\ WellFormed(m) /\ Grows(s.net, m) /\ Known(m, <<cur>>) /\ Wired(m)
      /\ WellFormed(s.net)
  BY AlphaKeeps, AlphaWired DEF Passed
<1>3. Grows(n0, m)
  BY <1>2, GrowsMore DEF Passed
<1>4. <<cur>> \in Lists /\ PatsOf(<<cur>>) = {cur}
  BY SingleIs, PatternNotNone DEF PatsOf
<1>5. /\ s.attached \in Seq(Lists)
      /\ InLists(t.attached) = InLists(s.attached) \cup {cur}
      /\ Disjoint(s.attached) /\ cur \notin InLists(s.attached) => Disjoint(t.attached)
  BY <1>1, <1>4, InListsAppend DEF Passed
<1>6. t.attached \in Seq(Lists) /\ ToSet(t.attached) = ToSet(s.attached) \cup {<<cur>>}
  BY <1>1, <1>4, <1>5, ToSetAppend
<1>7. \A i \in DOMAIN t.matched : Known(t.net, <<t.matched[i]>>)
  BY <1>1, <1>2, KnownStays DEF Passed
<1>8. ASSUME NEW i \in DOMAIN t.attached
      PROVE  Known(t.net, t.attached[i]) /\ PatsOf(t.attached[i]) # {}
  <2>1. t.attached[i] \in ToSet(t.attached)
    BY InToSet
  <2>2. CASE t.attached[i] = <<cur>>
    BY <2>2, <1>1, <1>2, <1>4
  <2>3. CASE t.attached[i] \in ToSet(s.attached)
    <3>1. PICK j \in DOMAIN s.attached : t.attached[i] = s.attached[j]
      BY <2>3, InToSet
    <3> QED  BY <3>1, <1>1, <1>2, KnownStays DEF Passed
  <2> QED  BY <2>1, <2>2, <2>3, <1>6
<1>9. Passed(n0, t, done \cup {cur})
  <2>1. done \cup {cur} = ToSet(t.matched) \cup InLists(t.attached)
    BY <1>1, <1>5 DEF Passed
  <2> QED  BY <2>1, <1>1, <1>2, <1>3, <1>6, <1>7, <1>8 DEF Passed
<1>10. ASSUME Apart(s.net)
       PROVE  Apart(t.net)
  BY <1>10, <1>1 DEF Apart, AlphaAdded, BetasOf
<1>11. ASSUME Parted(s), cur \notin done
       PROVE  Parted(t)
  BY <1>11, <1>1, <1>5 DEF Parted, Passed
<1>12. ASSUME NoCollision, Meaningful(s.net)
       PROVE  Meaningful(t.net)
  BY <1>12, <1>1, <1>2, AlphaMeaning
<1> QED  BY <1>9, <1>10, <1>11, <1>12 DEF Kept, t
LEMMA PatsPadded ==
    ASSUME NEW ps \in Lists
    PROVE  PatsOf(Padded(ps)) = PatsOf(ps)
BY PaddedIs DEF PatsOf

LEMMA PatternsAreList ==
    ASSUME NEW ps \in Seq(BodyPatterns)
    PROVE  ps \in Lists /\ PatsOf(ps) = ToSet(ps) /\ ToSet(ps) \subseteq BodyPatterns
<1>1. ps \in Lists
  <2>1. BodyPatterns \subseteq BodyPatterns \cup {<<>>}
    OBVIOUS
  <2> QED  BY <2>1, SeqMonotonic DEF Lists
<1>2. ToSet(ps) \subseteq BodyPatterns
  <2>1. ASSUME NEW i \in DOMAIN ps
        PROVE  ps[i] \in BodyPatterns
    <3>1. i \in 1 .. Len(ps)
      OBVIOUS
    <3> QED  BY <3>1, ElementOfSeq
  <2> QED  BY <2>1 DEF ToSet
<1>3. <<>> \notin BodyPatterns
  BY PatternNotNone
<1> QED  BY <1>1, <1>2, <1>3 DEF PatsOf

LEMMA JoinKeeps ==
    ASSUME NEW n0, WellFormed(n0), NEW s, NEW done, Passed(n0, s, done),
           NEW cur \in BodyPatterns, ~Known(s.net, <<cur>>),
           NEW ps \in {s.matched, Padded(s.matched)}, Known(s.net, ps),
           NEW m, AlphaAdded(s.net, m, cur),
           NEW m2, BetaAdded(m, m2, NodeAt(s.net, ps), s.net.next, Append(ps, cur), FALSE)
    PROVE  Kept(n0, s, [s EXCEPT !.net = m2, !.matched = <<>>,
                                 !.attached = Append(@, Append(ps, cur))], done, cur)
<1> DEFINE n == s.net
           l == NodeAt(n, ps)
           ls == Append(ps, cur)
           t == [s EXCEPT !.net = m2, !.matched = <<>>, !.attached = Append(@, ls)]
<1>1. /\ DOMAIN t = {"net", "matched", "attached", "raised"} /\ t.net = m2
      /\ t.attached = Append(s.attached, ls) /\ t.matched = <<>> /\ t.raised = FALSE
  BY DEF Passed
<1> HIDE DEF t
<1>2. /\ WellFormed(n) /\ Wired(n) /\ Grows(n0, n)
      /\ s.matched \in Seq(BodyPatterns) /\ s.attached \in Seq(Lists)
  BY DEF Passed
<1>3. /\ WellFormed(m) /\ Grows(n, m) /\ Wired(m) /\ n.next \in AlphasOf(m)
      /\ m.next = n.next + 1
  BY <1>2, AlphaKeeps, AlphaWired DEF AlphaAdded
<1>4. l \in IdsOf(n) /\ l \in 0 .. n.next - 1 /\ l \in 0 .. m.next - 1 /\ n.next \in IdsOf(m)
      /\ l # n.next
  <2>1. l \in IdsOf(n)
    BY <1>2 DEF WellFormed, Filed, NodeAt, Known
  <2>2. n.next \in Nat \ {0}
    BY <1>2 DEF WellFormed, Numbered
  <2> HIDE DEF l, n
  <2> QED  BY <2>1, <2>2, <1>3 DEF IdsOf
<1>4a. BetaAdded(m, m2, l, n.next, ls, FALSE)
  OBVIOUS
<1>4b. Usable(m, l) /\ Usable(m, n.next)
  <2>1. Key(ps) # Key(<<cur>>) /\ Key(ps) \in DOMAIN n.nodes
    BY DEF Known
  <2>2. m.nodes = Put(n.nodes, Key(<<cur>>), n.next)
    BY DEF AlphaAdded
  <2>3. /\ Key(ps) \in DOMAIN m.nodes /\ m.nodes[Key(ps)] = l
        /\ Key(<<cur>>) \in DOMAIN m.nodes /\ m.nodes[Key(<<cur>>)] = n.next
    BY <2>1, <2>2 DEF Put, NodeAt
  <2> HIDE DEF l, n
  <2> QED  BY <2>3 DEF Usable, FoundIn
<1> HIDE DEF l, n, ls
<1>5. /\ WellFormed(m2) /\ Grows(m, m2) /\ Known(m2, ls) /\ Wired(m2)
      /\ Apart(m) => Apart(m2)
  <2>1. WellFormed(m2) /\ Grows(m, m2) /\ Known(m2, ls)
    BY <1>3, <1>4, <1>4a, <1>4b, BetaKeeps
  <2>2. Wired(m2) /\ (Apart(m) /\ l # n.next => Apart(m2))
    BY <1>3, <1>4, <1>4a, <1>4b, BetaWired
  <2> QED  BY <2>1, <2>2, <1>4
<1>6. Grows(n, m2) /\ Grows(n0, m2)
  BY <1>2, <1>3, <1>5, GrowsMore DEF n
<1>7. ps \in Lists /\ PatsOf(ps) = ToSet(s.matched) /\ ToSet(s.matched) \subseteq BodyPatterns
  BY <1>2, PatternsAreList, PatsPadded, PaddedIs
<1>8. ls \in Lists /\ PatsOf(ls) = ToSet(s.matched) \cup {cur}
  <2>1. ToSet(ls) = ToSet(ps) \cup {cur}
    BY <1>7, ToSetAppend DEF Lists, ls
  <2>2. cur # <<>>
    BY PatternNotNone
  <2>3. ls \in Lists
    BY <1>7 DEF Lists, ls
  <2> QED  BY <2>1, <2>2, <2>3, <1>7 DEF PatsOf
<1>9. /\ InLists(t.attached) = InLists(s.attached) \cup PatsOf(ls)
      /\ Disjoint(s.attached) /\ PatsOf(ls) \cap InLists(s.attached) = {} => Disjoint(t.attached)
  BY <1>1, <1>2, <1>8, InListsAppend
<1>10. t.attached \in Seq(Lists) /\ ToSet(t.attached) = ToSet(s.attached) \cup {ls}
  BY <1>1, <1>2, <1>8, ToSetAppend
<1>11. ASSUME NEW i \in DOMAIN t.attached
       PROVE  Known(t.net, t.attached[i]) /\ PatsOf(t.attached[i]) # {}
  <2>1. t.attached[i] \in ToSet(t.attached)
    BY InToSet
  <2>2. CASE t.attached[i] = ls
    BY <2>2, <1>1, <1>5, <1>8
  <2>3. CASE t.attached[i] \in ToSet(s.attached)
    <3>1. PICK j \in DOMAIN s.attached : t.attached[i] = s.attached[j]
      BY <2>3, InToSet
    <3> QED  BY <3>1, <1>1, <1>6, KnownStays DEF Passed, n
  <2> QED  BY <2>1, <2>2, <2>3, <1>10
<1>12. ToSet(t.matched) = {} /\ t.matched \in Seq(BodyPatterns) /\ DOMAIN t.matched = {}
       /\ IsInjective(t.matched)
  BY <1>1, EmptySeq DEF ToSet, IsInjective
<1>13. Passed(n0, t, done \cup {cur})
  <2>1. done \cup {cur} = ToSet(t.matched) \cup InLists(t.attached)
    BY <1>8, <1>9, <1>12 DEF Passed
  <2> QED  BY <2>1, <1>1, <1>5, <1>6, <1>10, <1>11, <1>12 DEF Passed
<1>14. ASSUME Apart(s.net)
       PROVE  Apart(t.net)
  <2>1. Apart(m)
    BY <1>14 DEF Apart, AlphaAdded, BetasOf
  <2> QED  BY <2>1, <1>1, <1>5
<1>15. ASSUME Parted(s), cur \notin done
       PROVE  Parted(t)
  <2>1. PatsOf(ls) \cap InLists(s.attached) = {}
    BY <1>15, <1>8 DEF Parted, Passed
  <2> QED  BY <2>1, <1>15, <1>9, <1>12 DEF Parted
<1>16. ASSUME NoCollision, Meaningful(s.net)
       PROVE  Meaningful(t.net)
  <2>1. Meaningful(m) /\ Joins(m, n.next) = {cur}
    BY <1>16, <1>2, AlphaMeaning DEF n
  <2>2. Joins(n, l) = PatsOf(ps)
    BY <1>16, <1>2, <1>7, MeaningIs DEF n, l
  <2>3. Joins(m, l) = Joins(n, l)
    BY <1>2, <1>3, <1>4, JoinsKept
  <2>4. PatsOf(ls) # {} /\ PatsOf(ls) = Joins(m, l) \cup Joins(m, n.next)
    BY <2>1, <2>2, <2>3, <1>7, <1>8
  <2>5. Meaningful(m2)
    BY <2>1, <2>4, <1>3, <1>4, <1>8, <1>4a, <1>4b, BetaMeaning
  <2> QED  BY <2>5, <1>1
<1> QED  BY <1>13, <1>14, <1>15, <1>16 DEF Kept, t, ls
\* The pass that the assertion ends leaves a network, with one alpha node more.
Abandoned(n0, t) == t.raised = TRUE /\ WellFormed(t.net) /\ Wired(t.net) /\ Grows(n0, t.net)
Left(n0, s, t) ==
    /\ Abandoned(n0, t) /\ (Apart(s.net) => Apart(t.net))
    /\ NoCollision /\ Meaningful(s.net) => Meaningful(t.net)

LEMMA RaiseLeaves ==
    ASSUME NEW n0, WellFormed(n0), NEW s, NEW done, Passed(n0, s, done),
           NEW cur \in BodyPatterns, ~Known(s.net, <<cur>>)
    PROVE  Left(n0, s, [s EXCEPT !.net = CreateAlphaNode(s.net, cur), !.raised = TRUE])
<1> DEFINE n == s.net
           m == CreateAlphaNode(n, cur)
           f == File(m, <<cur>>, n.next)
           t == [s EXCEPT !.net = m, !.raised = TRUE]
<1>1. t.net = m /\ t.raised = TRUE /\ WellFormed(n) /\ Wired(n) /\ Grows(n0, n)
  BY DEF Passed
<1>2. AlphaAdded(n, f, cur)
  BY <1>1, NewAlpha
<1>3. DOMAIN m = Fields /\ m.nodes = n.nodes
  BY <1>1, AlphaMade
<1>4. \A x \in Fields \ {"nodes"} : m[x] = f[x]
  BY <1>3, FileMade
<1> HIDE DEF m, f, t
<1>5. WellFormed(m) /\ Grows(n, m)
  BY <1>1, <1>2, <1>3, <1>4, UnfiledKeeps
<1>6. WellFormed(f) /\ Wired(f) /\ Grows(n, f)
  BY <1>1, <1>2, AlphaKeeps, AlphaWired
<1>7. /\ m.next = f.next /\ m.patternOf = f.patternOf /\ m.parents = f.parents
      /\ m.feeds = f.feeds
  BY <1>4 DEF Fields
<1>8. Wired(m)
  <2>1. IdsOf(m) = IdsOf(f) /\ BetasOf(m) = BetasOf(f)
    BY <1>7 DEF IdsOf, BetasOf
  <2>2. \A i, b, side : Feeding(m, i, b, side) = Feeding(f, i, b, side)
    BY <1>7 DEF Feeding
  <2>3. ASSUME NEW i \in IdsOf(f), NEW b \in BetasOf(f)
        PROVE  /\ FedOnce(m, i, b, "left", m.parents[b][1] = i)
               /\ FedOnce(m, i, b, "right", m.parents[b][2] = i /\ m.parents[b][1] # i)
    <3>1. /\ FedOnce(f, i, b, "left", m.parents[b][1] = i)
          /\ FedOnce(f, i, b, "right", m.parents[b][2] = i /\ m.parents[b][1] # i)
      BY <1>6, <1>7, <2>3 DEF Wired
    <3> QED  BY <2>2, <3>1 DEF FedOnce
  <2> QED  BY <2>1, <2>3 DEF Wired
<1>9. Grows(n0, m)
  BY <1>1, <1>5, GrowsMore
<1>10. ASSUME Apart(n)
       PROVE  Apart(m)
  BY <1>10, <1>2, <1>7 DEF Apart, AlphaAdded, BetasOf
<1>11. ASSUME Meaningful(n)
       PROVE  Meaningful(m)
  <2>1. ASSUME NEW k \in DOMAIN n.nodes
        PROVE  \E ps \in Lists : Stands(m, k, ps)
    <3>1. PICK ps \in Lists : Stands(n, k, ps)
      BY <1>11 DEF Meaningful
    <3>2. n.nodes[k] \in 0 .. n.next - 1
      BY <1>1 DEF WellFormed, Filed, IdsOf
    <3>3. Joins(m, n.nodes[k]) = Joins(n, n.nodes[k])
      BY <3>2, <1>1, <1>5, JoinsKept
    <3> QED  BY <3>1, <3>3, <1>3 DEF Stands
  <2> QED  BY <2>1, <1>3 DEF Meaningful
<1>12. Left(n0, s, t)
  BY <1>1, <1>5, <1>8, <1>9, <1>10, <1>11 DEF Left, Abandoned, n
<1> QED  BY <1>12 DEF t, m, n

LEMMA FirstPassKeeps ==
    ASSUME NEW n0, WellFormed(n0), NEW s, NEW done, Passed(n0, s, done),
           NEW cur \in BodyPatterns
    PROVE  Kept(n0, s, FirstPass(s, cur), done, cur) \/ Left(n0, s, FirstPass(s, cur))
<1> DEFINE n == s.net
           ps == IF Len(s.matched) = 1 /\ Known(n, Padded(s.matched))
                 THEN Padded(s.matched) ELSE s.matched
           made == CreateAlphaNode(n, cur)
           m == File(made, <<cur>>, n.next)
           m2 == CreateBetaNode(m, NodeAt(n, ps), n.next, Append(ps, cur), FALSE)
<1>1. WellFormed(n) /\ ~s.raised
  BY DEF Passed
<1>2. AlphaAdded(n, m, cur)
  BY <1>1, NewAlpha
<1>3. CASE Known(n, <<cur>>)
  <2>1. FirstPass(s, cur) = [s EXCEPT !.matched = Append(@, cur)]
    BY <1>1, <1>3 DEF FirstPass
  <2> QED  BY <1>3, <2>1, MatchKeeps
<1>4. CASE ~Known(n, <<cur>>) /\ Known(n, s.matched) /\ ~BuiltinAlpha(n, NodeAt(n, ps))
  <2>1. FirstPass(s, cur) = [s EXCEPT !.net = m2, !.matched = <<>>,
                                      !.attached = Append(@, Append(ps, cur))]
    BY <1>1, <1>4 DEF FirstPass
  <2>2. ps \in {s.matched, Padded(s.matched)} /\ Known(n, ps)
    BY <1>4
  <2> HIDE DEF made
  <2>3. WellFormed(m) /\ m.next = n.next + 1 /\ n.next \in IdsOf(m)
    <3>1. WellFormed(m) /\ n.next \in AlphasOf(m)
      BY <1>1, <1>2, <1>4, AlphaKeeps
    <3> QED  BY <3>1, <1>2 DEF AlphaAdded, WellFormed, Numbered
  <2>4. NodeAt(n, ps) \in 0 .. m.next - 1
    <3>1. NodeAt(n, ps) \in IdsOf(n) /\ n.next \in Nat \ {0}
      BY <2>2, <1>1 DEF WellFormed, Filed, NodeAt, Known, Numbered
    <3> HIDE DEF n, ps
    <3> QED  BY <3>1, <2>3 DEF IdsOf
  <2> HIDE DEF n, m, ps
  <2>5. BetaAdded(m, m2, NodeAt(n, ps), n.next, Append(ps, cur), FALSE)
    BY <2>3, <2>4, NewBeta
  <2> HIDE DEF m2
  <2>6. Kept(n0, s, [s EXCEPT !.net = m2, !.matched = <<>>,
                              !.attached = Append(@, Append(ps, cur))], done, cur)
    BY <1>2, <1>4, <2>2, <2>5, JoinKeeps DEF n
  <2> QED  BY <2>1, <2>6
<1>5. CASE ~Known(n, <<cur>>) /\ ~Known(n, s.matched)
  <2>1. FirstPass(s, cur) = [s EXCEPT !.net = m, !.attached = Append(@, <<cur>>)]
    BY <1>1, <1>5 DEF FirstPass
  <2> HIDE DEF m
  <2>2. Kept(n0, s, [s EXCEPT !.net = m, !.attached = Append(@, <<cur>>)], done, cur)
    BY <1>2, <1>5, AloneKeeps
  <2> QED  BY <2>1, <2>2
<1>6. CASE ~Known(n, <<cur>>) /\ Known(n, s.matched) /\ BuiltinAlpha(n, NodeAt(n, ps))
  <2>1. FirstPass(s, cur) = [s EXCEPT !.net = made, !.raised = TRUE]
    BY <1>1, <1>6 DEF FirstPass
  <2>2. Left(n0, s, [s EXCEPT !.net = CreateAlphaNode(s.net, cur), !.raised = TRUE])
    BY <1>6, RaiseLeaves
  <2> QED  BY <2>1, <2>2
<1> QED  BY <1>3, <1>4, <1>5, <1>6

\* The whole pass.
Begun(n) == [net |-> n, matched |-> <<>>, attached |-> <<>>, raised |-> FALSE]

LEMMA PassDone ==
    ASSUME NEW n, WellFormed(n), Wired(n), NEW order \in Seq(BodyPatterns)
    PROVE  LET s == FoldLeft(FirstPass, Begun(n), order)
           IN  /\ \/ Abandoned(n, s)
                  \/ Passed(n, s, ToSet(order)) /\ (IsInjective(order) => Parted(s))
               /\ Apart(n) => Apart(s.net)
               /\ NoCollision /\ Meaningful(n) => Meaningful(s.net)
<1> DEFINE N == Len(order)
           s == FoldLeft(FirstPass, Begun(n), order)
           Done(k) == {order[j] : j \in 1 .. k}
<1>1. N \in Nat /\ DOMAIN order = 1 .. N
  OBVIOUS
<1>0. s = F!Folded(Begun(n), order)
  BY DEF FoldLeft, MapThenFoldSet, Max, F!Max, F!Folded, F!Value
<1> HIDE DEF s
<1>2. PICK at : /\ at[0] = Begun(n)
                /\ \A k \in 1 .. N : at[k] = FirstPass(at[k - 1], order[k])
                /\ s = at[N]
  <2> HIDE DEF N
  <2>1. PICK at : F!Series(Begun(n), order, N, at)
    BY <1>1, F!LeftFold
  <2> QED  BY <1>0, <2>1 DEF F!Series
<1> DEFINE P == {k \in 0 .. N : /\ \/ Abandoned(n, at[k])
                                   \/ /\ Passed(n, at[k], Done(k))
                                      /\ IsInjective(order) => Parted(at[k])
                                /\ Apart(n) => Apart(at[k].net)
                                /\ NoCollision /\ Meaningful(n) => Meaningful(at[k].net)}
<1>3. 0 \in P
  <2>1. /\ at[0].net = n /\ at[0].matched = <<>> /\ at[0].attached = <<>>
        /\ DOMAIN at[0] = {"net", "matched", "attached", "raised"} /\ at[0].raised = FALSE
    BY <1>2 DEF Begun
  <2>2. Done(0) = {}
    OBVIOUS
  <2>3. ToSet(at[0].matched) = {} /\ InLists(at[0].attached) = {}
    BY <2>1 DEF ToSet, InLists
  <2>4. at[0].matched \in Seq(BodyPatterns) /\ at[0].attached \in Seq(Lists)
    BY <2>1, EmptySeq
  <2>5. Passed(n, at[0], Done(0))
    BY <2>1, <2>2, <2>3, <2>4, GrowsRefl DEF Passed
  <2>6. Parted(at[0])
    BY <2>1, <2>3 DEF Parted, IsInjective, Disjoint
  <2> HIDE DEF Done
  <2> QED  BY <1>1, <2>1, <2>5, <2>6
<1>4. ASSUME NEW k \in 1 .. N, k - 1 \in P
      PROVE  k \in P
  <2>1. at[k] = FirstPass(at[k - 1], order[k]) /\ order[k] \in BodyPatterns
    BY <1>2, ElementOfSeq
  <2>2. Abandoned(n, at[k - 1]) \/ Passed(n, at[k - 1], Done(k - 1))
    BY <1>4
  <2>3. CASE Abandoned(n, at[k - 1])
    <3>1. at[k] = at[k - 1]
      BY <2>1, <2>3 DEF FirstPass, Abandoned
    <3>2. k \in 0 .. N
      OBVIOUS
    <3> HIDE DEF Done, N
    <3> QED  BY <3>1, <3>2, <2>3, <1>4
  <2>3a. ASSUME Passed(n, at[k - 1], Done(k - 1))
         PROVE  \/ Kept(n, at[k - 1], at[k], Done(k - 1), order[k])
                \/ Left(n, at[k - 1], at[k])
    BY <2>1, <2>3a, FirstPassKeeps
  <2>4. Done(k) = Done(k - 1) \cup {order[k]}
    <3>1. 1 .. k = (1 .. k - 1) \cup {k}
      OBVIOUS
    <3> QED  BY <3>1
  <2>5. IsInjective(order) => order[k] \notin Done(k - 1)
    <3>1. \A j \in 1 .. k - 1 : j \in 1 .. N /\ j # k
      OBVIOUS
    <3> QED  BY <3>1, <1>1 DEF IsInjective
  <2>6. k \in 0 .. N
    OBVIOUS
  <2> HIDE DEF Done, N
  <2>7. ASSUME Passed(n, at[k - 1], Done(k - 1)), ~Abandoned(n, at[k - 1])
        PROVE  k \in P
    <3>1. IsInjective(order) => Parted(at[k - 1])
      BY <1>4, <2>7
    <3>2. CASE Left(n, at[k - 1], at[k])
      BY <3>2, <2>6, <1>4 DEF Left
    <3>3. CASE Kept(n, at[k - 1], at[k], Done(k - 1), order[k])
      BY <3>1, <3>3, <2>4, <2>5, <2>6, <1>4 DEF Kept
    <3> QED  BY <3>2, <3>3, <2>3a, <2>7
  <2> QED  BY <2>2, <2>3, <2>7
<1> HIDE DEF P
<1>5. 0 .. N \subseteq P
  <2> HIDE DEF N
  <2> QED  BY <1>1, <1>3, <1>4, F!UpTo
<1>6. N \in P
  BY <1>1, <1>5
<1>7. Done(N) = ToSet(order)
  BY <1>1 DEF ToSet
<1> HIDE DEF N, Done
<1> QED  BY <1>2, <1>6, <1>7 DEF P, s

(***************************************************************************)
(* The order of a list: its late items last.                               *)
(***************************************************************************)
LEMMA ToSetConcat ==
    ASSUME NEW T, NEW s1 \in Seq(T), NEW s2 \in Seq(T)
    PROVE  /\ ToSet(s1 \o s2) = ToSet(s1) \cup ToSet(s2)
           /\ IsInjective(s1) /\ IsInjective(s2) /\ ToSet(s1) \cap ToSet(s2) = {}
                => IsInjective(s1 \o s2)
<1> DEFINE s == s1 \o s2
<1>1. /\ DOMAIN s1 = 1 .. Len(s1) /\ DOMAIN s2 = 1 .. Len(s2)
      /\ DOMAIN s = 1 .. Len(s1) + Len(s2) /\ Len(s1) \in Nat /\ Len(s2) \in Nat
      /\ \A i \in 1 .. Len(s1) : s[i] = s1[i]
      /\ \A i \in 1 .. Len(s2) : s[Len(s1) + i] = s2[i]
  OBVIOUS
<1>2. ASSUME NEW i \in DOMAIN s
      PROVE  i \in DOMAIN s1 \/ \E j \in DOMAIN s2 : i = Len(s1) + j
  <2>1. CASE i <= Len(s1)
    BY <2>1, <1>1
  <2>2. CASE i > Len(s1)
    <3>1. i - Len(s1) \in 1 .. Len(s2) /\ i = Len(s1) + (i - Len(s1))
      BY <2>2, <1>1
    <3> QED  BY <3>1, <1>1
  <2> QED  BY <2>1, <2>2, <1>1
<1>3. /\ \A i \in DOMAIN s1 : i \in DOMAIN s /\ s[i] = s1[i]
      /\ \A j \in DOMAIN s2 : Len(s1) + j \in DOMAIN s /\ s[Len(s1) + j] = s2[j]
  BY <1>1
<1> HIDE DEF s
<1>4. ToSet(s) = ToSet(s1) \cup ToSet(s2)
  <2>1. ASSUME NEW x \in ToSet(s)
        PROVE  x \in ToSet(s1) \cup ToSet(s2)
    BY <1>2, <1>3 DEF ToSet
  <2>2. ASSUME NEW x \in ToSet(s1) \cup ToSet(s2)
        PROVE  x \in ToSet(s)
    BY <1>3 DEF ToSet
  <2> QED  BY <2>1, <2>2
<1>5. ASSUME IsInjective(s1), IsInjective(s2), ToSet(s1) \cap ToSet(s2) = {}
      PROVE  IsInjective(s)
  <2>1. ASSUME NEW i \in DOMAIN s, NEW j \in DOMAIN s, s[i] = s[j]
        PROVE  i = j
    <3>1. CASE i \in DOMAIN s1 /\ j \in DOMAIN s1
      BY <3>1, <2>1, <1>3, <1>5 DEF IsInjective
    <3>2. CASE i \in DOMAIN s1 /\ \E k \in DOMAIN s2 : j = Len(s1) + k
      BY <3>2, <2>1, <1>3, <1>5 DEF ToSet
    <3>3. CASE j \in DOMAIN s1 /\ \E k \in DOMAIN s2 : i = Len(s1) + k
      BY <3>3, <2>1, <1>3, <1>5 DEF ToSet
    <3>4. CASE (\E k \in DOMAIN s2 : i = Len(s1) + k) /\ (\E k \in DOMAIN s2 : j = Len(s1) + k)
      <4>1. PICK k1 \in DOMAIN s2, k2 \in DOMAIN s2 : i = Len(s1) + k1 /\ j = Len(s1) + k2
        BY <3>4
      <4>2. s2[k1] = s2[k2]
        BY <4>1, <2>1, <1>3
      <4> QED  BY <4>1, <4>2, <1>5 DEF IsInjective
    <3> QED  BY <3>1, <3>2, <3>3, <3>4, <1>2
  <2> QED  BY <2>1 DEF IsInjective
<1> QED  BY <1>4, <1>5 DEF s

ItemsOf(items) == [i \in DOMAIN items |-> items[i].item]

\* The two lists after the items done.
Sorted(T, s, done) ==
    /\ DOMAIN s = {"first", "last"} /\ s.first \in Seq(T) /\ s.last \in Seq(T)
    /\ ToSet(s.first) \cup ToSet(s.last) = done
Unequal(s) == /\ IsInjective(s.first) /\ IsInjective(s.last)
              /\ ToSet(s.first) \cap ToSet(s.last) = {}

LEMMA LateLastIs ==
    ASSUME NEW T, NEW N \in Nat, NEW items, DOMAIN items = 1 .. N,
           \A i \in 1 .. N : items[i].item \in T
    PROVE  /\ LateLast(items) \in Seq(T)
           /\ ToSet(LateLast(items)) = ToSet(ItemsOf(items))
           /\ IsInjective(ItemsOf(items)) => IsInjective(LateLast(items))
<1> DEFINE base == [first |-> <<>>, last |-> <<>>]
           s == FoldLeft(Sort, base, items)
           Done(k) == {items[j].item : j \in 1 .. k}
<1>0. s = S!Folded(base, items)
  BY DEF FoldLeft, MapThenFoldSet, Max, S!Max, S!Folded, S!Value
<1> HIDE DEF s
<1>1. PICK at : /\ at[0] = base
                /\ \A k \in 1 .. N : at[k] = Sort(at[k - 1], items[k])
                /\ s = at[N]
  <2>1. PICK at : S!Series(base, items, N, at)
    BY S!LeftFold
  <2> QED  BY <1>0, <2>1 DEF S!Series
<1> DEFINE P == {k \in 0 .. N : /\ Sorted(T, at[k], Done(k))
                                /\ IsInjective(ItemsOf(items)) => Unequal(at[k])}
<1>2. 0 \in P
  <2>1. /\ at[0].first = <<>> /\ at[0].last = <<>> /\ DOMAIN at[0] = {"first", "last"}
    BY <1>1
  <2>2. Done(0) = {} /\ <<>> \in Seq(T) /\ ToSet(<<>>) = {} /\ IsInjective(<<>>)
    BY EmptySeq DEF ToSet, IsInjective
  <2> HIDE DEF Done
  <2>3. Sorted(T, at[0], Done(0))
    BY <2>1, <2>2 DEF Sorted
  <2>4. Unequal(at[0])
    BY <2>1, <2>2 DEF Unequal
  <2> QED  BY <2>3, <2>4
<1>3. ASSUME NEW k \in 1 .. N, k - 1 \in P
      PROVE  k \in P
  <2> DEFINE x == items[k].item
             u == at[k - 1]
  <2>1. x \in T /\ at[k] = IF items[k].late THEN [u EXCEPT !.last = Append(@, x)]
                           ELSE [u EXCEPT !.first = Append(@, x)]
    BY <1>1 DEF Sort
  <2>2. Done(k) = Done(k - 1) \cup {x}
    <3>1. 1 .. k = (1 .. k - 1) \cup {k}
      OBVIOUS
    <3> QED  BY <3>1
  <2>3. IsInjective(ItemsOf(items)) => x \notin Done(k - 1)
    <3>1. \A j \in 1 .. k - 1 : j \in 1 .. N /\ j # k
      OBVIOUS
    <3> QED  BY <3>1 DEF IsInjective, ItemsOf
  <2>4. Sorted(T, u, Done(k - 1)) /\ (IsInjective(ItemsOf(items)) => Unequal(u))
    BY <1>3
  <2> HIDE DEF u, Done
  <2>5. Sorted(T, at[k], Done(k)) /\ (IsInjective(ItemsOf(items)) => Unequal(at[k]))
    <3>1. CASE items[k].late
      <4>1. /\ DOMAIN at[k] = {"first", "last"} /\ at[k].first = u.first
            /\ at[k].last = Append(u.last, x)
        BY <3>1, <2>1, <2>4 DEF Sorted
      <4> HIDE DEF x
      <4>2. /\ at[k].last \in Seq(T) /\ ToSet(at[k].last) = ToSet(u.last) \cup {x}
            /\ IsInjective(u.last) /\ x \notin ToSet(u.last) => IsInjective(at[k].last)
        BY <4>1, <2>1, <2>4, ToSetAppend, AppendIn DEF Sorted
      <4> QED  BY <4>1, <4>2, <2>2, <2>3, <2>4 DEF Sorted, Unequal
    <3>2. CASE ~items[k].late
      <4>1. /\ DOMAIN at[k] = {"first", "last"} /\ at[k].last = u.last
            /\ at[k].first = Append(u.first, x)
        BY <3>2, <2>1, <2>4 DEF Sorted
      <4> HIDE DEF x
      <4>2. /\ at[k].first \in Seq(T) /\ ToSet(at[k].first) = ToSet(u.first) \cup {x}
            /\ IsInjective(u.first) /\ x \notin ToSet(u.first) => IsInjective(at[k].first)
        BY <4>1, <2>1, <2>4, ToSetAppend, AppendIn DEF Sorted
      <4> QED  BY <4>1, <4>2, <2>2, <2>3, <2>4 DEF Sorted, Unequal
    <3> QED  BY <3>1, <3>2
  <2> QED  BY <2>5
<1> HIDE DEF P
<1>4. 0 .. N \subseteq P
  BY <1>2, <1>3, F!UpTo
<1>5. N \in P
  BY <1>4
<1>6. Done(N) = ToSet(ItemsOf(items))
  BY DEF ToSet, ItemsOf
<1> HIDE DEF Done
<1>7. Sorted(T, s, Done(N)) /\ (IsInjective(ItemsOf(items)) => Unequal(s))
  BY <1>1, <1>5 DEF P
<1>8. LateLast(items) = s.first \o s.last
  BY DEF LateLast, s
<1>9. s.first \o s.last \in Seq(T)
  BY <1>7, ConcatProperties DEF Sorted
<1>10. ToSet(LateLast(items)) = ToSet(ItemsOf(items))
  <2>1. ToSet(s.first \o s.last) = ToSet(s.first) \cup ToSet(s.last)
    BY <1>7, ToSetConcat DEF Sorted
  <2> QED  BY <2>1, <1>6, <1>7, <1>8 DEF Sorted
<1>11. IsInjective(ItemsOf(items)) => IsInjective(LateLast(items))
  <2>1. IsInjective(ItemsOf(items)) => IsInjective(s.first \o s.last)
    BY <1>7, ToSetConcat DEF Sorted, Unequal
  <2> QED  BY <2>1, <1>8
<1> QED  BY <1>8, <1>9, <1>10, <1>11

LEMMA OrderedIs ==
    ASSUME NEW r \in RuleBase
    PROVE  /\ Ordered(r.body) \in Seq(BodyPatterns)
           /\ ToSet(Ordered(r.body)) = ToSet(r.body)
           /\ IsInjective(r.body) => IsInjective(Ordered(r.body))
<1> DEFINE body == r.body
           items == [i \in DOMAIN body |-> [item |-> body[i], late |-> IsBuiltin(body[i])]]
<1>1. body \in Seq(BodyPatterns)
  BY BodyIs
<1>2. Len(body) \in Nat /\ DOMAIN body = 1 .. Len(body)
  BY <1>1
<1>3. \A i \in 1 .. Len(body) : items[i].item = body[i] /\ body[i] \in BodyPatterns
  BY <1>1, <1>2, ElementOfSeq
<1>4. ItemsOf(items) = [i \in 1 .. Len(body) |-> body[i]] /\ DOMAIN items = 1 .. Len(body)
  BY <1>2 DEF ItemsOf
<1>5. body = [i \in 1 .. Len(body) |-> body[i]]
  BY <1>1
<1>6. Ordered(body) = LateLast(items)
  BY DEF Ordered
<1> HIDE DEF body, items
<1>7. ItemsOf(items) = body /\ \A i \in 1 .. Len(body) : items[i].item \in BodyPatterns
  BY <1>3, <1>4, <1>5
<1>8. /\ LateLast(items) \in Seq(BodyPatterns)
      /\ ToSet(LateLast(items)) = ToSet(ItemsOf(items))
      /\ IsInjective(ItemsOf(items)) => IsInjective(LateLast(items))
  BY <1>2, <1>4, <1>7, LateLastIs
<1> QED  BY <1>6, <1>7, <1>8 DEF body

(***************************************************************************)
(* The lists left to be attached.                                          *)
(***************************************************************************)
Ready(n, attached) ==
    /\ attached \in Seq(Lists)
    /\ \A i \in DOMAIN attached : Known(n, attached[i]) /\ PatsOf(attached[i]) # {}

Chain(s1, s2, s) == s = s1 \o s2

LEMMA InListsConcat ==
    ASSUME NEW n, NEW s1, NEW s2, Ready(n, s1), Ready(n, s2), NEW s, Chain(s1, s2, s)
    PROVE  /\ Ready(n, s)
           /\ InLists(s) = InLists(s1) \cup InLists(s2)
           /\ Disjoint(s1) /\ Disjoint(s2) /\ InLists(s1) \cap InLists(s2) = {}
                => Disjoint(s)
<1>0. s1 \in Seq(Lists) /\ s2 \in Seq(Lists) /\ s \in Seq(Lists)
  BY ConcatProperties DEF Ready, Chain
<1>1. /\ DOMAIN s1 = 1 .. Len(s1) /\ DOMAIN s2 = 1 .. Len(s2)
      /\ DOMAIN s = 1 .. Len(s1) + Len(s2) /\ Len(s1) \in Nat /\ Len(s2) \in Nat
      /\ \A i \in 1 .. Len(s1) : s[i] = s1[i]
      /\ \A i \in 1 .. Len(s2) : s[Len(s1) + i] = s2[i]
  BY <1>0 DEF Chain
<1>2. ASSUME NEW i \in DOMAIN s
      PROVE  i \in DOMAIN s1 \/ \E j \in DOMAIN s2 : i = Len(s1) + j
  <2>1. CASE i <= Len(s1)
    BY <2>1, <1>1
  <2>2. CASE i > Len(s1)
    <3>1. i - Len(s1) \in 1 .. Len(s2) /\ i = Len(s1) + (i - Len(s1))
      BY <2>2, <1>1
    <3> QED  BY <3>1, <1>1
  <2> QED  BY <2>1, <2>2, <1>1
<1>3. /\ \A i \in DOMAIN s1 : i \in DOMAIN s /\ s[i] = s1[i]
      /\ \A j \in DOMAIN s2 : Len(s1) + j \in DOMAIN s /\ s[Len(s1) + j] = s2[j]
  BY <1>1
<1>4. Ready(n, s)
  <2>1. ASSUME NEW i \in DOMAIN s
        PROVE  Known(n, s[i]) /\ PatsOf(s[i]) # {}
    <3>1. CASE i \in DOMAIN s1
      BY <3>1, <1>3 DEF Ready
    <3>2. CASE \E j \in DOMAIN s2 : i = Len(s1) + j
      BY <3>2, <1>3 DEF Ready
    <3> QED  BY <3>1, <3>2, <1>2
  <2> QED  BY <2>1, <1>0 DEF Ready
<1>5. InLists(s) = InLists(s1) \cup InLists(s2)
  <2>1. ASSUME NEW x \in InLists(s)
        PROVE  x \in InLists(s1) \cup InLists(s2)
    <3>1. PICK i \in DOMAIN s : x \in PatsOf(s[i])
      BY DEF InLists
    <3>2. CASE i \in DOMAIN s1
      BY <3>1, <3>2, <1>3 DEF InLists
    <3>3. CASE \E j \in DOMAIN s2 : i = Len(s1) + j
      BY <3>1, <3>3, <1>3 DEF InLists
    <3> QED  BY <3>2, <3>3, <1>2
  <2>2. ASSUME NEW x \in InLists(s1)
        PROVE  x \in InLists(s)
    BY <1>3 DEF InLists
  <2>3. ASSUME NEW x \in InLists(s2)
        PROVE  x \in InLists(s)
    BY <1>3 DEF InLists
  <2> QED  BY <2>1, <2>2, <2>3
<1>6. ASSUME Disjoint(s1), Disjoint(s2), InLists(s1) \cap InLists(s2) = {}
      PROVE  Disjoint(s)
  <2>1. ASSUME NEW i \in DOMAIN s1, NEW j \in DOMAIN s2
        PROVE  PatsOf(s1[i]) \cap PatsOf(s2[j]) = {}
    BY <1>6 DEF InLists
  <2>2. ASSUME NEW i \in DOMAIN s, NEW j \in DOMAIN s, i # j
        PROVE  PatsOf(s[i]) \cap PatsOf(s[j]) = {}
    <3>1. CASE i \in DOMAIN s1 /\ j \in DOMAIN s1
      BY <3>1, <2>2, <1>3, <1>6 DEF Disjoint
    <3>2. CASE i \in DOMAIN s1 /\ \E k \in DOMAIN s2 : j = Len(s1) + k
      BY <3>2, <2>1, <1>3
    <3>3. CASE j \in DOMAIN s1 /\ \E k \in DOMAIN s2 : i = Len(s1) + k
      BY <3>3, <2>1, <1>3
    <3>4. CASE (\E k \in DOMAIN s2 : i = Len(s1) + k) /\ (\E k \in DOMAIN s2 : j = Len(s1) + k)
      <4>1. PICK k1 \in DOMAIN s2, k2 \in DOMAIN s2 : i = Len(s1) + k1 /\ j = Len(s1) + k2
        BY <3>4
      <4>2. k1 # k2
        BY <4>1, <2>2
      <4> QED  BY <4>1, <4>2, <1>3, <1>6 DEF Disjoint
    <3> QED  BY <3>1, <3>2, <3>3, <3>4, <1>2
  <2> QED  BY <2>2 DEF Disjoint
<1> QED  BY <1>4, <1>5, <1>6

LEMMA InListsOne ==
    ASSUME NEW n, NEW ps \in Lists, Known(n, ps), PatsOf(ps) # {}
    PROVE  /\ Ready(n, <<ps>>) /\ InLists(<<ps>>) = PatsOf(ps) /\ Disjoint(<<ps>>)
           /\ <<ps>> # <<>>
<1>1. DOMAIN <<ps>> = {1} /\ <<ps>>[1] = ps /\ <<ps>> \in Seq(Lists)
  OBVIOUS
<1> QED  BY <1>1 DEF Ready, InLists, Disjoint

LEMMA SinglesAre ==
    ASSUME NEW n, NEW ps \in Seq(BodyPatterns),
           \A i \in DOMAIN ps : Known(n, <<ps[i]>>)
    PROVE  /\ Ready(n, Singles(ps)) /\ InLists(Singles(ps)) = ToSet(ps)
           /\ IsInjective(ps) => Disjoint(Singles(ps))
           /\ DOMAIN Singles(ps) = DOMAIN ps
<1> DEFINE q == Singles(ps)
<1>1. DOMAIN ps = 1 .. Len(ps) /\ Len(ps) \in Nat /\ \A i \in 1 .. Len(ps) : ps[i] \in BodyPatterns
  BY ElementOfSeq
<1>2. q = [i \in 1 .. Len(ps) |-> <<ps[i]>>]
  BY <1>1 DEF Singles
<1>3. \A i \in 1 .. Len(ps) : <<ps[i]>> \in Lists /\ PatsOf(<<ps[i]>>) = {ps[i]}
  BY <1>1, SingleIs, PatternNotNone DEF PatsOf
<1>4. q \in Seq(Lists) /\ DOMAIN q = DOMAIN ps /\ \A i \in DOMAIN q : q[i] = <<ps[i]>>
  BY <1>1, <1>2, <1>3
<1> HIDE DEF q
<1>5. Ready(n, q)
  BY <1>1, <1>3, <1>4 DEF Ready
<1>6. InLists(q) = ToSet(ps)
  <2>1. \A i \in DOMAIN q : PatsOf(q[i]) = {ps[i]} /\ i \in DOMAIN ps
    BY <1>1, <1>3, <1>4
  <2>2. InLists(q) \subseteq ToSet(ps)
    BY <2>1 DEF InLists, ToSet
  <2>3. ASSUME NEW x \in ToSet(ps)
        PROVE  x \in InLists(q)
    <3>1. PICK i \in DOMAIN ps : x = ps[i]
      BY InToSet
    <3> QED  BY <3>1, <2>1, <1>4 DEF InLists
  <2> QED  BY <2>2, <2>3
<1>7. ASSUME IsInjective(ps)
      PROVE  Disjoint(q)
  <2>1. \A i \in DOMAIN q : PatsOf(q[i]) = {ps[i]} /\ i \in DOMAIN ps
    BY <1>1, <1>3, <1>4
  <2>2. \A i, j \in DOMAIN ps : i # j => ps[i] # ps[j]
    BY <1>7 DEF IsInjective
  <2> QED  BY <2>1, <2>2 DEF Disjoint
<1> QED  BY <1>4, <1>5, <1>6, <1>7 DEF q

LEMMA Halves ==
    ASSUME NEW T, NEW ps \in Seq(T), NEW k \in 1 .. Len(ps) - 1
    PROVE  LET pre == SubSeq(ps, 1, k)
               suf == SubSeq(ps, k + 1, Len(ps))
           IN  /\ pre \in Seq(T) /\ suf \in Seq(T) /\ pre # <<>>
               /\ ToSet(pre) \cup ToSet(suf) = ToSet(ps)
               /\ \A i \in DOMAIN pre : i \in DOMAIN ps /\ pre[i] = ps[i]
               /\ \A i \in DOMAIN suf : k + i \in DOMAIN ps /\ suf[i] = ps[k + i]
               /\ IsInjective(ps) => /\ IsInjective(pre) /\ IsInjective(suf)
                                     /\ ToSet(pre) \cap ToSet(suf) = {}
<1> DEFINE pre == SubSeq(ps, 1, k)
           suf == SubSeq(ps, k + 1, Len(ps))
<1>1. Len(ps) \in Nat /\ DOMAIN ps = 1 .. Len(ps) /\ k \in Nat /\ 1 <= k /\ k < Len(ps)
  OBVIOUS
<1>2. /\ pre \in Seq(T) /\ Len(pre) = k /\ DOMAIN pre = 1 .. k
      /\ \A i \in 1 .. k : pre[i] = ps[i]
  BY <1>1, SubSeqProperties
<1>3. /\ suf \in Seq(T) /\ Len(suf) = Len(ps) - k /\ DOMAIN suf = 1 .. Len(ps) - k
      /\ \A i \in 1 .. Len(ps) - k : suf[i] = ps[k + i]
  BY <1>1, SubSeqProperties
<1> HIDE DEF pre, suf
<1>4. /\ \A i \in DOMAIN pre : i \in DOMAIN ps /\ pre[i] = ps[i]
      /\ \A i \in DOMAIN suf : k + i \in DOMAIN ps /\ suf[i] = ps[k + i]
  BY <1>1, <1>2, <1>3
<1>5. \A i \in DOMAIN ps : i \in DOMAIN pre \/ (i - k \in DOMAIN suf /\ i = k + (i - k))
  BY <1>1, <1>2, <1>3
<1>6. ToSet(pre) \cup ToSet(suf) = ToSet(ps)
  <2>1. ToSet(pre) \cup ToSet(suf) \subseteq ToSet(ps)
    BY <1>4 DEF ToSet
  <2>2. ASSUME NEW i \in DOMAIN ps
        PROVE  ps[i] \in ToSet(pre) \cup ToSet(suf)
    <3>1. CASE i \in DOMAIN pre
      BY <3>1, <1>4 DEF ToSet
    <3>2. CASE i - k \in DOMAIN suf /\ i = k + (i - k)
      <4>1. suf[i - k] = ps[i]
        BY <3>2, <1>4
      <4> QED  BY <3>2, <4>1 DEF ToSet
    <3> QED  BY <3>1, <3>2, <1>5
  <2> QED  BY <2>1, <2>2 DEF ToSet
<1>7. ASSUME IsInjective(ps)
      PROVE  IsInjective(pre) /\ IsInjective(suf) /\ ToSet(pre) \cap ToSet(suf) = {}
  <2>1. IsInjective(pre)
    BY <1>4, <1>7 DEF IsInjective
  <2>2. IsInjective(suf)
    <3>1. ASSUME NEW i \in DOMAIN suf, NEW j \in DOMAIN suf, suf[i] = suf[j]
          PROVE  i = j
      <4>1. k + i = k + j
        BY <3>1, <1>4, <1>7 DEF IsInjective
      <4> QED  BY <4>1, <1>1, <1>3
    <3> QED  BY <3>1 DEF IsInjective
  <2>3. ASSUME NEW i \in DOMAIN pre, NEW j \in DOMAIN suf
        PROVE  pre[i] # suf[j]
    <3>1. i # k + j
      BY <1>1, <1>2, <1>3
    <3> QED  BY <3>1, <1>4, <1>7 DEF IsInjective
  <2> QED  BY <2>1, <2>2, <2>3 DEF ToSet
<1> QED  BY <1>2, <1>3, <1>4, <1>6, <1>7, <1>1 DEF pre, suf

LEMMA FindIs ==
    ASSUME NEW n, NEW ps \in Seq(BodyPatterns), ps # <<>>,
           \A i \in DOMAIN ps : Known(n, <<ps[i]>>)
    PROVE  LET q == FindPatterns(n, ps)
           IN  /\ Ready(n, q) /\ q # <<>> /\ InLists(q) = ToSet(ps)
               /\ IsInjective(ps) => Disjoint(q)
<1> DEFINE known == KnownPrefixes(n, ps)
<1>1. CASE known = {}
  <2>1. FindPatterns(n, ps) = Singles(ps)
    BY <1>1 DEF FindPatterns
  <2>2. DOMAIN ps # {} /\ DOMAIN <<>> = {}
    OBVIOUS
  <2>3. Singles(ps) # <<>>
    BY <2>2, SinglesAre
  <2> QED  BY <2>1, <2>3, SinglesAre
<1>2. CASE known # {}
  <2> DEFINE k == Max(known)
             pre == SubSeq(ps, 1, k)
             suf == SubSeq(ps, k + 1, Len(ps))
  <2>1. known \in SUBSET (1 .. Len(ps)) /\ Len(ps) \in Nat
        /\ \A i \in known : i \in 1 .. Len(ps) - 1 /\ Known(n, SubSeq(ps, 1, i))
    BY DEF KnownPrefixes
  <2>2. k \in known
    <3>1. k = F!Max(known)
      BY DEF Max, F!Max
    <3> HIDE DEF k, known
    <3> QED  BY <1>2, <2>1, <3>1, F!MaxOf
  <2>3. k \in 1 .. Len(ps) - 1 /\ Known(n, pre)
    BY <2>1, <2>2
  <2>4. FindPatterns(n, ps) = <<pre>> \o Singles(suf)
    BY <1>2 DEF FindPatterns
  <2> HIDE DEF k, known
  <2>5. /\ pre \in Seq(BodyPatterns) /\ suf \in Seq(BodyPatterns) /\ pre # <<>>
        /\ ToSet(pre) \cup ToSet(suf) = ToSet(ps)
        /\ \A i \in DOMAIN suf : k + i \in DOMAIN ps /\ suf[i] = ps[k + i]
        /\ IsInjective(ps) => /\ IsInjective(pre) /\ IsInjective(suf)
                              /\ ToSet(pre) \cap ToSet(suf) = {}
    BY <2>3, Halves
  <2> HIDE DEF pre, suf
  <2>6. pre \in Lists /\ PatsOf(pre) = ToSet(pre) /\ PatsOf(pre) # {}
    <3>1. pre[1] \in ToSet(pre)
      BY <2>5 DEF ToSet
    <3> QED  BY <3>1, <2>5, PatternsAreList
  <2>7. /\ Ready(n, <<pre>>) /\ InLists(<<pre>>) = ToSet(pre) /\ Disjoint(<<pre>>)
        /\ <<pre>> # <<>>
    BY <2>3, <2>6, InListsOne
  <2>8. /\ Ready(n, Singles(suf)) /\ InLists(Singles(suf)) = ToSet(suf)
        /\ IsInjective(suf) => Disjoint(Singles(suf))
    BY <2>5, SinglesAre
  <2>9. <<pre>> \o Singles(suf) # <<>>
    BY <2>7, <2>8, ConcatProperties DEF Ready
  <2> DEFINE q == <<pre>> \o Singles(suf)
  <2>10. /\ Ready(n, q) /\ InLists(q) = InLists(<<pre>>) \cup InLists(Singles(suf))
         /\ Disjoint(<<pre>>) /\ Disjoint(Singles(suf))
            /\ InLists(<<pre>>) \cap InLists(Singles(suf)) = {} => Disjoint(q)
    <3>1. Chain(<<pre>>, Singles(suf), q)
      BY DEF Chain
    <3> HIDE DEF q
    <3> QED  BY <3>1, <2>7, <2>8, InListsConcat
  <2> HIDE DEF q
  <2>11. FindPatterns(n, ps) = q /\ q # <<>>
    BY <2>4, <2>9 DEF q
  <2> QED  BY <2>5, <2>7, <2>8, <2>10, <2>11
<1> QED  BY <1>1, <1>2

LEMMA AttachedIs ==
    ASSUME NEW n0, NEW s, NEW done, Passed(n0, s, done), done # {}
    PROVE  LET q == Attached(s)
           IN  /\ Ready(s.net, q) /\ q # <<>> /\ InLists(q) = done
               /\ Parted(s) => Disjoint(q)
<1> DEFINE rest == IF s.matched = <<>> THEN <<>>
                   ELSE IF Known(s.net, s.matched) THEN <<s.matched>>
                   ELSE FindPatterns(s.net, s.matched)
<1>1. /\ s.matched \in Seq(BodyPatterns) /\ s.attached \in Seq(Lists)
      /\ Ready(s.net, s.attached) /\ done = ToSet(s.matched) \cup InLists(s.attached)
  BY DEF Passed, Ready
<1>2. /\ Ready(s.net, rest) /\ InLists(rest) = ToSet(s.matched)
      /\ IsInjective(s.matched) => Disjoint(rest)
  <2>1. CASE s.matched = <<>>
    <3>1. rest = <<>> /\ <<>> \in Seq(Lists) /\ DOMAIN <<>> = {}
      BY <2>1, EmptySeq
    <3> QED  BY <2>1, <3>1 DEF Ready, InLists, ToSet, Disjoint
  <2>2. CASE s.matched # <<>> /\ Known(s.net, s.matched)
    <3>1. rest = <<s.matched>>
      BY <2>2
    <3>2. s.matched \in Lists /\ PatsOf(s.matched) = ToSet(s.matched)
      BY <1>1, PatternsAreList
    <3>3. s.matched[1] \in ToSet(s.matched)
      BY <1>1, <2>2 DEF ToSet
    <3> HIDE DEF rest
    <3> QED  BY <2>2, <3>1, <3>2, <3>3, InListsOne
  <2>3. CASE s.matched # <<>> /\ ~Known(s.net, s.matched)
    <3>1. rest = FindPatterns(s.net, s.matched)
      BY <2>3
    <3>2. \A i \in DOMAIN s.matched : Known(s.net, <<s.matched[i]>>)
      BY DEF Passed
    <3> HIDE DEF rest
    <3> QED  BY <1>1, <2>3, <3>1, <3>2, FindIs
  <2> QED  BY <2>1, <2>2, <2>3
<1>3. Attached(s) = s.attached \o rest
  BY DEF Attached
<1> HIDE DEF rest
<1>4. /\ Ready(s.net, Attached(s)) /\ InLists(Attached(s)) = done
      /\ Parted(s) => Disjoint(Attached(s))
  <2> DEFINE q == s.attached \o rest
  <2>1. /\ Ready(s.net, q) /\ InLists(q) = InLists(s.attached) \cup InLists(rest)
        /\ Disjoint(s.attached) /\ Disjoint(rest)
           /\ InLists(s.attached) \cap InLists(rest) = {} => Disjoint(q)
    <3>1. Chain(s.attached, rest, q)
      BY DEF Chain
    <3> HIDE DEF q
    <3> QED  BY <3>1, <1>1, <1>2, InListsConcat
  <2> HIDE DEF q
  <2>2. Attached(s) = q
    BY <1>3 DEF q
  <2> QED  BY <1>1, <1>2, <2>1, <2>2 DEF Parted
<1>5. Attached(s) # <<>>
  <2>1. InLists(<<>>) = {}
    BY DEF InLists
  <2> QED  BY <2>1, <1>4
<1> QED  BY <1>4, <1>5


LEMMA InOrderIs ==
    ASSUME NEW n, NEW q, Ready(n, q), q # <<>>
    PROVE  LET o == InOrder(n, q)
           IN  /\ Ready(n, o) /\ o # <<>> /\ InLists(o) = InLists(q)
               /\ Disjoint(q) => Disjoint(o)
<1> DEFINE items == [i \in DOMAIN q |->
                        [item |-> q[i], late |-> Late(n, NodeAt(n, q[i]))]]
           o == LateLast(items)
<1>1. /\ q \in Seq(Lists) /\ Len(q) \in Nat /\ DOMAIN q = 1 .. Len(q)
      /\ \A i \in 1 .. Len(q) : q[i] \in Lists
  BY ElementOfSeq DEF Ready
<1>2. ItemsOf(items) = [i \in 1 .. Len(q) |-> q[i]] /\ DOMAIN items = 1 .. Len(q)
  BY <1>1 DEF ItemsOf
<1>3. q = [i \in 1 .. Len(q) |-> q[i]]
  BY <1>1
<1>4. \A i \in 1 .. Len(q) : items[i].item \in Lists
  BY <1>1
<1>5. InOrder(n, q) = o
  BY DEF InOrder
<1> HIDE DEF items
<1>6. /\ o \in Seq(Lists) /\ ToSet(o) = ToSet(q)
      /\ IsInjective(q) => IsInjective(o)
  BY <1>1, <1>2, <1>3, <1>4, LateLastIs
<1> HIDE DEF o
<1>7. \A i \in DOMAIN o : \E j \in DOMAIN q : o[i] = q[j]
  BY <1>6, InToSet
<1>8. \A j \in DOMAIN q : \E i \in DOMAIN o : o[i] = q[j]
  BY <1>6, InToSet
<1>9. Ready(n, o)
  BY <1>6, <1>7 DEF Ready
<1>10. InLists(o) = InLists(q)
  <2>1. InLists(o) \subseteq InLists(q)
    BY <1>7 DEF InLists
  <2>2. InLists(q) \subseteq InLists(o)
    BY <1>8 DEF InLists
  <2> QED  BY <2>1, <2>2
<1>11. o # <<>>
  <2>1. 1 \in DOMAIN q /\ DOMAIN <<>> = {}
    BY <1>1
  <2> QED  BY <2>1, <1>8
<1>12. ASSUME Disjoint(q)
       PROVE  Disjoint(o)
  <2>1. IsInjective(q)
    <3>1. ASSUME NEW i \in DOMAIN q, NEW j \in DOMAIN q, q[i] = q[j]
          PROVE  i = j
      BY <3>1, <1>12 DEF Disjoint, Ready
    <3> QED  BY <3>1 DEF IsInjective
  <2>2. ASSUME NEW i \in DOMAIN o, NEW j \in DOMAIN o, i # j
        PROVE  PatsOf(o[i]) \cap PatsOf(o[j]) = {}
    <3>1. o[i] # o[j]
      BY <2>1, <2>2, <1>6 DEF IsInjective
    <3>2. PICK a \in DOMAIN q, b \in DOMAIN q : o[i] = q[a] /\ o[j] = q[b]
      BY <1>7
    <3> QED  BY <3>1, <3>2, <1>12 DEF Disjoint
  <2> QED  BY <2>2 DEF Disjoint
<1> QED  BY <1>5, <1>9, <1>10, <1>11, <1>12

\* m is n grown, with a beta node for the patterns pats.
Anchored(n, m, id, pats) ==
    /\ WellFormed(m) /\ Wired(m) /\ Grows(n, m) /\ id \in BetasOf(m)
    /\ NoCollision /\ Meaningful(n) => Meaningful(m) /\ Joins(m, id) = pats

LEMMA AnchorIs ==
    ASSUME NEW n, WellFormed(n), Wired(n), NEW ps \in Lists, Known(n, ps),
           PatsOf(ps) # {}
    PROVE  LET a == Anchor(n, ps)
           IN  /\ Anchored(n, a.net, a.id, PatsOf(ps))
               /\ Apart(n) => Apart(a.net)
<1> DEFINE a == Anchor(n, ps)
<1>0. Padded(ps) \in Lists /\ Key(Padded(ps))[1] # 0 /\ PatsOf(Padded(ps)) = PatsOf(ps)
  BY PaddedIs, PatsPadded
<1> SUFFICES Anchored(n, a.net, a.id, PatsOf(ps)) /\ (Apart(n) => Apart(a.net))
  OBVIOUS
<1>1. CASE Known(n, Padded(ps))
  <2>1. a.net = n /\ a.id = NodeAt(n, Padded(ps))
    BY <1>1 DEF Anchor
  <2>2. a.id \in BetasOf(n)
    BY <2>1, <1>0, <1>1 DEF WellFormed, Filed, NodeAt, Known
  <2>3. ASSUME NoCollision, Meaningful(n)
        PROVE  Joins(n, a.id) = PatsOf(ps)
    BY <2>1, <2>3, <1>0, <1>1, MeaningIs
  <2> HIDE DEF a
  <2> QED  BY <2>1, <2>2, <2>3, GrowsRefl DEF Anchored
<1>2. CASE ~Known(n, Padded(ps)) /\ IsBeta(n, NodeAt(n, ps))
  <2>1. a.net = n /\ a.id = NodeAt(n, ps) /\ a.id \in BetasOf(n)
    BY <1>2 DEF Anchor, IsBeta, BetasOf
  <2>2. ASSUME NoCollision, Meaningful(n)
        PROVE  Joins(n, a.id) = PatsOf(ps)
    BY <2>1, <2>2, MeaningIs
  <2> HIDE DEF a
  <2> QED  BY <2>1, <2>2, GrowsRefl DEF Anchored
<1>3. CASE ~Known(n, Padded(ps)) /\ ~IsBeta(n, NodeAt(n, ps))
  <2> DEFINE r == NodeAt(n, ps)
             m == CreateBetaNode(n, None, r, Padded(ps), TRUE)
  <2>1. a.net = m /\ a.id = n.next
    BY <1>3 DEF Anchor
  <2>2. r \in IdsOf(n) /\ None \in 0 .. n.next - 1 /\ None # r
    <3>1. r \in IdsOf(n) /\ n.next \in Nat \ {0}
      BY DEF WellFormed, Filed, NodeAt, Known, Numbered
    <3> HIDE DEF r
    <3> QED  BY <3>1 DEF None, IdsOf
  <2>3. BetaAdded(n, m, None, r, Padded(ps), TRUE)
    BY <2>2, NewBeta
  <2>3a. Usable(n, None) /\ Usable(n, r)
    <3>1. None \notin AlphasOf(n)
      BY DEF WellFormed, Numbered, IdsOf, None
    <3> QED  BY <3>1, FoundUsable DEF Usable
  <2> HIDE DEF m, a
  <2>4. WellFormed(m) /\ Grows(n, m) /\ n.next \in BetasOf(m)
    BY <2>2, <2>3, <2>3a, BetaKeeps
  <2>5. Wired(m) /\ (Apart(n) => Apart(m))
    BY <2>2, <2>3, <2>3a, BetaWired
  <2>6. ASSUME NoCollision, Meaningful(n)
        PROVE  Meaningful(m) /\ Joins(m, n.next) = PatsOf(ps)
    <3>1. Joins(n, None) = {} /\ Joins(n, r) = PatsOf(ps)
      BY <2>6, MeaningIs, JoinsIs
    <3>2. PatsOf(Padded(ps)) = Joins(n, None) \cup Joins(n, r)
      BY <3>1, <1>0
    <3> DEFINE pp == Padded(ps)
    <3>3. /\ BetaAdded(n, m, None, r, pp, TRUE) /\ pp \in Lists /\ PatsOf(pp) # {}
          /\ PatsOf(pp) = Joins(n, None) \cup Joins(n, r) /\ PatsOf(pp) = PatsOf(ps)
      BY <2>3, <3>2, <1>0
    <3> HIDE DEF r, pp
    <3>4. /\ r \in IdsOf(n) /\ None \in 0 .. n.next - 1 /\ Meaningful(n) /\ WellFormed(n)
          /\ Usable(n, None) /\ Usable(n, r)
      BY <2>2, <2>3a, <2>6
    <3>5. Meaningful(m)
      BY <3>3, <3>4, BetaMeaning
    <3>6. Joins(m, n.next) = PatsOf(pp)
      <4>1. m.parents[n.next] = <<None, r>> /\ WellFormed(m)
        BY <2>3, <2>4 DEF BetaAdded, Put
      <4>2. Joins(m, n.next) = Joins(m, None) \cup Joins(m, r)
        BY <4>1, <2>4, JoinsIs
      <4>3. r \in 0 .. n.next - 1
        BY <3>4 DEF IdsOf
      <4>4. Joins(m, r) = Joins(n, r) /\ Joins(m, None) = Joins(n, None)
        BY <4>3, <3>4, <2>4, JoinsKept
      <4> QED  BY <4>2, <4>4, <3>3
    <3> QED  BY <3>3, <3>5, <3>6
  <2> QED  BY <2>1, <2>4, <2>5, <2>6 DEF Anchored
<1> HIDE DEF a
<1> QED  BY <1>1, <1>2, <1>3

\* s after the lists attached so far, begun with n.
Grown(n, s) ==
    /\ DOMAIN s = {"net", "id", "patterns"}
    /\ s.patterns \in Lists /\ PatsOf(s.patterns) # {}
    /\ Anchored(n, s.net, s.id, PatsOf(s.patterns))

\* t is s after the list ps.
AttachedTo(n, s, t, ps) ==
    /\ Grown(n, t)
    /\ PatsOf(t.patterns) = PatsOf(s.patterns) \cup PatsOf(ps)
    /\ NoCollision /\ Meaningful(n) /\ Apart(s.net)
          /\ PatsOf(s.patterns) \cap PatsOf(ps) = {} => Apart(t.net)

LEMMA PatsConcat ==
    ASSUME NEW ps \in Lists, NEW qs \in Lists
    PROVE  ps \o qs \in Lists /\ PatsOf(ps \o qs) = PatsOf(ps) \cup PatsOf(qs)
<1>1. ToSet(ps \o qs) = ToSet(ps) \cup ToSet(qs)
  BY ToSetConcat DEF Lists
<1>2. ps \o qs \in Lists
  BY ConcatProperties DEF Lists
<1> QED  BY <1>1, <1>2 DEF PatsOf

LEMMA AttachKeeps ==
    ASSUME NEW n, WellFormed(n), NEW s, Grown(n, s), NEW ps \in Lists, Known(n, ps),
           PatsOf(ps) # {}
    PROVE  AttachedTo(n, s, AttachOne(s, ps), ps)
<1> DEFINE m == s.net
           l == s.id
           r == NodeAt(m, ps)
           whole == s.patterns \o ps
           m2 == CreateBetaNode(m, l, r, whole, FALSE)
           t == [net |-> m2, id |-> m.next, patterns |-> whole]
<1>1. t = AttachOne(s, ps)
  BY DEF AttachOne
<1>2. DOMAIN t = {"net", "id", "patterns"} /\ t.net = m2 /\ t.id = m.next /\ t.patterns = whole
  OBVIOUS
<1>3. /\ WellFormed(m) /\ Wired(m) /\ Grows(n, m) /\ l \in BetasOf(m)
      /\ s.patterns \in Lists /\ PatsOf(s.patterns) # {}
      /\ NoCollision /\ Meaningful(n) => Meaningful(m) /\ Joins(m, l) = PatsOf(s.patterns)
  BY DEF Grown, Anchored
<1>4. whole \in Lists /\ PatsOf(whole) = PatsOf(s.patterns) \cup PatsOf(ps)
  BY <1>3, PatsConcat
<1>5. Known(m, ps)
  BY <1>3, KnownStays
<1> HIDE DEF t
<1>6. l \in IdsOf(m) /\ r \in IdsOf(m) /\ l \in 0 .. m.next - 1
  <2>1. m.next \in Nat \ {0} /\ BetasOf(m) \subseteq IdsOf(m)
    BY <1>3 DEF WellFormed, Numbered
  <2>2. r \in IdsOf(m)
    BY <1>3, <1>5 DEF WellFormed, Filed, NodeAt, Known
  <2> HIDE DEF m, l, r
  <2> QED  BY <2>1, <2>2, <1>3 DEF IdsOf
<1>6a. Usable(m, l) /\ Usable(m, r)
  <2>1. l \notin AlphasOf(m)
    BY <1>3 DEF WellFormed, Numbered
  <2> QED  BY <2>1, <1>5, FoundUsable DEF Usable
<1>7. BetaAdded(m, m2, l, r, whole, FALSE)
  <2> HIDE DEF m, l, r, whole
  <2> QED  BY <1>3, <1>6, NewBeta DEF m2
<1>8. ASSUME NoCollision, Meaningful(n)
      PROVE  Joins(m, l) = PatsOf(s.patterns) /\ Joins(m, r) = PatsOf(ps) /\ Meaningful(m)
  BY <1>3, <1>5, <1>8, MeaningIs
<1> HIDE DEF m, l, r, whole, m2
<1>9. WellFormed(m2) /\ Grows(m, m2) /\ m.next \in BetasOf(m2)
  BY <1>3, <1>6, <1>6a, <1>7, BetaKeeps
<1>10. Wired(m2) /\ (Apart(m) /\ l # r => Apart(m2))
  BY <1>3, <1>6, <1>6a, <1>7, BetaWired
<1>11. Grows(n, m2)
  BY <1>3, <1>9, GrowsMore
<1>12. ASSUME NoCollision, Meaningful(n)
       PROVE  Meaningful(m2) /\ Joins(m2, m.next) = PatsOf(whole)
  <2>1. PatsOf(whole) # {} /\ PatsOf(whole) = Joins(m, l) \cup Joins(m, r)
    BY <1>3, <1>4, <1>8, <1>12
  <2>2. Meaningful(m2)
    BY <2>1, <1>3, <1>4, <1>6, <1>6a, <1>7, <1>8, <1>12, BetaMeaning
  <2>3. m2.parents[m.next] = <<l, r>>
    BY <1>7 DEF BetaAdded, Put
  <2>4. Joins(m2, m.next) = Joins(m2, l) \cup Joins(m2, r)
    BY <2>3, <1>9, JoinsIs
  <2>5. r \in 0 .. m.next - 1
    BY <1>6 DEF IdsOf
  <2>6. Joins(m2, l) = Joins(m, l) /\ Joins(m2, r) = Joins(m, r)
    BY <2>5, <1>3, <1>6, <1>9, JoinsKept
  <2> QED  BY <2>1, <2>2, <2>4, <2>6
<1>13. Grown(n, t)
  BY <1>2, <1>3, <1>4, <1>9, <1>10, <1>11, <1>12 DEF Grown, Anchored
<1>14. ASSUME NoCollision, Meaningful(n), Apart(s.net),
              PatsOf(s.patterns) \cap PatsOf(ps) = {}
       PROVE  Apart(t.net)
  <2>1. l # r
    BY <1>8, <1>14
  <2>2. Apart(m)
    BY <1>14 DEF m
  <2> QED  BY <2>1, <2>2, <1>2, <1>10
<1> QED  BY <1>1, <1>2, <1>4, <1>13, <1>14 DEF AttachedTo
LEMMA AttachDone ==
    ASSUME NEW n, WellFormed(n), Wired(n), NEW q, Ready(n, q), q # <<>>
    PROVE  LET s == AttachBetaNodes(n, q)
           IN  /\ Grown(n, s) /\ PatsOf(s.patterns) = InLists(q)
               /\ NoCollision /\ Meaningful(n) /\ Apart(n) /\ Disjoint(q) => Apart(s.net)
<1> DEFINE rest == Tail(q)
           N == Len(rest)
           anchor == Anchor(n, q[1])
           start == [net |-> anchor.net, id |-> anchor.id, patterns |-> Padded(q[1])]
           s == FoldLeft(AttachOne, start, rest)
           UpToPlace(k) == UNION {PatsOf(q[j]) : j \in 1 .. k + 1}
           Fine == NoCollision /\ Meaningful(n) /\ Apart(n) /\ Disjoint(q)
<1>1. /\ q \in Seq(Lists) /\ Len(q) \in Nat \ {0} /\ DOMAIN q = 1 .. Len(q)
      /\ \A i \in 1 .. Len(q) : q[i] \in Lists /\ Known(n, q[i]) /\ PatsOf(q[i]) # {}
  BY ElementOfSeq DEF Ready
<1>2. /\ rest \in Seq(Lists) /\ N = Len(q) - 1 /\ N \in Nat /\ DOMAIN rest = 1 .. N
      /\ \A i \in 1 .. N : rest[i] = q[i + 1]
  BY <1>1
<1>3. AttachBetaNodes(n, q) = s
  BY DEF AttachBetaNodes
<1>4. s = A!Folded(start, rest)
  BY DEF FoldLeft, MapThenFoldSet, Max, A!Max, A!Folded, A!Value
<1> HIDE DEF s, rest, N
<1>5. PICK at : /\ at[0] = start
                /\ \A k \in 1 .. N : at[k] = AttachOne(at[k - 1], rest[k])
                /\ s = at[N]
  <2> HIDE DEF start
  <2>1. PICK at : A!Series(start, rest, N, at)
    BY <1>2, A!LeftFold
  <2> QED  BY <1>4, <2>1 DEF A!Series
<1> DEFINE P == {k \in 0 .. N : /\ Grown(n, at[k])
                                /\ PatsOf(at[k].patterns) = UpToPlace(k)
                                /\ Fine => Apart(at[k].net)}
<1>6. 0 \in P
  <2>1. q[1] \in Lists /\ Known(n, q[1]) /\ PatsOf(q[1]) # {}
    BY <1>1
  <2>2. /\ Anchored(n, anchor.net, anchor.id, PatsOf(q[1]))
        /\ Apart(n) => Apart(anchor.net)
    BY <2>1, AnchorIs
  <2>3. Padded(q[1]) \in Lists /\ PatsOf(Padded(q[1])) = PatsOf(q[1])
    BY <2>1, PaddedIs, PatsPadded
  <2>4. /\ DOMAIN at[0] = {"net", "id", "patterns"} /\ at[0].net = anchor.net
        /\ at[0].id = anchor.id /\ at[0].patterns = Padded(q[1])
    BY <1>5
  <2>5. UpToPlace(0) = PatsOf(q[1])
    <3>1. 1 .. 0 + 1 = {1}
      OBVIOUS
    <3> QED  BY <3>1
  <2> HIDE DEF anchor, UpToPlace
  <2>6. Grown(n, at[0]) /\ PatsOf(at[0].patterns) = UpToPlace(0)
    BY <2>1, <2>2, <2>3, <2>4, <2>5 DEF Grown
  <2> QED  BY <2>2, <2>4, <2>6, <1>2
<1>7. ASSUME NEW k \in 1 .. N, k - 1 \in P
      PROVE  k \in P
  <2>1. /\ at[k] = AttachOne(at[k - 1], q[k + 1]) /\ k + 1 \in 1 .. Len(q)
        /\ q[k + 1] \in Lists /\ Known(n, q[k + 1]) /\ PatsOf(q[k + 1]) # {}
        /\ k \in 0 .. N
    <3>1. k + 1 \in 1 .. Len(q) /\ k \in 0 .. N /\ rest[k] = q[k + 1]
      BY <1>1, <1>2
    <3>2. at[k] = AttachOne(at[k - 1], rest[k])
      BY <1>5
    <3> QED  BY <3>1, <3>2, <1>1
  <2>2. /\ Grown(n, at[k - 1]) /\ PatsOf(at[k - 1].patterns) = UpToPlace(k - 1)
        /\ Fine => Apart(at[k - 1].net)
    BY <1>7
  <2>3. AttachedTo(n, at[k - 1], at[k], q[k + 1])
    BY <2>1, <2>2, AttachKeeps
  <2>4. UpToPlace(k) = UpToPlace(k - 1) \cup PatsOf(q[k + 1])
    <3>1. 1 .. k + 1 = (1 .. (k - 1) + 1) \cup {k + 1}
      OBVIOUS
    <3> QED  BY <3>1
  <2>5. ASSUME Fine
        PROVE  UpToPlace(k - 1) \cap PatsOf(q[k + 1]) = {}
    <3>1. \A j \in 1 .. (k - 1) + 1 : j \in 1 .. Len(q) /\ j # k + 1
      BY <2>1
    <3> QED  BY <3>1, <2>1, <2>5, <1>1 DEF Disjoint
  <2> HIDE DEF UpToPlace
  <2>6. Fine => Apart(at[k].net)
    BY <2>2, <2>3, <2>5 DEF AttachedTo
  <2>7. Grown(n, at[k]) /\ PatsOf(at[k].patterns) = UpToPlace(k)
    BY <2>2, <2>3, <2>4 DEF AttachedTo
  <2> HIDE DEF Fine
  <2> QED  BY <2>1, <2>6, <2>7
<1>8. N \in P
  <2> HIDE DEF P
  <2>1. 0 .. N \subseteq P
    BY <1>2, <1>6, <1>7, A!UpTo
  <2> QED  BY <2>1, <1>2
<1>9. UpToPlace(N) = InLists(q)
  <2>1. 1 .. N + 1 = DOMAIN q
    BY <1>1, <1>2
  <2> QED  BY <2>1 DEF InLists
<1> QED  BY <1>3, <1>5, <1>8, <1>9
LEMMA AttachAllIs ==
    ASSUME NEW n, WellFormed(n), Wired(n), NEW q, Ready(n, q), q # <<>>
    PROVE  LET d == AttachAll(n, q)
           IN  /\ Anchored(n, d.net, d.id, InLists(q))
               /\ NoCollision /\ Meaningful(n) /\ Apart(n) /\ Disjoint(q) => Apart(d.net)
<1> DEFINE d == AttachAll(n, q)
           Fine == NoCollision /\ Meaningful(n) /\ Apart(n) /\ Disjoint(q)
<1> SUFFICES Anchored(n, d.net, d.id, InLists(q)) /\ (Fine => Apart(d.net))
  OBVIOUS
<1>1. CASE Len(q) > 1
  <2> DEFINE o == InOrder(n, q)
  <2>1. d = AttachBetaNodes(n, o)
    BY <1>1 DEF AttachAll
  <2>2. Ready(n, o) /\ o # <<>> /\ InLists(o) = InLists(q) /\ (Disjoint(q) => Disjoint(o))
    BY InOrderIs
  <2> HIDE DEF o, d
  <2>3. /\ Grown(n, d) /\ PatsOf(d.patterns) = InLists(o)
        /\ NoCollision /\ Meaningful(n) /\ Apart(n) /\ Disjoint(o) => Apart(d.net)
    BY <2>1, <2>2, AttachDone
  <2> QED  BY <2>2, <2>3 DEF Grown
<1>2. CASE ~(Len(q) > 1)
  <2>1. q[1] \in Lists /\ Known(n, q[1]) /\ PatsOf(q[1]) # {} /\ DOMAIN q = {1}
    <3>1. q \in Seq(Lists) /\ Len(q) = 1 /\ DOMAIN q = {1}
      BY <1>2 DEF Ready
    <3> QED  BY <3>1 DEF Ready
  <2>2. InLists(q) = PatsOf(q[1])
    BY <2>1 DEF InLists
  <2>3. CASE IsBeta(n, NodeAt(n, q[1]))
    <3>1. d.net = n /\ d.id = NodeAt(n, q[1]) /\ d.id \in BetasOf(n)
      BY <1>2, <2>3 DEF AttachAll, IsBeta, BetasOf
    <3>2. ASSUME NoCollision, Meaningful(n)
          PROVE  Joins(n, d.id) = PatsOf(q[1])
      BY <3>1, <3>2, <2>1, MeaningIs
    <3> HIDE DEF d
    <3> QED  BY <2>2, <3>1, <3>2, GrowsRefl DEF Anchored
  <2>4. CASE ~IsBeta(n, NodeAt(n, q[1]))
    <3>1. d = Anchor(n, q[1])
      BY <1>2, <2>4 DEF AttachAll
    <3> HIDE DEF d
    <3> QED  BY <3>1, <2>1, <2>2, AnchorIs
  <2> QED  BY <2>3, <2>4
<1> QED  BY <1>1, <1>2

(***************************************************************************)
(* A rule's terminal node.                                                 *)
(***************************************************************************)
LEMMA JoinsSame ==
    ASSUME NEW n, NEW m, m.next = n.next, m.patternOf = n.patternOf,
           m.parents = n.parents, NEW id
    PROVE  Joins(m, id) = Joins(n, id)
<1>1. LeavesOf(m) = LeavesOf(n)
  BY DEF LeavesOf
<1> QED  BY <1>1 DEF Joins

\* m is n but for what its terminal nodes conclude.
SameNodes(n, m) ==
    /\ DOMAIN m = Fields /\ m.next = n.next /\ m.nodes = n.nodes
    /\ m.patternOf = n.patternOf /\ m.parents = n.parents
    /\ m.varsOf = n.varsOf /\ m.common = n.common /\ m.feeds = n.feeds

LEMMA SameKeeps ==
    ASSUME NEW n, NEW m, WellFormed(n), Wired(n), SameNodes(n, m), Typed(m)
    PROVE  /\ WellFormed(m) /\ Wired(m) /\ (Meaningful(n) => Meaningful(m))
           /\ (Apart(n) => Apart(m)) /\ \A id : Joins(m, id) = Joins(n, id)
<1>1. AlphasOf(m) = AlphasOf(n) /\ BetasOf(m) = BetasOf(n) /\ IdsOf(m) = IdsOf(n)
  BY DEF SameNodes, AlphasOf, BetasOf, IdsOf
<1>2. \A id : Joins(m, id) = Joins(n, id)
  BY JoinsSame DEF SameNodes
<1>3. Numbered(m) /\ Joined(m) /\ Memories(m)
  BY <1>1 DEF SameNodes, WellFormed, Numbered, Joined, Memories
<1>4. Filed(m) /\ OneEach(m)
  BY <1>1 DEF SameNodes, WellFormed, Filed, OneEach, InUse, FoundIn, Known
<1>5. WellFormed(m)
  BY <1>3, <1>4 DEF WellFormed, SameNodes
<1>6. Wired(m)
  BY <1>1 DEF Wired, FedOnce, Feeding, SameNodes
<1>7. ASSUME Meaningful(n)
      PROVE  Meaningful(m)
  BY <1>2, <1>7 DEF Meaningful, Stands, SameNodes
<1>8. ASSUME Apart(n)
      PROVE  Apart(m)
  BY <1>1, <1>8 DEF Apart, SameNodes
<1> QED  BY <1>2, <1>5, <1>6, <1>7, <1>8

\* m is g with rule r at the terminal node b.
Terminated(g, m, b, r) ==
    /\ SameNodes(g, m) /\ Typed(m)
    /\ m.consequent[b] = g.consequent[b] \cup r.head
    /\ \A c \in BetasOf(g) \ {b} : m.consequent[c] = g.consequent[c]
    /\ DOMAIN m.terminals = {b} \cup DOMAIN g.terminals
    /\ m.terminals[b] = (IF b \in DOMAIN g.terminals THEN g.terminals[b] ELSE {}) \cup {r}
    /\ \A c \in DOMAIN g.terminals \ {b} : m.terminals[c] = g.terminals[c]

LEMMA TerminateIs ==
    ASSUME NEW g, WellFormed(g), NEW b \in BetasOf(g), NEW r \in RuleBase
    PROVE  Terminated(g, Terminate(g, b, r), b, r)
<1> DEFINE m == Terminate(g, b, r)
           at == (IF b \in DOMAIN g.terminals THEN g.terminals[b] ELSE {}) \cup {r}
<1>1. /\ DOMAIN m = Fields /\ m.next = g.next /\ m.nodes = g.nodes
      /\ m.patternOf = g.patternOf /\ m.parents = g.parents
      /\ m.varsOf = g.varsOf /\ m.common = g.common /\ m.feeds = g.feeds
      /\ m.consequent = [g.consequent EXCEPT ![b] = @ \cup r.head]
      /\ m.heads = [g.heads EXCEPT ![b] =
                       @ \cup (IF Cardinality(r.head) = 1 THEN r.head ELSE {})]
      /\ m.exists = [g.exists EXCEPT ![b] = @ \cup r.exists]
      /\ m.terminals = Put(g.terminals, b, at)
  BY DEF WellFormed, Fields, Terminate
<1> HIDE DEF m
<1>2. r.head \subseteq Pattern /\ r.exists \subseteq Var
  BY RuleBaseAssumption
<1>3. /\ g.consequent \in [BetasOf(g) -> SUBSET Pattern]
      /\ g.heads \in [BetasOf(g) -> SUBSET Pattern]
      /\ g.exists \in [BetasOf(g) -> SUBSET Var]
      /\ g.terminals \in [DOMAIN g.terminals -> SUBSET RuleBase]
      /\ DOMAIN g.terminals \subseteq BetasOf(g)
  BY DEF WellFormed, Typed
<1>4. at \in SUBSET RuleBase
  BY <1>3
<1> HIDE DEF at
<1>5. /\ DOMAIN m.terminals = {b} \cup DOMAIN g.terminals /\ m.terminals[b] = at
      /\ \A c \in DOMAIN g.terminals : c # b => m.terminals[c] = g.terminals[c]
      /\ m.terminals \in [DOMAIN m.terminals -> SUBSET RuleBase]
  BY <1>1, <1>3, <1>4 DEF Put
<1>6. AlphasOf(m) = AlphasOf(g) /\ BetasOf(m) = BetasOf(g) /\ IdsOf(m) = IdsOf(g)
  BY <1>1 DEF AlphasOf, BetasOf, IdsOf
<1>7. /\ m.consequent \in [BetasOf(g) -> SUBSET Pattern]
      /\ m.heads \in [BetasOf(g) -> SUBSET Pattern]
      /\ m.exists \in [BetasOf(g) -> SUBSET Var]
  BY <1>1, <1>2, <1>3
<1>8. /\ m.patternOf \in [AlphasOf(m) -> Pattern]
      /\ m.varsOf \in [IdsOf(m) -> SUBSET Var]
      /\ m.common \in [BetasOf(m) -> SUBSET Var]
  BY <1>1, <1>6 DEF WellFormed, Typed
<1>9. Typed(m)
  BY <1>3, <1>5, <1>6, <1>7, <1>8 DEF Typed
<1>10. /\ m.consequent[b] = g.consequent[b] \cup r.head
       /\ \A c \in BetasOf(g) \ {b} : m.consequent[c] = g.consequent[c]
  BY <1>1, <1>3
<1>11. SameNodes(g, m)
  BY <1>1 DEF SameNodes
<1> QED  BY <1>5, <1>9, <1>10, <1>11 DEF Terminated, at, m

\* m is n with what an abandoned compilation has left.
Stopped(n, m) ==
    /\ WellFormed(m) /\ Wired(m) /\ Grows(n, m) /\ (Apart(n) => Apart(m))
    /\ NoCollision /\ Meaningful(n) => Meaningful(m)

\* m is n with rule r compiled into it, its terminal node b.
Compiled(n, m, r, g, b) ==
    /\ Anchored(n, g, b, ToSet(r.body))
    /\ NoCollision /\ Meaningful(n) /\ Apart(n) /\ IsInjective(r.body) => Apart(g)
    /\ Terminated(g, m, b, r)

LEMMA BuildIs ==
    ASSUME NEW n, WellFormed(n), Wired(n), NEW r \in RuleBase
    PROVE  LET built == BuildNetwork(n, r)
           IN  \/ built.raised = TRUE /\ Stopped(n, built.net)
               \/ built.raised = FALSE /\ \E g, b : Compiled(n, built.net, r, g, b)
<1> DEFINE order == Ordered(r.body)
           s == FoldLeft(FirstPass, Begun(n), order)
           q == Attached(s)
           d == AttachAll(s.net, q)
           m == Terminate(d.net, d.id, r)
<1>1. BuildNetwork(n, r) = [net |-> IF s.raised THEN s.net ELSE m, raised |-> s.raised]
  BY DEF BuildNetwork, FinishFrom, Finish, Begun
<1>2. /\ order \in Seq(BodyPatterns) /\ ToSet(order) = ToSet(r.body)
      /\ IsInjective(r.body) => IsInjective(order)
  BY OrderedIs
<1> HIDE DEF order
<1>a. /\ \/ Abandoned(n, s)
         \/ Passed(n, s, ToSet(r.body)) /\ (IsInjective(order) => Parted(s))
      /\ Apart(n) => Apart(s.net)
      /\ NoCollision /\ Meaningful(n) => Meaningful(s.net)
  BY <1>2, PassDone
<1> HIDE DEF s
<1>b. CASE Abandoned(n, s)
  <2>1. Stopped(n, s.net) /\ s.raised = TRUE
    BY <1>a, <1>b DEF Abandoned, Stopped
  <2> HIDE DEF m, s
  <2>2. BuildNetwork(n, r).net = s.net /\ BuildNetwork(n, r).raised = TRUE
    BY <1>1, <2>1
  <2> QED  BY <2>1, <2>2
<1>c. ASSUME s.raised = FALSE, NEW g, NEW b, Compiled(n, m, r, g, b)
      PROVE  /\ BuildNetwork(n, r).raised = FALSE
             /\ Compiled(n, BuildNetwork(n, r).net, r, g, b)
  <2> HIDE DEF m, s
  <2>1. BuildNetwork(n, r).net = m /\ BuildNetwork(n, r).raised = FALSE
    BY <1>1, <1>c
  <2> QED  BY <2>1, <1>c
<1> SUFFICES ASSUME ~Abandoned(n, s)
             PROVE  \E g, b : /\ BuildNetwork(n, r).raised = FALSE
                              /\ Compiled(n, BuildNetwork(n, r).net, r, g, b)
  BY <1>b
<1>3. /\ Passed(n, s, ToSet(r.body)) /\ s.raised = FALSE
      /\ Apart(n) => Apart(s.net)
      /\ IsInjective(order) => Parted(s)
      /\ NoCollision /\ Meaningful(n) => Meaningful(s.net)
  BY <1>a DEF Passed
<1>4. WellFormed(s.net) /\ Wired(s.net) /\ Grows(n, s.net)
  BY <1>3 DEF Passed
<1>5. ToSet(r.body) # {}
  <2>1. r.body \in Seq(Pattern) /\ r.body # <<>>
    BY RuleBaseAssumption
  <2>2. r.body[1] \in ToSet(r.body)
    BY <2>1 DEF ToSet
  <2> QED  BY <2>2
<1>6. /\ Ready(s.net, q) /\ q # <<>> /\ InLists(q) = ToSet(r.body)
      /\ Parted(s) => Disjoint(q)
  BY <1>3, <1>5, AttachedIs
<1> HIDE DEF q
<1>7. /\ Anchored(s.net, d.net, d.id, ToSet(r.body))
      /\ NoCollision /\ Meaningful(s.net) /\ Apart(s.net) /\ Disjoint(q) => Apart(d.net)
  BY <1>4, <1>6, AttachAllIs
<1> HIDE DEF d
<1>8. WellFormed(d.net) /\ d.id \in BetasOf(d.net)
  BY <1>7 DEF Anchored
<1>9. Grows(n, d.net)
  BY <1>4, <1>7, GrowsMore DEF Anchored
<1>10. Anchored(n, d.net, d.id, ToSet(r.body))
  BY <1>3, <1>7, <1>9 DEF Anchored
<1>11. ASSUME NoCollision, Meaningful(n), Apart(n), IsInjective(r.body)
       PROVE  Apart(d.net)
  BY <1>2, <1>3, <1>6, <1>7, <1>11
<1>12. Terminated(d.net, m, d.id, r)
  BY <1>8, TerminateIs
<1> HIDE DEF m
<1>13. Compiled(n, m, r, d.net, d.id)
  BY <1>10, <1>11, <1>12 DEF Compiled
<1> QED  BY <1>3, <1>13, <1>c

(***************************************************************************)
(* The inductive invariant.                                                *)
(***************************************************************************)
\* A beta node concludes what the heads of its rules say.
Heads(n) == \A b \in BetasOf(n) : \A h \in n.consequent[b] :
               b \in DOMAIN n.terminals /\ \E r \in n.terminals[b] : h \in r.head

\* Each rule has a terminal node, which concludes its head.
Placed(n, rs) == \A r \in rs : \E b \in DOMAIN n.terminals :
                    r \in n.terminals[b] /\ r.head \subseteq n.consequent[b]

\* A terminal node has rules, all of them added.
Owned(n, rs) == \A b \in DOMAIN n.terminals :
                   n.terminals[b] # {} /\ n.terminals[b] \subseteq rs

\* A terminal node joins the bodies of its rules.
Bodies(n) == \A b \in DOMAIN n.terminals : \A r \in n.terminals[b] :
                ToSet(r.body) = Joins(n, b)

\* No body has a pattern twice.
NoRepeats == \A r \in RuleBase : IsInjective(r.body)

Network(n, rs) ==
    /\ WellFormed(n) /\ Wired(n) /\ rs \subseteq RuleBase
    /\ Heads(n) /\ Placed(n, rs) /\ Owned(n, rs)
    /\ NoCollision => Meaningful(n) /\ Bodies(n)
    /\ NoCollision /\ NoRepeats => Apart(n)

LEMMA CompiledKeeps ==
    ASSUME NEW n, NEW rs, Network(n, rs), NEW r \in RuleBase,
           NEW m, NEW g, NEW b, Compiled(n, m, r, g, b)
    PROVE  Network(m, rs \cup {r})
<1>1. /\ WellFormed(n) /\ Wired(n) /\ rs \subseteq RuleBase
      /\ Heads(n) /\ Placed(n, rs) /\ Owned(n, rs)
  BY DEF Network
<1>2. WellFormed(g) /\ Wired(g) /\ Grows(n, g) /\ b \in BetasOf(g)
  BY DEF Compiled, Anchored
<1>3. /\ SameNodes(g, m) /\ Typed(m)
      /\ m.consequent[b] = g.consequent[b] \cup r.head
      /\ \A c \in BetasOf(g) \ {b} : m.consequent[c] = g.consequent[c]
      /\ DOMAIN m.terminals = {b} \cup DOMAIN g.terminals
      /\ m.terminals[b] = (IF b \in DOMAIN g.terminals THEN g.terminals[b] ELSE {}) \cup {r}
      /\ \A c \in DOMAIN g.terminals \ {b} : m.terminals[c] = g.terminals[c]
  BY DEF Compiled, Terminated
<1>4. /\ WellFormed(m) /\ Wired(m) /\ (Meaningful(g) => Meaningful(m))
      /\ Apart(g) => Apart(m)
      /\ \A id : Joins(m, id) = Joins(g, id)
  BY <1>2, <1>3, SameKeeps
<1>5. BetasOf(m) = BetasOf(g)
  BY <1>3 DEF SameNodes, BetasOf
<1>6. /\ g.terminals = n.terminals /\ DOMAIN n.terminals \subseteq BetasOf(n)
      /\ BetasOf(n) \subseteq BetasOf(g) /\ BetasOf(n) \subseteq IdsOf(n)
      /\ \A c \in BetasOf(n) : g.consequent[c] = n.consequent[c]
      /\ \A c \in BetasOf(g) \ BetasOf(n) : g.consequent[c] = {}
  BY <1>1, <1>2 DEF Grows, WellFormed, Typed, Numbered
<1>7. Heads(m)
  <2>1. ASSUME NEW c \in BetasOf(m), NEW h \in g.consequent[c]
        PROVE  c \in DOMAIN n.terminals /\ \E x \in n.terminals[c] : h \in x.head
    BY <1>1, <1>5, <1>6, <2>1 DEF Heads
  <2>2. ASSUME NEW c \in BetasOf(m), NEW h \in m.consequent[c]
        PROVE  c \in DOMAIN m.terminals /\ \E x \in m.terminals[c] : h \in x.head
    <3>1. CASE c = b /\ h \in r.head
      BY <3>1, <1>3
    <3>2. CASE c = b /\ h \in g.consequent[c]
      BY <3>2, <2>1, <1>3, <1>6
    <3>3. CASE c # b
      <4>1. h \in g.consequent[c]
        BY <3>3, <2>2, <1>3, <1>5
      <4> QED  BY <3>3, <4>1, <2>1, <1>3, <1>6
    <3> QED  BY <3>1, <3>2, <3>3, <2>2, <1>3
  <2> QED  BY <2>2 DEF Heads
<1>8. Placed(m, rs \cup {r})
  <2>1. ASSUME NEW x \in rs
        PROVE  \E c \in DOMAIN m.terminals : x \in m.terminals[c] /\ x.head \subseteq m.consequent[c]
    <3>1. PICK c \in DOMAIN n.terminals : x \in n.terminals[c] /\ x.head \subseteq n.consequent[c]
      BY <1>1 DEF Placed
    <3>2. c \in DOMAIN m.terminals /\ c \in BetasOf(g) /\ g.consequent[c] = n.consequent[c]
      BY <3>1, <1>3, <1>6
    <3>3. CASE c = b
      BY <3>1, <3>2, <3>3, <1>3, <1>6
    <3>4. CASE c # b
      BY <3>1, <3>2, <3>4, <1>3, <1>6
    <3> QED  BY <3>3, <3>4
  <2>2. r \in m.terminals[b] /\ r.head \subseteq m.consequent[b] /\ b \in DOMAIN m.terminals
    BY <1>3
  <2> QED  BY <2>1, <2>2 DEF Placed
<1>9. ASSUME NoCollision
      PROVE  Meaningful(m) /\ Bodies(m)
  <2>1. Meaningful(n) /\ Bodies(n)
    BY <1>9 DEF Network
  <2>2. Meaningful(g) /\ Joins(g, b) = ToSet(r.body)
    BY <1>9, <2>1 DEF Compiled, Anchored
  <2>3. ASSUME NEW c \in DOMAIN n.terminals, NEW x \in n.terminals[c]
        PROVE  ToSet(x.body) = Joins(m, c)
    <3>1. c \in 0 .. n.next - 1
      BY <1>6 DEF IdsOf
    <3>2. Joins(g, c) = Joins(n, c)
      BY <3>1, <1>1, <1>2, JoinsKept
    <3> QED  BY <3>2, <2>1, <1>4 DEF Bodies
  <2>4. ASSUME NEW c \in DOMAIN m.terminals, NEW x \in m.terminals[c]
        PROVE  ToSet(x.body) = Joins(m, c)
    <3>1. CASE c = b /\ x = r
      BY <3>1, <2>2, <1>4
    <3>2. CASE c \in DOMAIN n.terminals /\ x \in n.terminals[c]
      BY <3>2, <2>3
    <3> QED  BY <3>1, <3>2, <2>4, <1>3, <1>6
  <2> QED  BY <2>2, <2>4, <1>4 DEF Bodies
<1>10. ASSUME NoCollision, NoRepeats
       PROVE  Apart(m)
  <2>1. Meaningful(n) /\ Apart(n) /\ IsInjective(r.body)
    BY <1>10 DEF Network, NoRepeats
  <2> QED  BY <2>1, <1>4, <1>10 DEF Compiled
<1>11. Owned(m, rs \cup {r})
  <2>1. ASSUME NEW c \in DOMAIN m.terminals
        PROVE  m.terminals[c] # {} /\ m.terminals[c] \subseteq rs \cup {r}
    <3>1. CASE c = b
      BY <3>1, <1>1, <1>3, <1>6 DEF Owned
    <3>2. CASE c # b
      BY <3>2, <1>1, <1>3, <1>6 DEF Owned
    <3> QED  BY <3>1, <3>2
  <2> QED  BY <2>1 DEF Owned
<1> QED  BY <1>1, <1>4, <1>7, <1>8, <1>9, <1>10, <1>11 DEF Network

LEMMA StoppedKeeps ==
    ASSUME NEW n, NEW rs, Network(n, rs), NEW m, Stopped(n, m)
    PROVE  Network(m, rs)
<1>1. /\ WellFormed(n) /\ Wired(n) /\ rs \subseteq RuleBase
      /\ Heads(n) /\ Placed(n, rs) /\ Owned(n, rs)
  BY DEF Network
<1>2. WellFormed(m) /\ Wired(m) /\ Grows(n, m)
  BY DEF Stopped
<1>3. /\ m.terminals = n.terminals /\ DOMAIN n.terminals \subseteq BetasOf(n)
      /\ BetasOf(n) \subseteq BetasOf(m) /\ BetasOf(n) \subseteq IdsOf(n)
      /\ \A c \in BetasOf(n) : m.consequent[c] = n.consequent[c]
      /\ \A c \in BetasOf(m) \ BetasOf(n) : m.consequent[c] = {}
  BY <1>1, <1>2 DEF Grows, WellFormed, Typed, Numbered
<1>4. Heads(m) /\ Placed(m, rs) /\ Owned(m, rs)
  <2>1. Heads(m)
    BY <1>1, <1>3 DEF Heads
  <2>2. Placed(m, rs)
    BY <1>1, <1>3 DEF Placed
  <2> QED  BY <2>1, <2>2, <1>1, <1>3 DEF Owned
<1>5. ASSUME NoCollision
      PROVE  Meaningful(m) /\ Bodies(m)
  <2>1. Meaningful(n) /\ Bodies(n) /\ Meaningful(m)
    BY <1>5 DEF Network, Stopped
  <2>2. ASSUME NEW c \in DOMAIN n.terminals
        PROVE  Joins(m, c) = Joins(n, c)
    <3>1. c \in 0 .. n.next - 1
      BY <1>3 DEF IdsOf
    <3> QED  BY <3>1, <1>1, <1>2, JoinsKept
  <2> QED  BY <2>1, <2>2, <1>3 DEF Bodies
<1>6. ASSUME NoCollision, NoRepeats
      PROVE  Apart(m)
  BY <1>6 DEF Network, Stopped
<1> QED  BY <1>1, <1>2, <1>4, <1>5, <1>6 DEF Network

LEMMA EmptyIs ==
    Network(EmptyNet, {})
<1> DEFINE n == EmptyNet
<1>1. /\ DOMAIN n = Fields /\ n.next = 1 /\ n.nodes = <<>> /\ n.patternOf = <<>>
      /\ n.parents = <<>> /\ n.varsOf = <<>> /\ n.common = <<>> /\ n.feeds = <<>>
      /\ n.consequent = <<>> /\ n.heads = <<>> /\ n.exists = <<>> /\ n.terminals = <<>>
  BY DEF EmptyNet, Fields
<1> HIDE DEF n
<1>2. DOMAIN <<>> = {} /\ \A X : <<>> \in [{} -> X]
  OBVIOUS
<1>3. AlphasOf(n) = {} /\ BetasOf(n) = {} /\ IdsOf(n) = {}
  BY <1>1, <1>2 DEF AlphasOf, BetasOf, IdsOf
<1>4. Numbered(n)
  BY <1>1, <1>3 DEF Numbered
<1>5. Joined(n) /\ Memories(n) /\ Filed(n) /\ OneEach(n)
  BY <1>1, <1>2, <1>3 DEF Joined, Memories, Filed, OneEach, InUse
<1>6. Typed(n)
  BY <1>1, <1>2, <1>3 DEF Typed
<1>7. WellFormed(n)
  BY <1>1, <1>4, <1>5, <1>6 DEF WellFormed
<1>8. Wired(n) /\ Apart(n) /\ Heads(n)
  BY <1>3 DEF Wired, Apart, Heads
<1>9. Meaningful(n) /\ Bodies(n) /\ Placed(n, {}) /\ Owned(n, {})
  BY <1>1, <1>2 DEF Meaningful, Bodies, Placed, Owned
<1>10. Network(n, {})
  BY <1>7, <1>8, <1>9 DEF Network
<1> QED  BY <1>10 DEF n

LEMMA AddKeeps ==
    ASSUME Network(net, rules), NEW r \in RuleBase, AddRule(r)
    PROVE  /\ Network(net', rules')
           /\ Stopped(net, net') \/ \E g, b : Compiled(net, net', r, g, b)
<1> DEFINE built == BuildNetwork(net, r)
<1>1. WellFormed(net) /\ Wired(net)
  BY DEF Network
<1>2. net' = built.net /\ rules' = IF built.raised THEN rules ELSE rules \cup {r}
  BY DEF AddRule
<1>3. \/ built.raised = TRUE /\ Stopped(net, built.net)
      \/ built.raised = FALSE /\ \E g, b : Compiled(net, built.net, r, g, b)
  BY <1>1, BuildIs
<1> HIDE DEF built
<1>4. CASE built.raised = TRUE /\ Stopped(net, built.net)
  BY <1>2, <1>4, StoppedKeeps
<1>5. CASE built.raised = FALSE /\ \E g, b : Compiled(net, built.net, r, g, b)
  BY <1>2, <1>5, CompiledKeeps
<1> QED  BY <1>3, <1>4, <1>5

LEMMA NetworkInvariant == Spec => []Network(net, rules)
<1>1. Init => Network(net, rules)
  BY EmptyIs DEF Init
<1>2. ASSUME Network(net, rules), [Next]_vars
      PROVE  Network(net, rules)'
  <2>1. CASE \E r \in RuleBase \ rules : AddRule(r)
    BY <2>1, <1>2, AddKeeps
  <2>2. CASE Clear
    BY <2>2, EmptyIs DEF Clear
  <2>3. CASE UNCHANGED vars
    BY <2>3, <1>2 DEF vars
  <2> QED  BY <1>2, <2>1, <2>2, <2>3 DEF Next
<1> QED  BY <1>1, <1>2, PTL DEF Spec

(***************************************************************************)
(* The theorems.                                                           *)
(***************************************************************************)
\* The network is a graph over the nodes created so far, each joining two that
\* are older, and what the dictionary nodes and the memories lead to exists:
\* create_alpha_node, attach_beta_nodes, BetaNode.__init__.
THEOREM GraphOfNodes == Spec => []TypeOK
<1>1. ASSUME Network(net, rules)
      PROVE  TypeOK
  <2>1. WellFormed(net) /\ rules \subseteq RuleBase
    BY <1>1 DEF Network
  <2>2. AlphaIds \cup BetaIds = Ids /\ AlphaIds \cap BetaIds = {}
    BY <2>1 DEF WellFormed, Numbered, AlphaIds, BetaIds, Ids, AlphasOf, BetasOf, IdsOf
  <2>3. \A k \in DOMAIN net.nodes : net.nodes[k] \in Ids
    BY <2>1 DEF WellFormed, Filed, Ids, IdsOf
  <2>4. ASSUME NEW b \in BetaIds
        PROVE  net.parents[b] \in (0 .. b - 1) \X (1 .. b - 1)
    <3>1. /\ net.parents[b] = <<net.parents[b][1], net.parents[b][2]>>
          /\ net.parents[b][1] \in 0 .. b - 1 /\ net.parents[b][2] \in 1 .. b - 1
      BY <2>1 DEF WellFormed, Joined, BetaIds, BetasOf
    <3> QED  BY <3>1
  <2>5. \A b \in BetaIds : net.common[b] \subseteq Var
    BY <2>1 DEF WellFormed, Typed, BetaIds, BetasOf
  <2>6. \A i \in Ids : net.feeds[i] \in Seq([node : BetaIds, side : {"left", "right"}])
    BY <2>1 DEF WellFormed, Memories, BetaIds, BetasOf, Ids, IdsOf
  <2> QED  BY <2>1, <2>2, <2>3, <2>4, <2>5, <2>6 DEF TypeOK
<1> QED  BY <1>1, NetworkInvariant, PTL

\* The joins over a pattern are fed by one alpha node, whichever rules bring the
\* pattern back: the first pass of build_network looks it up.
THEOREM PatternsSingle == Spec => []OneAlphaPerPattern
<1>1. ASSUME Network(net, rules)
      PROVE  OneAlphaPerPattern
  BY <1>1 DEF Network, WellFormed, OneEach, InUse, OneAlphaPerPattern, AlphaIds, AlphasOf
<1> QED  BY <1>1, NetworkInvariant, PTL

\* The rule that build_network adds leaves the terminal nodes of the rules
\* before it in place, over the same parents, concluding what they concluded.
THEOREM EarlierRulesStay == Spec => TerminalsStable
<1> DEFINE Stable == \A b \in DOMAIN net.terminals : rules \subseteq rules' =>
                        /\ b \in DOMAIN net'.terminals
                        /\ net'.parents[b] = net.parents[b]
                        /\ net.consequent[b] \subseteq net'.consequent[b]
<1>1. ASSUME Network(net, rules), [Next]_vars, NEW b \in DOMAIN net.terminals,
             rules \subseteq rules'
      PROVE  /\ b \in DOMAIN net'.terminals
             /\ net'.parents[b] = net.parents[b]
             /\ net.consequent[b] \subseteq net'.consequent[b]
  <2>1. WellFormed(net) /\ Owned(net, rules) /\ b \in BetasOf(net)
    BY <1>1 DEF Network, WellFormed, Typed
  <2>2. CASE \E r \in RuleBase \ rules : AddRule(r)
    <3>1. PICK r \in RuleBase : AddRule(r)
      BY <2>2
    <3>2. CASE Stopped(net, net')
      BY <3>2, <2>1 DEF Stopped, Grows
    <3>3. CASE \E g, c : Compiled(net, net', r, g, c)
      <4>1. PICK g, c : Compiled(net, net', r, g, c)
        BY <3>3
      <4>2. /\ g.terminals = net.terminals /\ g.parents[b] = net.parents[b]
            /\ g.consequent[b] = net.consequent[b] /\ b \in BetasOf(g)
        BY <4>1, <2>1 DEF Compiled, Anchored, Grows
      <4>3. /\ net'.parents = g.parents
            /\ DOMAIN net'.terminals = {c} \cup DOMAIN g.terminals
            /\ b = c => net'.consequent[b] = g.consequent[b] \cup r.head
            /\ b # c => net'.consequent[b] = g.consequent[b]
        BY <4>1, <4>2 DEF Compiled, Terminated, SameNodes
      <4> QED  BY <4>2, <4>3
    <3> QED  BY <3>1, <3>2, <3>3, <1>1, AddKeeps
  <2>3. CASE Clear
    <3>1. net.terminals[b] # {} /\ net.terminals[b] \subseteq rules /\ rules' = {}
      BY <2>1, <2>3 DEF Owned, Clear
    <3> QED  BY <3>1, <1>1
  <2>4. CASE UNCHANGED vars
    BY <2>4 DEF vars
  <2> QED  BY <1>1, <2>2, <2>3, <2>4 DEF Next
<1>2. Network(net, rules) /\ [Next]_vars => [Stable]_vars
  BY <1>1
<1>3. Spec => [][Stable]_vars
  BY <1>2, NetworkInvariant, PTL DEF Spec
<1> QED  BY <1>3 DEF TerminalsStable

\* Where no two lists of patterns with different members are taken for each
\* other by HashablePatternList.__eq__, the nodes that build_network reuses are
\* the right ones: a rule's terminal node joins the patterns of its body.
THEOREM BodyIsJoined == NoCollision => (Spec => []TerminalJoinsBody)
<1> SUFFICES ASSUME NoCollision
             PROVE  Spec => []TerminalJoinsBody
  OBVIOUS
<1>1. ASSUME Network(net, rules)
      PROVE  TerminalJoinsBody
  <2>1. Placed(net, rules) /\ Bodies(net)
    BY <1>1 DEF Network
  <2>2. ASSUME NEW r \in rules
        PROVE  \E b \in DOMAIN net.terminals :
                  /\ r \in net.terminals[b] /\ r.head \subseteq net.consequent[b]
                  /\ Joins(net, b) = ToSet(r.body)
    BY <2>1 DEF Placed, Bodies
  <2> QED  BY <2>2 DEF TerminalJoinsBody, Joins
<1> QED  BY <1>1, NetworkInvariant, PTL

\* ... and a terminal node concludes only what rules with its patterns as their
\* body conclude, though it is shared by them.
THEOREM OwnConclusions == NoCollision => (Spec => []NoForeignConsequent)
<1> SUFFICES ASSUME NoCollision
             PROVE  Spec => []NoForeignConsequent
  OBVIOUS
<1>1. ASSUME Network(net, rules)
      PROVE  NoForeignConsequent
  <2>1. Heads(net) /\ Bodies(net) /\ DOMAIN net.terminals \subseteq BetasOf(net)
    BY <1>1 DEF Network, WellFormed, Typed
  <2>2. ASSUME NEW b \in DOMAIN net.terminals, NEW h \in net.consequent[b]
        PROVE  \E r \in net.terminals[b] : h \in r.head /\ ToSet(r.body) = Joins(net, b)
    BY <2>1 DEF Heads, Bodies
  <2> QED  BY <2>2 DEF NoForeignConsequent, Joins
<1> QED  BY <1>1, NetworkInvariant, PTL

\* If besides no body has a pattern twice, update_descendent_memory connects
\* both inputs of every join: the test that a node feeds a successor only once
\* never finds the join's other input.
THEOREM InputsConnected ==
    NoCollision /\ NoRepeats => (Spec => []MemoriesFedByParents)
<1> SUFFICES ASSUME NoCollision, NoRepeats
             PROVE  Spec => []MemoriesFedByParents
  OBVIOUS
<1>1. ASSUME Network(net, rules)
      PROVE  MemoriesFedByParents
  <2>1. Wired(net) /\ Apart(net)
    BY <1>1 DEF Network
  <2>2. ASSUME NEW i \in Ids, NEW b \in BetaIds
        PROVE  /\ Cardinality(Feeding(net, i, b, "left")) =
                      IF net.parents[b][1] = i THEN 1 ELSE 0
               /\ Cardinality(Feeding(net, i, b, "right")) =
                      IF net.parents[b][2] = i THEN 1 ELSE 0
    <3>1. net.parents[b][1] # net.parents[b][2]
      BY <2>1 DEF Apart, BetaIds, BetasOf
    <3>2. /\ FedOnce(net, i, b, "left", net.parents[b][1] = i)
          /\ FedOnce(net, i, b, "right", net.parents[b][2] = i /\ net.parents[b][1] # i)
      BY <2>1 DEF Wired, Ids, IdsOf, BetaIds, BetasOf
    <3> QED  BY <3>1, <3>2 DEF FedOnce
  <2> QED  BY <2>2 DEF MemoriesFedByParents, Feeding
<1> QED  BY <1>1, NetworkInvariant, PTL

\* Patterns that each have a term of their own, such as a predicate, leave no
\* lists to be confused.
LEMMA OwnTerms ==
    ASSUME \A p \in BodyPatterns : \E j \in Place :
              \A q \in BodyPatterns, k \in Place : q[k] = p[j] => q = p
    PROVE  NoCollision
<1>1. ASSUME NEW ps \in Lists, NEW qs \in Lists, Key(ps) = Key(qs)
      PROVE  PatsOf(ps) \subseteq PatsOf(qs)
  <2>1. TermsIn(ps) = TermsIn(qs)
    <3>1. Key(ps)[2] = Key(qs)[2]
      BY <1>1
    <3>2. DOMAIN Key(ps)[2] = TermsIn(ps) /\ DOMAIN Key(qs)[2] = TermsIn(qs)
      BY DEF Key
    <3> QED  BY <3>1, <3>2
  <2>2. ASSUME NEW p \in PatsOf(ps)
        PROVE  p \in PatsOf(qs)
    <3>1. PICK i \in DOMAIN ps : p = ps[i] /\ p # <<>>
      BY DEF PatsOf, ToSet
    <3>2. p \in BodyPatterns
      BY <3>1, ElementOfSeq DEF Lists
    <3>3. PICK j \in Place : \A q \in BodyPatterns, k \in Place : q[k] = p[j] => q = p
      BY <3>2
    <3>4. p[j] \in TermsIn(qs)
      <4> DEFINE terms(l) == IF ps[l] = <<>> THEN {} ELSE {ps[l][x] : x \in Place}
      <4>1. p[j] \in terms(i)
        BY <3>1
      <4>2. terms(i) \subseteq UNION {terms(l) : l \in DOMAIN ps}
        OBVIOUS
      <4>3. TermsIn(ps) = UNION {terms(l) : l \in DOMAIN ps}
        BY DEF TermsIn
      <4> HIDE DEF terms
      <4> QED  BY <2>1, <4>1, <4>2, <4>3
    <3>5. PICK a \in DOMAIN qs, k \in Place : qs[a] # <<>> /\ qs[a][k] = p[j]
      BY <3>4 DEF TermsIn
    <3>6. qs[a] \in BodyPatterns
      BY <3>5, ElementOfSeq DEF Lists
    <3>7. qs[a] = p
      BY <3>3, <3>5, <3>6
    <3> QED  BY <3>5, <3>7 DEF PatsOf, ToSet
  <2> QED  BY <2>2
<1> QED  BY <1>1 DEF NoCollision
==============================================================================
