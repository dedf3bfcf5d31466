---------------------------- MODULE ShardsProofs ----------------------------
(***************************************************************************)
(* Placement and the sweep, for any cluster, any hash and any sequence of  *)
(* agreed live sets.  Then Routing: which actor a command comes to and     *)
(* which actors a sweep stops, for any shard types, names and commands.    *)
(*                                                                         *)
(* For Routing, RouteInv says that a name stands for the first type of     *)
(* Startup that bears it, that what can leave a node has its name there or *)
(* was refused, and that a shard actor stands at the address it was built  *)
(* for.  SweepInv adds that every path is under an address or in the tree  *)
(* of the application, that a sweep knows only shards that have commands,  *)
(* and that a path has one actor.                                          *)
(***************************************************************************)
EXTENDS Shards, Routing, FiniteSetTheorems, WellFoundedInduction, TLAPS

----------------------------------------------------------------------------
(* Rendezvous hashing *)

\* A non-empty set of naturals has a least element.
LEMMA LeastNat ==
  ASSUME NEW T \in SUBSET Nat, T # {}
  PROVE  \E x \in T : \A y \in T : x =< y
<1>1. PICK x \in T : \A y \in T : ~ (<<y, x>> \in OpToRel(<, Nat))
  BY NatLessThanWellFounded, WFMin, Zenon
<1>2. x \in T /\ \A y \in T : ~ (y < x)
  BY <1>1, Zenon DEF OpToRel
<1>3. \A y \in T : x \in Nat /\ y \in Nat
  OBVIOUS
<1>4. \A y \in T : x =< y
  BY <1>2, <1>3
<1> QED
  BY <1>2, <1>4

\* Scores and ids are numbers that u64::MAX bounds.
LEMMA ScoreType ==
  ASSUME NEW shard \in Shard, NEW n \in Node
  PROVE  /\ n \in Nat /\ MaxId - n \in Nat
         /\ Score[<<shard, n>>] \in Nat /\ MaxId - Score[<<shard, n>>] \in Nat
<1>1. n \in 0..MaxId /\ Score[<<shard, n>>] \in 0..MaxId /\ MaxId \in Nat
  BY PlacementAssumption
<1>2. \A x \in 0..MaxId : x \in Nat /\ MaxId - x \in Nat
  BY <1>1
<1> QED
  BY <1>1, <1>2

\* Some member beats all the others: max_by_key of a non-empty set is Some.
LEMMA SomeoneWins ==
  ASSUME NEW members \in SUBSET Node, members # {}, NEW shard \in Shard
  PROVE  \E n \in members : Wins(n, members, shard)
<1> DEFINE Gap(n) == MaxId - Score[<<shard, n>>]
<1>0. MaxId \in Nat
  BY PlacementAssumption
<1>1. PICK b \in members : \A m \in members : Gap(b) =< Gap(m)
  <2> DEFINE T == {Gap(n) : n \in members}
  <2>1. T \in SUBSET Nat /\ T # {}
    BY ScoreType, Zenon
  <2>2. \E x \in T : \A y \in T : x =< y
    <3> HIDE DEF T
    <3> QED
      BY <2>1, LeastNat
  <2>3. PICK b \in members : \A y \in T : Gap(b) =< y
    BY <2>2
  <2>4. \A m \in members : Gap(m) \in T
    OBVIOUS
  <2> QED
    BY <2>3, <2>4, Zenon
<1>2. \A m \in members : Score[<<shard, b>>] >= Score[<<shard, m>>]
  BY <1>0, <1>1, ScoreType
<1> DEFINE Equals == {m \in members : Score[<<shard, m>>] = Score[<<shard, b>>]}
<1>3. PICK n \in Equals : \A m \in Equals : MaxId - n =< MaxId - m
  <2> DEFINE T == {MaxId - m : m \in Equals}
  <2>1. T \in SUBSET Nat /\ T # {}
    BY ScoreType, Zenon
  <2>2. \E x \in T : \A y \in T : x =< y
    <3> HIDE DEF T
    <3> QED
      BY <2>1, LeastNat
  <2>3. PICK n \in Equals : \A y \in T : MaxId - n =< y
    BY <2>2
  <2>4. \A m \in Equals : MaxId - m \in T
    OBVIOUS
  <2> QED
    BY <2>3, <2>4, Zenon
<1>4. \A m \in Equals : n >= m
  BY <1>0, <1>3, ScoreType
<1>5. \A m \in members : Beats(n, m, shard)
  BY <1>2, <1>3, <1>4, ScoreType DEF Beats
<1> QED
  BY <1>3, <1>5 DEF Wins

\* owner_of returns a member that beats all the others.
LEMMA OwnerWins ==
  ASSUME NEW members \in SUBSET Node, members # {}, NEW shard \in Shard
  PROVE  Wins(OwnerOf(members, shard), members, shard)
<1>1. OwnerOf(members, shard) = CHOOSE n \in members : Wins(n, members, shard)
  BY DEF OwnerOf
<1> QED
  BY <1>1, SomeoneWins

\* Two members never beat each other.
LEMMA BeatsOnce ==
  ASSUME NEW shard \in Shard, NEW n \in Node, NEW m \in Node,
         Beats(n, m, shard), Beats(m, n, shard)
  PROVE  n = m
BY ScoreType DEF Beats

\* Losing or gaining members moves only what was on those that left and what
\* goes to those that came (owner_of).
THEOREM RendezvousMoves ==
  ASSUME NEW before \in SUBSET Node, before # {},
         NEW after \in SUBSET Node, after # {}, NEW shard \in Shard,
         OwnerOf(before, shard) # OwnerOf(after, shard)
  PROVE  \/ OwnerOf(before, shard) \notin after
         \/ OwnerOf(after, shard) \notin before
<1> DEFINE old == OwnerOf(before, shard)
           new == OwnerOf(after, shard)
<1>1. Wins(old, before, shard) /\ Wins(new, after, shard)
  BY OwnerWins
<1> HIDE DEF old, new
<1>2. old \in after /\ new \in before => old = new
  BY <1>1, BeatsOnce DEF Wins
<1> QED
  BY <1>2 DEF old, new

----------------------------------------------------------------------------
(* The cluster *)

\* Agreeing on one more state keeps what was agreed and what was applied.
LEMMA AgreeTyped ==
  ASSUME TypeOK, NEW state \in State, Agree(state)
  PROVE  TypeOK'
<1>1. agreed' \in Seq(State) /\ agreed' # << >> /\ Len(agreed') = Len(agreed) + 1
  BY DEF Agree, TypeOK
<1>2. Len(agreed) \in Nat
  BY DEF TypeOK
<1> QED
  BY <1>1, <1>2 DEF Agree, TypeOK, node

\* The state that was agreed on last is one.
LEMMA LastTyped ==
  ASSUME TypeOK
  PROVE  Last \in State
<1>1. Len(agreed) \in 1..Len(agreed)
  BY DEF TypeOK
<1> QED
  BY <1>1 DEF TypeOK, Last

\* Every variable keeps its type.
LEMMA TypeNext == TypeOK /\ [Next]_vars => TypeOK'
<1> SUFFICES ASSUME TypeOK, [Next]_vars PROVE TypeOK'
  OBVIOUS
<1>1. ASSUME NEW n \in Node, NEW s \in SUBSET Node, Propose(n, s) PROVE TypeOK'
  <2>1. [Last EXCEPT !.live = s] \in State
    BY LastTyped DEF State
  <2> QED
    BY <1>1, <2>1, AgreeTyped DEF Propose
<1>2. ASSUME NEW s \in SUBSET Node, Reconfigure(s) PROVE TypeOK'
  <2>1. [Last EXCEPT !.voters = s] \in State
    BY LastTyped DEF State
  <2> QED
    BY <1>2, <2>1, AgreeTyped DEF Reconfigure
<1>3. ASSUME NEW n \in Node, NEW k \in 1..MaxAgreed, Apply(n, k) PROVE TypeOK'
  <2>1. store[n] \in 1..Len(agreed) /\ Len(agreed) \in Nat
    BY DEF TypeOK
  <2>2. k \in 1..Len(agreed)
    BY <1>3, <2>1 DEF Apply
  <2> QED
    BY <1>3, <2>2 DEF Apply, TypeOK, node
<1>4. ASSUME NEW n \in Node, SetTable(n) PROVE TypeOK'
  <2>1. agreed[store[n]] \in State
    BY DEF TypeOK
  <2>2. Usable(agreed[store[n]]) \in SUBSET Node
    BY <2>1 DEF Usable, State
  <2> QED
    BY <1>4, <2>2 DEF SetTable, TypeOK
<1>5. ASSUME NEW n \in Node, Announce(n) PROVE TypeOK'
  BY <1>5 DEF Announce, TypeOK
<1>6. ASSUME NEW n \in Node, SweepBegin(n) PROVE TypeOK'
  BY <1>6 DEF SweepBegin, TypeOK
<1>7. ASSUME NEW n \in Node, SweepShard(n) PROVE TypeOK'
  BY <1>7 DEF SweepShard, TypeOK
<1>8. ASSUME NEW n \in Node, Restart(n) PROVE TypeOK'
  BY <1>8 DEF Restart, TypeOK
<1>9. ASSUME NEW n \in Sender, NEW shard \in Shard, Send(n, shard) PROVE TypeOK'
  <2>1. n \in Node /\ table[n] \in SUBSET Node /\ table[n] # {}
    BY <1>9, ProcessAssumption DEF Send, OwnerOf, TypeOK
  <2>2. OwnerOf(table[n], shard) \in Node
    BY <2>1, OwnerWins DEF Wins
  <2>3. [to |-> OwnerOf(table[n], shard), shard |-> shard] \in Envelope
    BY <2>2 DEF Envelope
  <2> QED
    BY <1>9, <2>3 DEF Send, TypeOK, node
<1>10. ASSUME NEW n \in Node, NEW shard \in Shard, Finish(n, shard) PROVE TypeOK'
  BY <1>10 DEF Finish, TypeOK
<1>11. ASSUME NEW c \in net, Lose(c) PROVE TypeOK'
  BY <1>11 DEF Lose, TypeOK, node
<1>12. ASSUME NEW c \in net, Deliver(c) PROVE TypeOK'
  <2>1. c.to \in Node /\ c.shard \in Shard
    BY DEF TypeOK, Envelope
  <2> QED
    BY <1>12, <2>1 DEF Deliver, TypeOK
<1>13. CASE UNCHANGED vars
  BY <1>13 DEF vars, TypeOK
<1> QED
  BY <1>1, <1>2, <1>3, <1>4, <1>5, <1>6, <1>7, <1>8, <1>9, <1>10, <1>11,
     <1>12, <1>13, ProcessAssumption DEF Next

\* Every variable of the cluster keeps its type.
THEOREM TypeCorrect == Spec => []TypeOK
<1>1. Init => TypeOK
  BY DEF Init, TypeOK, State
<1> QED
  BY <1>1, TypeNext, PTL DEF Spec

\* Every step keeps a shard that moved away within reach of the sweep.
LEMMA ReleasedNext == TypeOK /\ Released /\ [Next]_vars => Released'
<1> SUFFICES ASSUME TypeOK, Released, [Next]_vars PROVE Released'
  OBVIOUS
<1> USE DEF Released, TypeOK
<1>1. ASSUME NEW n \in Node, NEW s \in SUBSET Node, Propose(n, s) PROVE Released'
  BY <1>1 DEF Propose, Agree, node
<1>2. ASSUME NEW s \in SUBSET Node, Reconfigure(s) PROVE Released'
  BY <1>2 DEF Reconfigure, Agree, node
<1>3. ASSUME NEW n \in Node, NEW k \in 1..MaxAgreed, Apply(n, k) PROVE Released'
  BY <1>3 DEF Apply, node
<1>4. ASSUME NEW n \in Node, SetTable(n) PROVE Released'
  BY <1>4 DEF SetTable
<1>5. ASSUME NEW n \in Node, Announce(n) PROVE Released'
  BY <1>5 DEF Announce
<1>6. ASSUME NEW n \in Node, SweepBegin(n) PROVE Released'
  BY <1>6 DEF SweepBegin
<1>7. ASSUME NEW n \in Node, SweepShard(n) PROVE Released'
  BY <1>7 DEF SweepShard
<1>8. ASSUME NEW n \in Node, Restart(n) PROVE Released'
  BY <1>8 DEF Restart
<1>9. ASSUME NEW n \in Sender, NEW shard \in Shard, Send(n, shard) PROVE Released'
  BY <1>9 DEF Send, node
<1>10. ASSUME NEW n \in Node, NEW shard \in Shard, Finish(n, shard) PROVE Released'
  BY <1>10 DEF Finish
<1>11. ASSUME NEW c \in net, Lose(c) PROVE Released'
  BY <1>11 DEF Lose, node
<1>12. ASSUME NEW c \in net, Deliver(c) PROVE Released'
  <2>1. c.to \in Node /\ c.shard \in Shard
    BY DEF Envelope
  <2> QED
    BY <1>12, <2>1 DEF Deliver
<1>13. CASE UNCHANGED vars
  BY <1>13 DEF vars
<1> QED
  BY <1>1, <1>2, <1>3, <1>4, <1>5, <1>6, <1>7, <1>8, <1>9, <1>10, <1>11,
     <1>12, <1>13, ProcessAssumption DEF Next

\* No shard that hashed away escapes the sweep, except by a command that came
\* after the registry was last read (set_live, release_vacated_shards).
THEOREM VacatedReleased == Spec => []Released
<1>1. Init => Released
  BY DEF Init, Released
<1> QED
  BY <1>1, ReleasedNext, TypeCorrect, PTL DEF Spec

\* A shard changes owner only because the old owner left or the new one joined,
\* whatever live sets are agreed on (owner_of, set_members).
THEOREM MovesAreMinimal == Spec => MinimalMoves
<1> DEFINE Step == \A n \in Node, shard \in Shard :
              LET old == OwnerOf(table[n], shard)
                  new == OwnerOf(table[n]', shard)
              IN  table[n] # {} /\ table[n]' # {} /\ old # new
                    => old \notin table[n]' \/ new \notin table[n]
<1>1. TypeOK /\ TypeOK' => Step
  BY RendezvousMoves, Zenon DEF TypeOK
<1>2. TypeOK /\ TypeOK' => [Step]_vars
  BY <1>1
<1> QED
  BY <1>2, TypeCorrect, PTL DEF MinimalMoves

----------------------------------------------------------------------------
(* Routing *)

(* The inductive invariant *)

RouteTypes ==
  /\ shards \in [Node -> [Range(TypeName) -> ShardType \cup {None}]]
  /\ wires \in [Node -> SUBSET ShardType] /\ refused \in [Node -> SUBSET ShardType]
  /\ live \in [Node -> SUBSET (ShardRow \cup AppRow)]
  /\ owner \in [Placements -> Node]
  /\ envelopes \subseteq [to : Node, type_name : Range(TypeName), cmd : Command]

\* A type stands under its own name.
NameInv ==
  \A n \in Node, name \in Range(TypeName) :
    shards[n][name] # None => TypeName[shards[n][name]] = name

EnvelopeInv == \A m \in envelopes : m.type_name = TypeName[TypeOf[m.cmd]]

\* The name of s has gone to another type on n.
Taken(n, s) == shards[n][TypeName[s]] \notin {None, s}

\* A row of a shard actor: it stands at the address it was built for, and what it
\* was sent last is for that address, as its type reads it.
Straight(n, r) ==
  /\ r \in ShardRow /\ r.entity \in Entities
  /\ r.path = AddressOf(r.entity) /\ r.type = r.entity.type
  /\ <<r.type, r.last>> \in DOMAIN Reads
  /\ Spelling[ContextOf(r.type, r.last).shard] = Spelling[r.entity.shard]
  /\ Spelling[ContextOf(r.type, r.last).entity] = Spelling[r.entity.entity]
  /\ TypeName[TypeOf[r.last]] = TypeName[r.type]
  /\ TypeOf[r.last] # r.type => Taken(n, TypeOf[r.last])

RowInv == \A n \in Node : \A r \in live[n] : r \in AppRow \/ Straight(n, r)

RouteInv == RouteTypes /\ NameInv /\ EnvelopeInv /\ RowInv

(* Ids *)

\* What a type reads out of a command that it can decode is an actor of that type.
LEMMA ReadsTyped ==
  ASSUME NEW s, NEW c, <<s, c>> \in DOMAIN Reads
  PROVE  s \in ShardType /\ ContextOf(s, c) \in Entities /\ ContextOf(s, c).type = s
<1>1. DOMAIN Reads \subseteq ShardType \X Command /\ Reads[<<s, c>>].type = <<s, c>>[1]
  BY RoutingAssumption, Zenon
<1>2. s \in ShardType
  BY <1>1
<1>3. Reads[<<s, c>>] \in Entities
  BY Zenon DEF Entities, Range
<1> QED
  BY <1>1, <1>2, <1>3 DEF ContextOf

\* Every type reads its own commands.
LEMMA NamedTyped ==
  ASSUME NEW c \in Command
  PROVE  /\ <<TypeOf[c], c>> \in DOMAIN Reads /\ TypeOf[c] \in ShardType
         /\ Named(c) \in Entities /\ Named(c).type = TypeOf[c]
<1>1. <<TypeOf[c], c>> \in DOMAIN Reads
  BY RoutingAssumption, Zenon
<1> QED
  BY <1>1, ReadsTyped, Zenon DEF Named

\* An entity has the ids of an address, and they are spelled as names.
LEMMA EntityTyped ==
  ASSUME NEW e \in Entities
  PROVE  /\ e \in Address /\ e.type \in ShardType /\ TypeName[e.type] \in Range(TypeName)
         /\ TypeName[e.type] \in Seq(STRING)
         /\ Spelling[e.shard] \in Seq(STRING) /\ Spelling[e.entity] \in Seq(STRING)
<1>1. PICK p \in DOMAIN Reads : e = Reads[p]
  BY Zenon DEF Entities, Range
<1>2. e \in Address
  BY <1>1, RoutingAssumption, Zenon
<1>3. e.type \in ShardType /\ e.shard \in Id /\ e.entity \in Id
  BY <1>2 DEF Address
<1>4. TypeName \in [ShardType -> Seq(STRING)] /\ Spelling \in [Id -> Seq(STRING)]
  BY RoutingAssumption, Zenon
<1>5. TypeName[e.type] \in Range(TypeName)
  BY <1>3, <1>4, Zenon DEF Range
<1> QED
  BY <1>2, <1>3, <1>4, <1>5, Zenon

(* Registration *)

\* register gives a name to a type that bears it, and takes none away.
LEMMA RegisterKeeps ==
  ASSUME RouteTypes, NameInv, NEW n \in Node, NEW s \in ShardType, Register(n, s)
  PROVE  /\ NameInv'
         /\ shards' \in [Node -> [Range(TypeName) -> ShardType \cup {None}]]
         /\ refused' \in [Node -> SUBSET ShardType]
         /\ \A k \in Node, name \in Range(TypeName) :
              shards[k][name] # None => shards'[k][name] = shards[k][name]
<1>0. None \notin ShardType /\ TypeName[s] \in Range(TypeName)
  <2>1. TypeName \in [ShardType -> Seq(STRING)] /\ None \notin ShardType
    BY RoutingAssumption, Zenon
  <2> QED
    BY <2>1, Zenon DEF Range
<1>00. /\ shards \in [Node -> [Range(TypeName) -> ShardType \cup {None}]]
       /\ refused \in [Node -> SUBSET ShardType]
  BY Zenon DEF RouteTypes
<1>1. refused' \in [Node -> SUBSET ShardType]
  <2>1. refused' = refused \/ refused' = [refused EXCEPT ![n] = @ \cup {s}]
    BY Zenon DEF Register
  <2> QED
    BY <1>00, <2>1
<1>2. /\ shards' \in [Node -> [Range(TypeName) -> ShardType \cup {None}]]
      /\ \A k \in Node, name \in Range(TypeName) :
           shards'[k][name] = IF k = n /\ name = TypeName[s] /\ shards[k][name] = None THEN s
                              ELSE shards[k][name]
  <2>1. CASE shards[n][TypeName[s]] = None
    <3>1. shards' = [shards EXCEPT ![n] = [shards[n] EXCEPT ![TypeName[s]] = s]]
      BY <2>1, Zenon DEF Register
    <3>2. [shards[n] EXCEPT ![TypeName[s]] = s] \in [Range(TypeName) -> ShardType \cup {None}]
      BY <1>0, <1>00
    <3> QED
      BY <1>0, <1>00, <2>1, <3>1, <3>2
  <2>2. CASE shards[n][TypeName[s]] # None
    BY <1>00, <2>2, Zenon DEF Register
  <2> QED
    BY <2>1, <2>2, Zenon
<1>3. NameInv'
  <2> SUFFICES ASSUME NEW k \in Node, NEW name \in Range(TypeName), shards'[k][name] # None
               PROVE  TypeName[shards'[k][name]] = name
    BY Zenon DEF NameInv
  <2>1. shards'[k][name] = shards[k][name] \/ (shards'[k][name] = s /\ name = TypeName[s])
    BY <1>2, Zenon
  <2> QED
    BY <2>1, Zenon DEF NameInv
<1> QED
  BY <1>1, <1>2, <1>3, Zenon

(* Rows *)

\* An address names one shard and one entity of it, as they are spelled.
LEMMA AddressInjective ==
  ASSUME NEW c \in Entities, NEW d \in Entities, AddressOf(c) = AddressOf(d)
  PROVE  /\ TypeName[c.type] = TypeName[d.type]
         /\ Spelling[c.shard] = Spelling[d.shard] /\ Spelling[c.entity] = Spelling[d.entity]
BY DEF AddressOf, RegionOf, SYSTEM, SHARD

\* An address is a path.
LEMMA AddressType ==
  ASSUME NEW c \in Entities
  PROVE  AddressOf(c) \in Seq(Segment)
<1>1. /\ TypeName[c.type] \in Seq(STRING)
      /\ Spelling[c.shard] \in Seq(STRING) /\ Spelling[c.entity] \in Seq(STRING)
  BY EntityTyped, Zenon
<1>2. SYSTEM \in Segment /\ SHARD \in Segment /\ Seq(STRING) \subseteq Segment
  BY Zenon DEF Segment
<1> QED
  BY <1>1, <1>2 DEF AddressOf, RegionOf

\* Rows are kept under paths.
LEMMA RowPath ==
  ASSUME RouteTypes, NEW n \in Node, NEW r \in live[n]
  PROVE  r.path \in Seq(Segment)
<1>1. r \in ShardRow \cup AppRow
  BY Zenon DEF RouteTypes
<1> QED
  BY <1>1 DEF ShardRow, AppRow

\* What a command meets at its address, found or built, is the actor it is for.
LEMMA ReachedStraight ==
  ASSUME RouteTypes, RowInv, NEW n \in Node,
         NEW e \in Entities, NEW sent \in Command,
         <<e.type, sent>> \in DOMAIN Reads, e = ContextOf(e.type, sent),
         TypeName[TypeOf[sent]] = TypeName[e.type],
         TypeOf[sent] # e.type => Taken(n, TypeOf[sent]),
         NEW r \in Reached(n, e, sent)
  PROVE  r \in AppRow \/ Straight(n, r)
<1> DEFINE found == Resolve(n, AddressOf(e), e.type)
<1>0. None \notin ShardType /\ e.type \in ShardType /\ e \in Address
  BY RoutingAssumption, EntityTyped, Zenon
<1>1. CASE r \in live[n]
  BY <1>1, Zenon DEF RowInv
<1>2. CASE r \notin live[n] /\ found # {}
  <2>1. PICK q \in live[n] : q \in found /\ r = [q EXCEPT !.last = sent]
    BY <1>2, Zenon DEF Reached
  <2>2. q.path = AddressOf(e) /\ q.type = e.type
    BY <2>1, Zenon DEF Resolve, RowsAt
  <2>3. q \notin AppRow
    BY <1>0, <2>2 DEF AppRow
  <2>4. Straight(n, q)
    BY <2>3, Zenon DEF RowInv
  <2>5. q \in ShardRow /\ q.entity \in Entities
    BY <2>4, Zenon DEF Straight
  <2>6. Spelling[q.entity.shard] = Spelling[e.shard] /\ Spelling[q.entity.entity] = Spelling[e.entity]
    BY <2>2, <2>4, <2>5, AddressInjective, Zenon DEF Straight
  <2>7. /\ r \in ShardRow /\ r.path = q.path /\ r.type = q.type
        /\ r.entity = q.entity /\ r.last = sent
    BY <2>1, <2>5 DEF ShardRow
  <2> QED
    BY <2>2, <2>4, <2>6, <2>7, Zenon DEF Straight
<1>3. CASE r \notin live[n] /\ found = {}
  <2>1. r = Row(AddressOf(e), e.type, e, sent)
    BY <1>3, Zenon DEF Reached
  <2>2. /\ r \in ShardRow /\ r.path = AddressOf(e) /\ r.type = e.type
        /\ r.entity = e /\ r.last = sent
    BY <1>0, <2>1, AddressType DEF Row, ShardRow
  <2> QED
    BY <2>2, Zenon DEF Straight
<1> QED
  BY <1>1, <1>2, <1>3

\* A sound row stays sound while no name that is taken changes hands.
LEMMA StraightStays ==
  ASSUME NEW n \in Node, NEW r, Straight(n, r),
         \A name \in Range(TypeName) : shards[n][name] # None => shards'[n][name] = shards[n][name]
  PROVE  Straight(n, r)'
<1>1. TypeName[TypeOf[r.last]] \in Range(TypeName)
  BY EntityTyped, Zenon DEF Straight
<1>2. Taken(n, TypeOf[r.last]) => Taken(n, TypeOf[r.last])'
  BY <1>1, Zenon DEF Taken
<1> QED
  BY <1>2, Zenon DEF Straight

(* The steps *)

\* Every step keeps the invariant of the routes.
LEMMA RouteNext ==
  ASSUME RouteInv, [RoutingNext]_routingVars
  PROVE  RouteInv'
<1> USE DEF registered, placement
<1>0. None \notin ShardType /\ AppName \subseteq Seq(STRING)
  BY RoutingAssumption, Zenon
<1>00. RouteTypes /\ NameInv /\ EnvelopeInv /\ RowInv
  BY Zenon DEF RouteInv
<1>1. ASSUME NEW n \in Node, NEW s \in wires[n], Register(n, s) PROVE RouteInv'
  <2>1. UNCHANGED <<wires, live, owner, envelopes>> /\ s \in ShardType
    BY <1>00, <1>1, Zenon DEF Register, RouteTypes
  <2>2. /\ NameInv'
        /\ shards' \in [Node -> [Range(TypeName) -> ShardType \cup {None}]]
        /\ refused' \in [Node -> SUBSET ShardType]
        /\ \A k \in Node, name \in Range(TypeName) :
             shards[k][name] # None => shards'[k][name] = shards[k][name]
    BY <1>00, <1>1, <2>1, RegisterKeeps, Zenon
  <2>3. RouteTypes'
    BY <1>00, <2>1, <2>2, Zenon DEF RouteTypes
  <2>4. EnvelopeInv'
    BY <1>00, <2>1, Zenon DEF EnvelopeInv
  <2>5. RowInv'
    BY <1>00, <2>1, <2>2, StraightStays, Zenon DEF RowInv
  <2> QED
    BY <2>2, <2>3, <2>4, <2>5, Zenon DEF RouteInv
\* A step that leaves the names alone and whose rows are sound ...
<1>2. ASSUME UNCHANGED <<shards, refused>>, wires' \in [Node -> SUBSET ShardType],
             owner' \in [Placements -> Node],
             envelopes' \subseteq [to : Node, type_name : Range(TypeName), cmd : Command], EnvelopeInv',
             live' \in [Node -> SUBSET (ShardRow \cup AppRow)],
             \A n \in Node : \A r \in live'[n] : r \in AppRow \/ Straight(n, r)
      PROVE  RouteInv'
  <2>1. RouteTypes'
    BY <1>00, <1>2, Zenon DEF RouteTypes
  <2>2. UNCHANGED <<shards, refused>>
    BY <1>2, Zenon
  <2>3. NameInv'
    BY <1>00, <2>2, Zenon DEF NameInv
  <2>4. RowInv'
    <3>1. \A n \in Node, name \in Range(TypeName) :
            shards[n][name] # None => shards'[n][name] = shards[n][name]
      BY <2>2, Zenon
    <3> QED
      BY <1>2, <3>1, StraightStays, Zenon DEF RowInv
  <2> QED
    BY <1>2, <2>1, <2>3, <2>4, Zenon DEF RouteInv
\* ... and one that also takes only rows away.
<1>3. ASSUME UNCHANGED <<shards, refused>>, wires' \in [Node -> SUBSET ShardType],
             UNCHANGED envelopes, owner' \in [Placements -> Node],
             live' \in [Node -> SUBSET (ShardRow \cup AppRow)],
             \A n \in Node : \A r \in live'[n] : r \in live[n] \/ r \in AppRow
      PROVE  RouteInv'
  <2>1. EnvelopeInv'
    BY <1>00, <1>3, Zenon DEF EnvelopeInv
  <2>2. \A n \in Node : \A r \in live'[n] : r \in AppRow \/ Straight(n, r)
    BY <1>00, <1>3, Zenon DEF RowInv
  <2>3. envelopes' \subseteq [to : Node, type_name : Range(TypeName), cmd : Command]
    BY <1>00, <1>3, Zenon DEF RouteTypes
  <2> QED
    BY <1>2, <1>3, <2>1, <2>2, <2>3, Zenon
<1>a. wires \in [Node -> SUBSET ShardType]
  BY <1>00, Zenon DEF RouteTypes
<1>b. ASSUME NEW n \in Node, NEW i \in DOMAIN Startup[n], RecordWire(n, i) PROVE RouteInv'
  <2>1. /\ wires' = [wires EXCEPT ![n] = @ \cup {Startup[n][i]}]
        /\ UNCHANGED <<shards, refused, live, owner, envelopes>>
    BY <1>b, Zenon DEF RecordWire
  <2>2. Startup[n][i] \in ShardType
    <3>1. Startup[n] \in Seq(ShardType)
      BY RoutingAssumption, Zenon
    <3> QED
      BY <3>1
  <2>3. wires' \in [Node -> SUBSET ShardType]
    BY <1>a, <2>1, <2>2
  <2>4. owner' \in [Placements -> Node] /\ live' \in [Node -> SUBSET (ShardRow \cup AppRow)]
    BY <1>00, <2>1, Zenon DEF RouteTypes
  <2> QED
    BY <1>3, <2>1, <2>3, <2>4, Zenon
<1>4. ASSUME NEW n \in Node, NEW e \in Entities, NEW sent \in Command,
             <<e.type, sent>> \in DOMAIN Reads, e = ContextOf(e.type, sent),
             TypeName[TypeOf[sent]] = TypeName[e.type],
             TypeOf[sent] # e.type => Taken(n, TypeOf[sent]),
             live' = [live EXCEPT ![n] = Reached(n, e, sent)]
      PROVE  /\ live' \in [Node -> SUBSET (ShardRow \cup AppRow)]
             /\ \A k \in Node : \A r \in live'[k] : r \in AppRow \/ Straight(k, r)
  <2>1. \A r \in Reached(n, e, sent) : r \in AppRow \/ Straight(n, r)
    BY <1>00, <1>4, ReachedStraight, Zenon
  <2>2. live \in [Node -> SUBSET (ShardRow \cup AppRow)]
    BY <1>00, Zenon DEF RouteTypes
  <2>3. Reached(n, e, sent) \subseteq ShardRow \cup AppRow
    BY <2>1, Zenon DEF Straight
  <2>4. live' \in [Node -> SUBSET (ShardRow \cup AppRow)]
    BY <1>4, <2>2, <2>3
  <2>5. \A k \in Node : live'[k] = IF k = n THEN Reached(n, e, sent) ELSE live[k]
    BY <1>4, <2>2, Zenon
  <2>6. \A k \in Node : \A r \in live'[k] : r \in AppRow \/ Straight(k, r)
    BY <1>00, <2>1, <2>5, Zenon DEF RowInv
  <2> QED
    BY <2>4, <2>6
<1>5. ASSUME NEW n \in Node, NEW c \in Command, TellHere(n, c) PROVE RouteInv'
  <2>1. /\ live' = [live EXCEPT ![n] = Reached(n, Named(c), c)]
        /\ UNCHANGED <<shards, wires, refused, owner, envelopes>>
    BY <1>5, Zenon DEF TellHere
  <2>2. PICK e \in Entities : e = Named(c) /\ e.type = TypeOf[c]
    BY NamedTyped, Zenon
  <2>3. <<e.type, c>> \in DOMAIN Reads /\ e = ContextOf(e.type, c)
    BY <2>2, NamedTyped, Zenon DEF Named
  <2>4. /\ live' \in [Node -> SUBSET (ShardRow \cup AppRow)]
        /\ \A k \in Node : \A r \in live'[k] : r \in AppRow \/ Straight(k, r)
    BY <1>4, <2>1, <2>2, <2>3, Zenon
  <2>5. EnvelopeInv' /\ owner' \in [Placements -> Node] /\ wires' \in [Node -> SUBSET ShardType]
        /\ envelopes' \subseteq [to : Node, type_name : Range(TypeName), cmd : Command]
    BY <1>00, <2>1, Zenon DEF EnvelopeInv, RouteTypes
  <2> QED
    BY <1>2, <2>1, <2>4, <2>5, Zenon
<1>6. ASSUME NEW n \in Node, NEW c \in Command, TellAway(n, c) PROVE RouteInv'
  <2> DEFINE sent == [to |-> HostOf(c), type_name |-> TypeName[TypeOf[c]], cmd |-> c]
  <2>1. /\ envelopes' = envelopes \cup {sent}
        /\ UNCHANGED <<shards, wires, refused, owner, live>>
    BY <1>6, Zenon DEF TellAway
  <2>2. HostOf(c) \in Node
    <3>1. PlacedOf(Named(c)) \in Placements
      BY NamedTyped, Zenon DEF Placements
    <3> QED
      BY <1>00, <3>1, Zenon DEF HostOf, RouteTypes
  <2>3. TypeName[TypeOf[c]] \in Range(TypeName)
    BY NamedTyped, EntityTyped, Zenon
  <2>4. envelopes' \subseteq [to : Node, type_name : Range(TypeName), cmd : Command]
    BY <1>00, <2>1, <2>2, <2>3 DEF RouteTypes
  <2>5. \A m \in envelopes' : m \in envelopes \/ (m.type_name = TypeName[TypeOf[c]] /\ m.cmd = c)
    BY <2>1
  <2>6. EnvelopeInv'
    BY <1>00, <2>5, Zenon DEF EnvelopeInv
  <2>7. /\ \A k \in Node : \A r \in live'[k] : r \in AppRow \/ Straight(k, r)
        /\ owner' \in [Placements -> Node] /\ wires' \in [Node -> SUBSET ShardType]
        /\ live' \in [Node -> SUBSET (ShardRow \cup AppRow)]
    BY <1>00, <2>1, Zenon DEF RowInv, RouteTypes
  <2> QED
    BY <1>2, <2>1, <2>4, <2>6, <2>7, Zenon
<1>7. ASSUME NEW m \in envelopes, Receive(m) PROVE RouteInv'
  <2> DEFINE s == shards[m.to][m.type_name]
  <2>1. /\ envelopes' = envelopes \ {m}
        /\ live' = IF <<s, m.cmd>> \in DOMAIN Reads
                   THEN [live EXCEPT ![m.to] = Reached(m.to, ContextOf(s, m.cmd), m.cmd)]
                   ELSE live
        /\ UNCHANGED <<shards, wires, refused, owner>>
    BY <1>7, Zenon DEF Receive
  <2>2. m.to \in Node /\ m.type_name \in Range(TypeName) /\ m.cmd \in Command
    BY <1>00 DEF RouteTypes
  <2>3. EnvelopeInv' /\ owner' \in [Placements -> Node] /\ wires' \in [Node -> SUBSET ShardType]
        /\ envelopes' \subseteq [to : Node, type_name : Range(TypeName), cmd : Command]
    BY <1>00, <2>1, Zenon DEF EnvelopeInv, RouteTypes
  <2>4. CASE <<s, m.cmd>> \in DOMAIN Reads
    <3>1. PICK e \in Entities : e = ContextOf(s, m.cmd) /\ e.type = s /\ s \in ShardType
      BY <2>4, ReadsTyped, Zenon
    <3>2. TypeName[s] = m.type_name /\ m.type_name = TypeName[TypeOf[m.cmd]]
      BY <1>0, <1>00, <2>2, <3>1, Zenon DEF NameInv, EnvelopeInv
    <3>3. TypeOf[m.cmd] # s => Taken(m.to, TypeOf[m.cmd])
      BY <1>0, <3>1, <3>2, Zenon DEF Taken
    <3>4. /\ <<e.type, m.cmd>> \in DOMAIN Reads /\ e = ContextOf(e.type, m.cmd)
          /\ TypeName[TypeOf[m.cmd]] = TypeName[e.type]
          /\ TypeOf[m.cmd] # e.type => Taken(m.to, TypeOf[m.cmd])
      BY <2>4, <3>1, <3>2, <3>3, Zenon
    <3>5. live' = [live EXCEPT ![m.to] = Reached(m.to, e, m.cmd)]
      BY <2>1, <2>4, <3>1, Zenon
    <3>6. /\ live' \in [Node -> SUBSET (ShardRow \cup AppRow)]
          /\ \A k \in Node : \A r \in live'[k] : r \in AppRow \/ Straight(k, r)
      BY <1>4, <2>2, <3>4, <3>5, Zenon
    <3> QED
      BY <1>2, <2>1, <2>3, <3>6, Zenon
  <2>5. CASE <<s, m.cmd>> \notin DOMAIN Reads
    <3>1. UNCHANGED live
      BY <2>1, <2>5, Zenon
    <3>2. /\ live' \in [Node -> SUBSET (ShardRow \cup AppRow)]
          /\ \A k \in Node : \A r \in live'[k] : r \in AppRow \/ Straight(k, r)
      BY <1>00, <3>1, Zenon DEF RouteTypes, RowInv
    <3> QED
      BY <1>2, <2>1, <2>3, <3>2, Zenon
  <2> QED
    BY <2>4, <2>5
<1>8. ASSUME NEW n \in Node, NEW name \in AppName,
             NEW parent \in {Root} \cup {r.path : r \in live[n]}, ActorOf(n, parent, name)
      PROVE  RouteInv'
  <2> DEFINE new == Row(Append(parent, name), None, None, None)
  <2>1. /\ live' = [live EXCEPT ![n] = @ \cup {new}]
        /\ UNCHANGED <<shards, wires, refused, owner, envelopes>>
    BY <1>8, Zenon DEF ActorOf
  <2>2. live \in [Node -> SUBSET (ShardRow \cup AppRow)] /\ owner \in [Placements -> Node]
    BY <1>00, Zenon DEF RouteTypes
  <2>3. parent \in Seq(Segment) /\ name \in Segment
    <3>1. << >> \in Seq(Segment)
      OBVIOUS
    <3>2. \A r \in ShardRow \cup AppRow : r.path \in Seq(Segment)
      BY DEF ShardRow, AppRow
    <3>3. name \in Segment
      BY <1>0, Zenon DEF Segment
    <3> QED
      BY <2>2, <3>1, <3>2, <3>3, Zenon DEF Root
  <2>4. new \in AppRow
    BY <2>3 DEF AppRow, Row
  <2> HIDE DEF new
  <2>5. /\ live' \in [Node -> SUBSET (ShardRow \cup AppRow)]
        /\ \A k \in Node : \A r \in live'[k] : r \in live[k] \/ r \in AppRow
    BY <2>1, <2>2, <2>4
  <2> QED
    BY <1>3, <1>a, <2>1, <2>2, <2>5, Zenon
<1>9. ASSUME NEW n \in Node, NEW out, live' = [live EXCEPT ![n] = @ \ out] \/ UNCHANGED live
      PROVE  /\ live' \in [Node -> SUBSET (ShardRow \cup AppRow)]
             /\ \A k \in Node : \A r \in live'[k] : r \in live[k] \/ r \in AppRow
  <2>1. live \in [Node -> SUBSET (ShardRow \cup AppRow)]
    BY <1>00, Zenon DEF RouteTypes
  <2> QED
    BY <1>9, <2>1
<1>10. ASSUME NEW n \in Node, NEW path, Stop(n, path) PROVE RouteInv'
  <2>1. /\ live' = [live EXCEPT ![n] = @ \ Under(n, path)]
        /\ UNCHANGED <<shards, wires, refused, owner, envelopes>>
    BY <1>10, Zenon DEF Stop
  <2>2. owner' \in [Placements -> Node]
    BY <1>00, <2>1, Zenon DEF RouteTypes
  <2> QED
    BY <1>3, <1>9, <1>a, <2>1, <2>2, Zenon
<1>11. ASSUME NEW n \in Node, NEW placed, Release(n, placed) PROVE RouteInv'
  <2>1. /\ live' = [live EXCEPT ![n] = @ \ Under(n, RootOf(placed))] \/ UNCHANGED live
        /\ UNCHANGED <<shards, wires, refused, owner, envelopes>>
    BY <1>11, Zenon DEF Release
  <2>2. owner' \in [Placements -> Node]
    BY <1>00, <2>1, Zenon DEF RouteTypes
  <2> QED
    BY <1>3, <1>9, <1>a, <2>1, <2>2, Zenon
<1>12. ASSUME \/ \E n \in Node : Scan(n)
              \/ \E placed \in Placements, to \in Node : MoveShard(placed, to)
              \/ UNCHANGED routingVars
       PROVE  RouteInv'
  <2>1. /\ UNCHANGED <<shards, wires, refused, live, envelopes>>
        /\ \/ UNCHANGED owner
           \/ \E placed \in Placements, to \in Node : owner' = [owner EXCEPT ![placed] = to]
    BY <1>12, Zenon DEF Scan, MoveShard, routingVars
  <2>2. owner \in [Placements -> Node] /\ live \in [Node -> SUBSET (ShardRow \cup AppRow)]
    BY <1>00, Zenon DEF RouteTypes
  <2>3. owner' \in [Placements -> Node]
    BY <2>1, <2>2
  <2> QED
    BY <1>3, <1>a, <2>1, <2>2, <2>3, Zenon
<1> QED
  BY <1>1, <1>b, <1>5, <1>6, <1>7, <1>8, <1>10, <1>11, <1>12, Zenon DEF RoutingNext

\* No type has been registered, and nobody lives on any node.
LEMMA RouteInit ==
  ASSUME RoutingInit
  PROVE  RouteInv
<1>1. RouteTypes
  BY Zenon DEF RoutingInit, RouteTypes
<1>2. NameInv
  BY DEF RoutingInit, NameInv
<1> QED
  BY <1>1, <1>2 DEF RoutingInit, RouteInv, EnvelopeInv, RowInv

\* The invariant of the routes holds in every reachable state.
THEOREM RouteInvariance == RoutingSpec => []RouteInv
<1>1. RoutingInit => RouteInv
  BY RouteInit
<1>2. RouteInv /\ [RoutingNext]_routingVars => RouteInv'
  BY RouteNext
<1> QED
  BY <1>1, <1>2, PTL DEF RoutingSpec

\* For any shard types, ids, spellings of ids and decoders: a command comes to an
\* actor of the shard and the entity that the actor's type reads out of it, as they
\* are spelled, told here or elsewhere (start_shard_actor, register's receive).
THEOREM RoutesAreRight == RoutingSpec => []RightActor
<1>1. RouteInv => RightActor
  BY DEF RouteInv, RowInv, Straight, RightActor, AppRow
<1> QED
  BY <1>1, RouteInvariance, PTL

\* In whatever order each node registers its types: an actor is handed another
\* type's command only if the two have one name, and its own node has refused that
\* type by the time it has tried to register it.
THEOREM ForeignIsRefused == RoutingSpec => []ForeignMeansRefused
<1>1. RouteInv => ForeignMeansRefused
  BY Zenon DEF RouteInv, RowInv, Straight, Taken, Tried, ForeignMeansRefused, AppRow
<1> QED
  BY <1>1, RouteInvariance, PTL

(* The sweep *)

\* "keeping them out of the way of the tree an application builds for itself": no
\* application names an actor of its own like the first segment of the shards'
\* addresses.  actor_of does not look.
SystemFree == SYSTEM \notin AppName

\* Every actor stands under an address or in the tree of the application, and the
\* sweep knows only shards that have commands.
PathInv ==
  \A n \in Node : \A r \in live[n] :
    \/ \E c \in Entities : StartsWith(r.path, AddressOf(c))
    \/ r.path # Root /\ r.path[1] \in AppName

ScanInv == sweep \in [Node -> SUBSET Placements]

\* A prefix, segment by segment.
LEMMA Prefix ==
  ASSUME NEW s \in Seq(Segment), NEW t \in Seq(Segment)
  PROVE  StartsWith(t, s) <=> Len(s) <= Len(t) /\ \A i \in 1..Len(s) : s[i] = t[i]
BY DEF StartsWith

\* The segments of an address.
LEMMA AddressParts ==
  ASSUME NEW c \in Entities
  PROVE  /\ AddressOf(c) \in Seq(Segment) /\ Len(AddressOf(c)) = 5
         /\ AddressOf(c)[1] = SYSTEM /\ AddressOf(c)[2] = SHARD
         /\ AddressOf(c)[3] = TypeName[c.type] /\ AddressOf(c)[4] = Spelling[c.shard]
         /\ AddressOf(c)[5] = Spelling[c.entity]
BY AddressType DEF AddressOf, RegionOf

\* The root of a shard has the four segments that shard_root_of reads.
LEMMA RootParts ==
  ASSUME NEW p \in Placements
  PROVE  /\ RootOf(p) \in Seq(Segment) /\ Len(RootOf(p)) = 4
         /\ RootOf(p)[1] = SYSTEM /\ RootOf(p)[2] = SHARD
         /\ RootOf(p)[3] = p.type_name /\ RootOf(p)[4] = p.shard_id
         /\ p = Placed(p.type_name, p.shard_id)
<1>1. PICK c \in Entities : p = Placed(TypeName[c.type], Spelling[c.shard])
  BY Zenon DEF Placements, PlacedOf
<1>2. TypeName[c.type] \in Seq(STRING) /\ Spelling[c.shard] \in Seq(STRING)
  BY EntityTyped, Zenon
<1>3. p.type_name = TypeName[c.type] /\ p.shard_id = Spelling[c.shard]
  BY <1>1 DEF Placed
<1>4. SYSTEM \in Segment /\ SHARD \in Segment /\ Seq(STRING) \subseteq Segment
  BY Zenon DEF Segment
<1> QED
  BY <1>1, <1>2, <1>3, <1>4 DEF RootOf, RegionOf

\* A path under an address begins with its segments.
LEMMA UnderAddress ==
  ASSUME NEW c \in Entities, NEW path \in Seq(Segment),
         StartsWith(path, AddressOf(c))
  PROVE  /\ Len(path) >= 5 /\ path[1] = SYSTEM /\ path[2] = SHARD
         /\ path[3] = TypeName[c.type] /\ path[4] = Spelling[c.shard]
<1>1. Len(AddressOf(c)) <= Len(path) /\ \A i \in 1..Len(AddressOf(c)) : AddressOf(c)[i] = path[i]
  <2>1. AddressOf(c) \in Seq(Segment)
    BY AddressParts, Zenon
  <2> QED
    BY <2>1, Prefix, Zenon
<1>2. Len(path) \in Nat /\ {1, 2, 3, 4} \subseteq 1..5
  OBVIOUS
<1>3. Len(path) >= 5
  BY <1>1, <1>2, AddressParts
<1> QED
  BY <1>1, <1>2, <1>3, AddressParts, Zenon

\* Its first five segments are the address.
LEMMA AddressSub ==
  ASSUME NEW c \in Entities, NEW path \in Seq(Segment)
  PROVE  StartsWith(path, AddressOf(c)) <=> Len(path) >= 5 /\ SubSeq(path, 1, 5) = AddressOf(c)
<1> DEFINE at == AddressOf(c)
<1>1. at \in Seq(Segment) /\ Len(at) = 5
  BY AddressParts, Zenon
<1>2. StartsWith(path, at) <=> Len(at) <= Len(path) /\ \A i \in 1..Len(at) : at[i] = path[i]
  BY <1>1, Prefix, Zenon
<1> HIDE DEF at
<1>3. ASSUME Len(path) >= 5
      PROVE  SubSeq(path, 1, 5) = at <=> \A i \in 1..5 : at[i] = path[i]
  <2>1. SubSeq(path, 1, 5) \in Seq(Segment) /\ Len(SubSeq(path, 1, 5)) = 5
    BY <1>3
  <2>2. \A i \in 1..5 : SubSeq(path, 1, 5)[i] = path[i]
    BY <1>3
  <2> QED
    BY <1>1, <2>1, <2>2
<1>4. Len(path) \in Nat
  OBVIOUS
<1>5. Len(at) <= Len(path) <=> Len(path) >= 5
  BY <1>1, <1>4
<1> QED
  BY <1>1, <1>2, <1>3, <1>5, Zenon DEF at

\* A path is under the root of a shard if its first four segments say so.
LEMMA RootPrefix ==
  ASSUME NEW p \in Placements, NEW path \in Seq(Segment)
  PROVE  StartsWith(path, RootOf(p)) <=> /\ Len(path) >= 4 /\ path[1] = SYSTEM /\ path[2] = SHARD
                                       /\ path[3] = p.type_name /\ path[4] = p.shard_id
<1> DEFINE root == RootOf(p)
<1>1. root \in Seq(Segment) /\ Len(root) = 4
  BY RootParts
<1>2. StartsWith(path, root) <=> Len(root) <= Len(path) /\ \A i \in 1..Len(root) : root[i] = path[i]
  BY <1>1, Prefix, Zenon
<1>3. /\ root[1] = SYSTEM /\ root[2] = SHARD
      /\ root[3] = p.type_name /\ root[4] = p.shard_id
  BY RootParts
<1> HIDE DEF root
<1>4. StartsWith(path, root) <=> Len(path) >= 4 /\ \A i \in {1, 2, 3, 4} : root[i] = path[i]
  <2>1. Len(path) \in Nat /\ 1..4 = {1, 2, 3, 4}
    OBVIOUS
  <2>2. 4 <= Len(path) <=> Len(path) >= 4
    BY <2>1
  <2> QED
    BY <1>1, <1>2, <2>1, <2>2, Zenon
<1> QED
  BY <1>3, <1>4, Zenon DEF root

\* shard_root_of, root and starts_with agree: what stands under the root of a shard
\* are the actors at the addresses of its entities and below.
LEMMA UnderRoot ==
  ASSUME SystemFree, RouteTypes, PathInv,
         NEW n \in Node, NEW p \in Placements
  PROVE  Under(n, RootOf(p)) = RowsOf(n, p)
<1>1. \A r \in live[n] : r.path \in Seq(Segment)
  BY RowPath, Zenon
<1>3. ASSUME NEW r \in live[n], StartsWith(r.path, RootOf(p))
      PROVE  \E c \in Entities : PlacedOf(c) = p /\ StartsWith(r.path, AddressOf(c))
  <2>1. /\ Len(r.path) >= 4 /\ r.path[1] = SYSTEM
        /\ r.path[3] = p.type_name /\ r.path[4] = p.shard_id
    BY <1>1, <1>3, RootPrefix, Zenon
  <2>2. PICK c \in Entities : StartsWith(r.path, AddressOf(c))
    BY <2>1, Zenon DEF PathInv, SystemFree
  <2>3. r.path[3] = TypeName[c.type] /\ r.path[4] = Spelling[c.shard]
    BY <1>1, <2>2, UnderAddress, Zenon
  <2> QED
    BY <2>1, <2>2, <2>3, RootParts, Zenon DEF PlacedOf
<1>4. ASSUME NEW r \in live[n], NEW c \in Entities,
             PlacedOf(c) = p, StartsWith(r.path, AddressOf(c))
      PROVE  StartsWith(r.path, RootOf(p))
  <2>1. p.type_name = TypeName[c.type] /\ p.shard_id = Spelling[c.shard]
    BY <1>4 DEF Placed, PlacedOf
  <2>2. /\ Len(r.path) >= 5 /\ r.path[1] = SYSTEM /\ r.path[2] = SHARD
        /\ r.path[3] = TypeName[c.type] /\ r.path[4] = Spelling[c.shard]
    BY <1>1, <1>4, UnderAddress, Zenon
  <2>3. Len(r.path) >= 4
    BY <1>1, <2>2
  <2> QED
    BY <1>1, <2>1, <2>2, <2>3, RootPrefix, Zenon
<1>5. \A r \in live[n], c \in Entities :
        StartsWith(r.path, AddressOf(c)) <=>
          Len(r.path) >= 5 /\ SubSeq(r.path, 1, 5) = AddressOf(c)
  BY <1>1, AddressSub, Zenon
<1> QED
  BY <1>3, <1>4, <1>5, Zenon DEF Under, RowsOf

\* Where a path comes from: it was there, or it is the address of an entity
\* that has a valid name, or an application has made it, with a valid name, under
\* a path that was there.
MadeFrom(path, rows) ==
  \/ \E q \in rows : q.path = path
  \/ \E d \in Entities : path = AddressOf(d) /\ IsValidName(Spelling[d.entity])
  \/ \E name \in AppName : \E parent \in {Root} \cup {q.path : q \in rows} :
       path = Append(parent, name) /\ IsValidName(name)

LEMMA PathStep ==
  ASSUME RouteInv, [RoutingNext]_routingVars, NEW k \in Node, NEW row \in live'[k]
  PROVE  MadeFrom(row.path, live[k])
<1> USE DEF registered, placement
<1>0. /\ live \in [Node -> SUBSET (ShardRow \cup AppRow)]
      /\ \A n \in Node : \A r \in live[n] : r.path \in Seq(Segment)
      /\ AppName \subseteq Segment
  <2>1. live \in [Node -> SUBSET (ShardRow \cup AppRow)]
    BY Zenon DEF RouteInv, RouteTypes
  <2>2. AppName \subseteq Segment
    BY RoutingAssumption, Zenon DEF Segment
  <2> QED
    BY <2>1, <2>2, RowPath, Zenon DEF RouteInv
<1>1. ASSUME NEW n \in Node, NEW rows, live' = [live EXCEPT ![n] = rows],
             \A r \in rows : MadeFrom(r.path, live[n])
      PROVE  MadeFrom(row.path, live[k])
  <2>1. row \in live[k] \/ (k = n /\ row \in rows)
    BY <1>0, <1>1, Zenon
  <2> QED
    BY <1>1, <2>1, Zenon DEF MadeFrom
<1>2. ASSUME NEW n \in Node, NEW c \in Entities, NEW sent, NEW r \in Reached(n, c, sent)
      PROVE  MadeFrom(r.path, live[n])
  <2>1. CASE r \in live[n]
    BY <2>1, Zenon DEF MadeFrom
  <2>2. ASSUME NEW q \in live[n], r = [q EXCEPT !.last = sent] PROVE MadeFrom(r.path, live[n])
    <3>1. r.path = q.path
      BY <1>0, <2>2 DEF ShardRow, AppRow
    <3> QED
      BY <3>1, Zenon DEF MadeFrom
  <2>3. CASE r = Row(AddressOf(c), c.type, c, sent) /\ MayCreate(n, AddressOf(c))
    <3>1. r.path = AddressOf(c)
      BY <2>3 DEF Row
    <3>2. Len(AddressOf(c)) = 5 /\ AddressOf(c)[5] = Spelling[c.entity]
      BY AddressParts, Zenon
    <3>3. IsValidName(Spelling[c.entity])
      BY <2>3, <3>2, Zenon DEF MayCreate
    <3> QED
      BY <3>1, <3>3, Zenon DEF MadeFrom
  <2> QED
    BY <1>2, <2>1, <2>2, <2>3, Zenon DEF Reached
<1>3. ASSUME NEW n \in Node, NEW c \in Command, TellHere(n, c) PROVE MadeFrom(row.path, live[k])
  BY <1>1, <1>2, <1>3, NamedTyped, Zenon DEF TellHere
<1>4. ASSUME NEW m \in envelopes, Receive(m) PROVE MadeFrom(row.path, live[k])
  <2> DEFINE s == shards[m.to][m.type_name]
  <2>1. live' = IF <<s, m.cmd>> \in DOMAIN Reads
                THEN [live EXCEPT ![m.to] = Reached(m.to, ContextOf(s, m.cmd), m.cmd)]
                ELSE live
    BY <1>4, Zenon DEF Receive
  <2>2. m.to \in Node
    BY DEF RouteInv, RouteTypes
  <2>3. CASE <<s, m.cmd>> \in DOMAIN Reads
    <3>1. PICK c \in Entities : c = ContextOf(s, m.cmd)
      BY <2>3, ReadsTyped, Zenon
    <3>2. live' = [live EXCEPT ![m.to] = Reached(m.to, c, m.cmd)]
      BY <2>1, <2>3, <3>1, Zenon
    <3>3. \A r \in Reached(m.to, c, m.cmd) : MadeFrom(r.path, live[m.to])
      BY <1>2, <2>2, Zenon
    <3> QED
      BY <1>1, <2>2, <3>2, <3>3, Zenon
  <2>4. CASE <<s, m.cmd>> \notin DOMAIN Reads
    BY <2>1, <2>4, Zenon DEF MadeFrom
  <2> QED
    BY <2>3, <2>4
<1>5. ASSUME NEW n \in Node, NEW name \in AppName,
             NEW parent \in {Root} \cup {r.path : r \in live[n]}, ActorOf(n, parent, name)
      PROVE  MadeFrom(row.path, live[k])
  <2>1. live' = [live EXCEPT ![n] = live[n] \cup {Row(Append(parent, name), None, None, None)}]
    BY <1>5, Zenon DEF ActorOf
  <2>2. IsValidName(name)
    <3>1. parent \in Seq(Segment) /\ name \in Segment
      <4>1. Root \in Seq(Segment)
        BY DEF Root
      <4> QED
        BY <1>0, <4>1, Zenon
    <3>2. Append(parent, name)[Len(Append(parent, name))] = name
      BY <3>1
    <3> QED
      BY <1>5, <3>2, Zenon DEF ActorOf, MayCreate
  <2>3. \A r \in live[n] \cup {Row(Append(parent, name), None, None, None)} : MadeFrom(r.path, live[n])
    <3>1. Row(Append(parent, name), None, None, None).path = Append(parent, name)
      BY DEF Row
    <3> QED
      BY <2>2, <3>1, Zenon DEF MadeFrom
  <2> QED
    BY <1>1, <2>1, <2>3, Zenon
<1>6. ASSUME NEW n \in Node, NEW out, live' = [live EXCEPT ![n] = live[n] \ out] \/ UNCHANGED live
      PROVE  MadeFrom(row.path, live[k])
  <2>1. row \in live[k]
    BY <1>0, <1>6, Zenon
  <2> QED
    BY <2>1, Zenon DEF MadeFrom
<1>7. ASSUME NEW n \in Node, NEW path, Stop(n, path) PROVE MadeFrom(row.path, live[k])
  BY <1>6, <1>7, Zenon DEF Stop
<1>8. ASSUME NEW n \in Node, NEW placed, Release(n, placed) PROVE MadeFrom(row.path, live[k])
  BY <1>6, <1>8, Zenon DEF Release
<1>9. ASSUME UNCHANGED live PROVE MadeFrom(row.path, live[k])
  BY <1>9, Zenon DEF MadeFrom
<1>10. \/ UNCHANGED live
       \/ \E n \in Node, c \in Command : TellHere(n, c)
       \/ \E m \in envelopes : Receive(m)
       \/ \E n \in Node, name \in AppName :
            \E parent \in {Root} \cup {r.path : r \in live[n]} : ActorOf(n, parent, name)
       \/ \E n \in Node : \E r \in live[n] : Stop(n, r.path)
       \/ \E n \in Node : \E placed \in sweep[n] : Release(n, placed)
  BY Zenon DEF RoutingNext, routingVars, Register, RecordWire, Scan, TellAway, MoveShard
<1> QED
  BY <1>3, <1>4, <1>5, <1>7, <1>8, <1>9, <1>10, Zenon

\* Nothing comes to stand outside the addresses and the application's tree.
LEMMA PathNext ==
  ASSUME RouteInv, PathInv, [RoutingNext]_routingVars
  PROVE  PathInv'
<1> DEFINE Placeable(path) == \/ \E c \in Entities : StartsWith(path, AddressOf(c))
                              \/ path # Root /\ path[1] \in AppName
<1> SUFFICES ASSUME NEW n \in Node, NEW row \in live'[n] PROVE Placeable(row.path)
  BY Zenon DEF PathInv
<1>0. AppName \subseteq Segment /\ \A r \in live[n] : r.path \in Seq(Segment)
  BY RoutingAssumption, RowPath, Zenon DEF Segment, RouteInv
<1>1. MadeFrom(row.path, live[n])
  BY PathStep, Zenon
<1>2. ASSUME NEW d \in Entities PROVE Placeable(AddressOf(d))
  <2>1. AddressOf(d) \in Seq(Segment)
    BY AddressParts, Zenon
  <2>2. StartsWith(AddressOf(d), AddressOf(d))
    BY <2>1, Prefix
  <2> QED
    BY <2>2, Zenon
<1>3. ASSUME NEW name \in AppName, NEW parent \in {Root} \cup {q.path : q \in live[n]}
      PROVE  Placeable(Append(parent, name))
  <2>1. CASE parent = Root
    BY <2>1 DEF Root
  <2>2. CASE parent \in {r.path : r \in live[n]}
    <3>1. parent \in Seq(Segment) /\ Placeable(parent) /\ name \in Segment
      BY <1>0, <2>2, Zenon DEF PathInv
    <3>2. ASSUME NEW c \in Entities, StartsWith(parent, AddressOf(c))
          PROVE  StartsWith(Append(parent, name), AddressOf(c))
      <4>0. AddressOf(c) \in Seq(Segment)
        BY AddressParts, Zenon
      <4>1. Append(parent, name) \in Seq(Segment)
        BY <3>1
      <4>2. /\ Len(AddressOf(c)) <= Len(parent)
            /\ \A i \in 1..Len(AddressOf(c)) : AddressOf(c)[i] = parent[i]
        BY <3>1, <3>2, <4>0, Prefix
      <4>3. /\ Len(AddressOf(c)) <= Len(Append(parent, name))
            /\ \A i \in 1..Len(AddressOf(c)) : AddressOf(c)[i] = Append(parent, name)[i]
        BY <3>1, <4>0, <4>2
      <4> QED
        BY <4>0, <4>1, <4>3, Prefix, Zenon
    <3>3. ASSUME parent # Root, parent[1] \in AppName
          PROVE  Append(parent, name) # Root /\ Append(parent, name)[1] \in AppName
      BY <3>1, <3>3 DEF Root
    <3> QED
      BY <3>1, <3>2, <3>3, Zenon
  <2> QED
    BY <2>1, <2>2
<1>4. \A q \in live[n] : Placeable(q.path)
  BY Zenon DEF PathInv
<1> HIDE DEF Placeable
<1> QED
  BY <1>1, <1>2, <1>3, <1>4, Zenon DEF MadeFrom

\* The sweep is read off the registry.
LEMMA ScanNext ==
  ASSUME SystemFree, RouteInv, PathInv, ScanInv, [RoutingNext]_routingVars
  PROVE  ScanInv'
<1> USE DEF registered, placement
<1>1. \A n \in Node : \A r \in live[n] : r.path \in Seq(Segment)
  BY RowPath, Zenon DEF RouteInv
<1>3. ASSUME NEW n \in Node, NEW r \in live[n], ShardRootOf(r.path) # None
      PROVE  ShardRootOf(r.path) \in Placements
  <2>1. r.path[1] = SYSTEM /\ ShardRootOf(r.path) = Placed(r.path[3], r.path[4])
    BY <1>3, Zenon DEF ShardRootOf
  <2>2. PICK c \in Entities : StartsWith(r.path, AddressOf(c))
    BY <2>1, Zenon DEF PathInv, SystemFree
  <2>3. r.path[3] = TypeName[c.type] /\ r.path[4] = Spelling[c.shard]
    BY <1>1, <2>2, UnderAddress, Zenon
  <2> QED
    BY <2>1, <2>3, Zenon DEF Placements, PlacedOf
<1>4. ASSUME NEW n \in Node, Scan(n) PROVE ScanInv'
  <2>1. sweep' = [sweep EXCEPT ![n] = {ShardRootOf(r.path) : r \in live[n]} \ {None}]
    BY <1>4, Zenon DEF Scan
  <2>2. {ShardRootOf(r.path) : r \in live[n]} \ {None} \subseteq Placements
    BY <1>3, Zenon
  <2> QED
    BY <2>1, <2>2 DEF ScanInv
<1>5. ASSUME NEW n \in Node, NEW placed, Release(n, placed) PROVE ScanInv'
  <2>1. sweep' = [sweep EXCEPT ![n] = @ \ {placed}]
    BY <1>5, Zenon DEF Release
  <2> QED
    BY <2>1 DEF ScanInv
<1>6. ASSUME UNCHANGED sweep PROVE ScanInv'
  BY <1>6, Zenon DEF ScanInv
<1>7. \/ UNCHANGED sweep
      \/ \E n \in Node : Scan(n)
      \/ \E n \in Node : \E placed \in sweep[n] : Release(n, placed)
  BY Zenon DEF RoutingNext, routingVars, Register, RecordWire, TellHere, TellAway, Receive, ActorOf,
               Stop, MoveShard
<1> QED
  BY <1>4, <1>5, <1>6, <1>7, Zenon

\* A path has one actor at most.
Single(rows) == \A q, r \in rows : q.path = r.path => q = r

MapInv == dirty \in [Node -> BOOLEAN] /\ \A n \in Node : Single(live[n])

\* get_or_create sees to it that the registry stays a map.
LEMMA MapNext ==
  ASSUME RouteInv, MapInv, [RoutingNext]_routingVars
  PROVE  MapInv'
<1> USE DEF registered, placement
<1>0. /\ live \in [Node -> SUBSET (ShardRow \cup AppRow)]
      /\ dirty \in [Node -> BOOLEAN] /\ \A n \in Node : Single(live[n])
  BY Zenon DEF RouteInv, RouteTypes, MapInv
<1>1. dirty' \in [Node -> BOOLEAN]
  <2>1. \/ UNCHANGED dirty
        \/ dirty' = [n \in Node |-> TRUE]
        \/ \E n \in Node : dirty' = [dirty EXCEPT ![n] = FALSE]
    BY Zenon DEF RoutingNext, routingVars, Register, RecordWire, TellHere, TellAway, Receive, ActorOf,
                 Stop, MoveShard, Scan, Release
  <2> QED
    BY <1>0, <2>1, Zenon
<1>2. ASSUME NEW n \in Node, NEW rows, live' = [live EXCEPT ![n] = rows] \/ UNCHANGED live,
             Single(rows)
      PROVE  MapInv'
  <2>1. \A k \in Node : live'[k] = live[k] \/ live'[k] = rows
    BY <1>0, <1>2, Zenon
  <2>2. \A k \in Node : Single(live'[k])
    BY <1>0, <1>2, <2>1, Zenon
  <2> QED
    BY <1>1, <2>2, Zenon DEF MapInv
<1>3. ASSUME NEW n \in Node, NEW row, RowsAt(n, row.path) = {} PROVE Single(live[n] \cup {row})
  <2>1. \A r \in live[n] : r.path # row.path
    BY <1>3, Zenon DEF RowsAt
  <2>2. \A q, r \in live[n] : q.path = r.path => q = r
    BY <1>0, Zenon DEF Single
  <2> QED
    BY <2>1, <2>2, Zenon DEF Single
<1>4. ASSUME NEW n \in Node, NEW c, NEW sent PROVE Single(Reached(n, c, sent))
  <2> DEFINE found == Resolve(n, AddressOf(c), c.type)
             after(r) == IF r \in found THEN [r EXCEPT !.last = sent] ELSE r
  <2>1. CASE found # {}
    <3>1. Reached(n, c, sent) = {after(r) : r \in live[n]}
      BY <2>1, Zenon DEF Reached
    <3>2. \A r \in live[n] : after(r).path = r.path
      BY <1>0 DEF ShardRow, AppRow
    <3>3. \A q, r \in live[n] : q.path = r.path => q = r
      BY <1>0, Zenon DEF Single
    <3> HIDE DEF after
    <3>4. ASSUME NEW x \in {after(r) : r \in live[n]}, NEW y \in {after(r) : r \in live[n]},
                 x.path = y.path
          PROVE  x = y
      <4>1. PICK q \in live[n] : x = after(q)
        BY Zenon
      <4>2. PICK r \in live[n] : y = after(r)
        BY Zenon
      <4>3. q = r
        BY <3>2, <3>3, <3>4, <4>1, <4>2, Zenon
      <4> QED
        BY <4>1, <4>2, <4>3, Zenon
    <3>5. Single({after(r) : r \in live[n]})
      BY <3>4, Zenon DEF Single
    <3> QED
      BY <3>1, <3>5, Zenon
  <2>2. CASE found = {} /\ Reached(n, c, sent) = live[n] \cup {Row(AddressOf(c), c.type, c, sent)}
                        /\ MayCreate(n, AddressOf(c))
    <3> DEFINE row == Row(AddressOf(c), c.type, c, sent)
    <3>1. row.path = AddressOf(c)
      BY DEF Row
    <3>2. RowsAt(n, row.path) = {}
      BY <2>2, <3>1, Zenon DEF MayCreate
    <3>3. Single(live[n] \cup {row})
      BY <1>3, <3>2, Zenon
    <3> QED
      BY <2>2, <3>3, Zenon
  <2>3. CASE Reached(n, c, sent) = live[n]
    BY <1>0, <2>3, Zenon
  <2> QED
    BY <2>1, <2>2, <2>3, Zenon DEF Reached
<1>5. ASSUME NEW n \in Node, NEW c, TellHere(n, c) PROVE MapInv'
  BY <1>2, <1>4, <1>5, Zenon DEF TellHere
<1>6. ASSUME NEW m \in envelopes, Receive(m) PROVE MapInv'
  <2>1. m.to \in Node
    BY DEF RouteInv, RouteTypes
  <2>2. \/ UNCHANGED live
        \/ live' = [live EXCEPT ![m.to] =
                      Reached(m.to, ContextOf(shards[m.to][m.type_name], m.cmd), m.cmd)]
    BY <1>6, Zenon DEF Receive
  <2> QED
    BY <1>2, <1>4, <2>1, <2>2, Zenon
<1>7. ASSUME NEW n \in Node, NEW name, NEW parent, ActorOf(n, parent, name) PROVE MapInv'
  <2> DEFINE row == Row(Append(parent, name), None, None, None)
  <2>1. row.path = Append(parent, name)
    BY DEF Row
  <2>2. RowsAt(n, row.path) = {} /\ live' = [live EXCEPT ![n] = live[n] \cup {row}]
    BY <1>7, <2>1, Zenon DEF ActorOf, MayCreate
  <2> HIDE DEF row
  <2> QED
    BY <1>2, <1>3, <2>2, Zenon
<1>8. ASSUME NEW n \in Node, NEW out, live' = [live EXCEPT ![n] = live[n] \ out] \/ UNCHANGED live
      PROVE  MapInv'
  <2>1. Single(live[n] \ out)
    BY <1>0, Zenon DEF Single
  <2> QED
    BY <1>2, <1>8, <2>1, Zenon
<1>9. ASSUME NEW n \in Node, NEW path, Stop(n, path) PROVE MapInv'
  BY <1>8, <1>9, Zenon DEF Stop
<1>10. ASSUME NEW n \in Node, NEW placed, Release(n, placed) PROVE MapInv'
  BY <1>8, <1>10, Zenon DEF Release
<1>11. ASSUME UNCHANGED live PROVE MapInv'
  BY <1>1, <1>11, Zenon DEF MapInv
<1>12. \/ UNCHANGED live
       \/ \E n \in Node, c \in Command : TellHere(n, c)
       \/ \E m \in envelopes : Receive(m)
       \/ \E n \in Node, name \in AppName :
            \E parent \in {Root} \cup {r.path : r \in live[n]} : ActorOf(n, parent, name)
       \/ \E n \in Node : \E r \in live[n] : Stop(n, r.path)
       \/ \E n \in Node : \E placed \in sweep[n] : Release(n, placed)
  BY Zenon DEF RoutingNext, routingVars, Register, RecordWire, Scan, TellAway, MoveShard
<1> QED
  BY <1>5, <1>6, <1>7, <1>9, <1>10, <1>11, <1>12, Zenon

(* The invariant of the sweep and the registry *)

SweepInv == RouteInv /\ PathInv /\ ScanInv /\ MapInv

\* Together with RouteInv they are inductive, given that `system` is free.
THEOREM SweepInvariance == SystemFree /\ RoutingSpec => []SweepInv
<1>1. ASSUME RoutingInit PROVE SweepInv
  <2>1. PathInv
    BY <1>1 DEF RoutingInit, PathInv
  <2>2. ScanInv
    BY <1>1 DEF RoutingInit, ScanInv
  <2>3. MapInv
    BY <1>1, Zenon DEF RoutingInit, MapInv, Single
  <2> QED
    BY <1>1, RouteInit, <2>1, <2>2, <2>3, ZenonT(30) DEF SweepInv
<1>2. ASSUME SystemFree, SweepInv, [RoutingNext]_routingVars PROVE SweepInv'
  BY <1>2, RouteNext, PathNext, ScanNext, MapNext, Zenon DEF SweepInv
<1>3. SystemFree => SystemFree'
  BY DEF SystemFree, SYSTEM
<1> QED
  BY <1>1, <1>2, <1>3, PTL DEF RoutingSpec

\* The variables have their types; the registry has one row for a path, and a
\* sweep works on shards that exist.
THEOREM RoutingTypes == SystemFree /\ RoutingSpec => []RoutingTypeOK
<1>1. ASSUME SweepInv PROVE RoutingTypeOK
  <2>1. RouteTypes /\ ScanInv /\ MapInv
    BY <1>1, Zenon DEF SweepInv, RouteInv
  <2>3. \A n \in Node : \A r \in live[n] :
          (r \in ShardRow \/ r \in AppRow) /\ RowsAt(n, r.path) = {r}
    <3>1. ASSUME NEW n \in Node, NEW r \in live[n] PROVE RowsAt(n, r.path) = {r}
      <4>1. \A q \in live[n] : q.path = r.path => q = r
        BY <2>1, Zenon DEF MapInv, Single
      <4> QED
        BY <4>1 DEF RowsAt
    <3> QED
      BY <2>1, <3>1, Zenon DEF RouteTypes
  <2> QED
    BY <2>1, <2>3, Zenon DEF RoutingTypeOK, RouteTypes, ScanInv, MapInv
<1> QED
  BY <1>1, SweepInvariance, PTL

\* For any types, names and commands, as long as no application uses the name
\* `system`: a step of release_vacated_shards stops every actor of one shard and no
\* other one, and none if the node owns the shard.
THEOREM SweepsAreExact == SystemFree /\ RoutingSpec => SweepExact
<1> DEFINE Exact == \A n \in Node : \A placed \in sweep[n] \ sweep'[n] :
               live[n] \ live'[n] = IF owner[placed] = n THEN {} ELSE RowsOf(n, placed)
<1>1. SystemFree /\ SweepInv /\ [RoutingNext]_routingVars => Exact
  <2> SUFFICES ASSUME SystemFree, SweepInv, [RoutingNext]_routingVars,
                      NEW n \in Node, NEW placed \in sweep[n] \ sweep'[n]
               PROVE  live[n] \ live'[n] = IF owner[placed] = n THEN {} ELSE RowsOf(n, placed)
    BY Zenon
  <2>0. sweep \in [Node -> SUBSET Placements] /\ live \in [Node -> SUBSET (ShardRow \cup AppRow)]
    BY Zenon DEF SweepInv, ScanInv, RouteInv, RouteTypes
  <2>1. \/ \E k \in Node : Scan(k)
        \/ \E k \in Node : \E p \in sweep[k] : Release(k, p)
    BY Zenon DEF RoutingNext, routingVars, registered, placement, Register, RecordWire, TellHere, TellAway,
                 Receive, ActorOf, Stop, MoveShard
  <2>2. ASSUME NEW k \in Node, Scan(k) PROVE FALSE
    <3>1. sweep[k] = {} /\ \A j \in Node \ {k} : sweep'[j] = sweep[j]
      BY <2>0, <2>2 DEF Scan
    <3> QED
      BY <3>1, Zenon
  <2>3. PICK k \in Node : \E p \in sweep[k] : Release(k, p)
    BY <2>1, <2>2, Zenon
  <2>4. PICK p \in sweep[k] : Release(k, p)
    BY <2>3, Zenon
  <2>5. k = n /\ p = placed
    <3>1. sweep' = [sweep EXCEPT ![k] = @ \ {p}]
      BY <2>4, Zenon DEF Release
    <3> QED
      BY <2>0, <3>1
  <2>6. live' = IF owner[placed] = n THEN live
                ELSE [live EXCEPT ![n] = @ \ Under(n, RootOf(placed))]
    BY <2>4, <2>5, Zenon DEF Release
  <2>7. Under(n, RootOf(placed)) = RowsOf(n, placed)
    BY <2>0, UnderRoot, Zenon DEF SweepInv, RouteInv
  <2>8. Under(n, RootOf(placed)) \subseteq live[n]
    BY Zenon DEF Under
  <2>9. CASE owner[placed] = n
    BY <2>6, <2>9, Zenon
  <2>10. CASE owner[placed] # n
    <3>1. live'[n] = live[n] \ Under(n, RootOf(placed))
      BY <2>0, <2>6, <2>10, Zenon
    <3> QED
      BY <2>7, <2>8, <2>10, <3>1
  <2> QED
    BY <2>9, <2>10
<1>2. SystemFree => SystemFree'
  BY DEF SystemFree, SYSTEM
<1> QED
  BY <1>1, <1>2, SweepInvariance, PTL DEF RoutingSpec, SweepExact

----------------------------------------------------------------------------
(* Paths as text *)

\* A set of naturals that holds 0 and the successor of every member below n holds
\* all that are at most n.
LEMMA Climb ==
  ASSUME NEW S \in SUBSET Nat, NEW n \in Nat, 0 \in S,
         \A i \in 1..n : i - 1 \in S => i \in S
  PROVE  \A i \in 0..n : i \in S
<1> DEFINE T == {i \in 0..n : i \notin S}
<1>1. T \in SUBSET Nat
  OBVIOUS
<1>2. CASE T = {}
  BY <1>2
<1>3. CASE T # {}
  <2>1. \E x \in T : \A y \in T : x =< y
    <3> HIDE DEF T
    <3> QED
      BY <1>1, <1>3, LeastNat
  <2>2. PICK x \in T : \A y \in T : x =< y
    BY <2>1
  <2>3. x \in 1..n /\ x - 1 \in 0..n /\ x \notin S
    BY <2>2
  <2>4. x - 1 \notin T
    BY <2>2, <2>3
  <2> QED
    BY <2>3, <2>4
<1> QED
  BY <1>2, <1>3

\* The texts of a path, as Display builds them.
LEMMA TextsStep ==
  ASSUME NEW C, "/" \in C, NEW path \in Seq(Seq(C))
  PROVE  /\ Texts(path) \in [0..Len(path) -> Seq(C)]
         /\ Texts(path)[0] = << >>
         /\ \A i \in 1..Len(path) : Texts(path)[i] = Texts(path)[i - 1] \o <<"/">> \o path[i]
<1> DEFINE n == Len(path)
           Step(f, i) == f[i] = f[i - 1] \o <<"/">> \o path[i]
           Built(f, m) == f[0] = << >> /\ \A i \in 1..m : Step(f, i)
           S == {m \in 0..n : \E f \in [0..m -> Seq(C)] : Built(f, m)}
<1>0. n \in Nat /\ \A i \in 1..n : path[i] \in Seq(C)
  OBVIOUS
<1>1. 0 \in S
  <2> DEFINE f == [i \in 0..0 |-> << >>]
  <2>1. f \in [0..0 -> Seq(C)] /\ Built(f, 0)
    BY <1>0
  <2>2. 0 \in 0..n
    BY <1>0
  <2> HIDE DEF f, Built
  <2> QED
    BY <2>1, <2>2, Zenon
<1>2. ASSUME NEW m \in 1..n, m - 1 \in S PROVE m \in S
  <2>1. PICK f \in [0..(m - 1) -> Seq(C)] : Built(f, m - 1)
    BY <1>2, Zenon
  <2> DEFINE g == [i \in 0..m |-> IF i = m THEN f[m - 1] \o <<"/">> \o path[m] ELSE f[i]]
  <2>2. f[m - 1] \in Seq(C) /\ path[m] \in Seq(C) /\ <<"/">> \in Seq(C)
    BY <1>0, <2>1
  <2>3. f[m - 1] \o <<"/">> \o path[m] \in Seq(C)
    BY <2>2
  <2>4. g \in [0..m -> Seq(C)]
    BY <1>0, <2>1, <2>3
  <2>5. g[0] = << >>
    BY <1>0, <2>1
  <2>6. ASSUME NEW i \in 1..m PROVE Step(g, i)
    <3>1. CASE i = m
      <4>1. g[m] = f[m - 1] \o <<"/">> \o path[m] /\ g[m - 1] = f[m - 1]
        <5>1. m \in 0..m /\ m - 1 \in 0..m /\ m - 1 # m
          BY <1>0
        <5> QED
          BY <5>1, Zenon
      <4> HIDE DEF g
      <4> QED
        BY <3>1, <4>1, Zenon
    <3>2. CASE i # m
      <4>1. i \in 1..(m - 1) /\ g[i] = f[i] /\ g[i - 1] = f[i - 1]
        BY <1>0, <3>2
      <4> QED
        BY <2>1, <4>1, Zenon
    <3> QED
      BY <3>1, <3>2, Zenon
  <2>7. m \in 0..n
    BY <1>0
  <2>8. Built(g, m)
    BY <2>5, <2>6, Zenon
  <2> HIDE DEF g, Built
  <2> QED
    BY <2>4, <2>7, <2>8, Zenon
<1>3. n \in S
  <2>1. S \in SUBSET Nat
    <3>1. \A i \in 0..n : i \in Nat
      OBVIOUS
    <3> QED
      BY <3>1, Zenon
  <2> HIDE DEF S
  <2>2. \A i \in 0..n : i \in S
    BY <1>0, <1>1, <1>2, <2>1, Climb, Zenon
  <2> QED
    BY <1>0, <2>2
<1>4. PICK f \in [0..n -> Seq(C)] : Built(f, n)
  BY <1>3, Zenon
<1> DEFINE Fix(g) == [i \in 0..n |-> IF i = 0 THEN << >> ELSE g[i - 1] \o <<"/">> \o path[i]]
<1>5. f = Fix(f)
  <2>1. \A i \in 0..n : i = 0 \/ i \in 1..n
    BY <1>0
  <2>2. \A i \in 0..n : f[i] = IF i = 0 THEN << >> ELSE f[i - 1] \o <<"/">> \o path[i]
    BY <1>4, <2>1, Zenon
  <2>3. f = [i \in 0..n |-> f[i]]
    BY Zenon
  <2> QED
    BY <2>2, <2>3, Zenon
<1>6. Texts(path) = CHOOSE g : g = Fix(g)
  BY DEF Texts
<1>7. Texts(path) = Fix(Texts(path))
  <2> HIDE DEF Fix
  <2> QED
    BY <1>5, <1>6
<1> DEFINE T == Texts(path)
<1>8. T[0] = << >> /\ \A i \in 1..n : Step(T, i)
  <2>1. \A i \in 0..n : Fix(T)[i] = IF i = 0 THEN << >> ELSE T[i - 1] \o <<"/">> \o path[i]
    OBVIOUS
  <2>2. \A i \in 0..n : T[i] = IF i = 0 THEN << >> ELSE T[i - 1] \o <<"/">> \o path[i]
    <3> HIDE DEF Fix, n
    <3> QED
      BY <1>7, <2>1
  <2>3. 0 \in 0..n /\ \A i \in 1..n : i \in 0..n /\ i # 0
    BY <1>0
  <2> QED
    BY <2>2, <2>3, Zenon
<1>9. T = f
  <2> DEFINE Same == {i \in 0..n : T[i] = f[i]}
  <2>1. Same \in SUBSET Nat /\ 0 \in Same
    BY <1>0, <1>4, <1>8
  <2>2. ASSUME NEW i \in 1..n, i - 1 \in Same PROVE i \in Same
    <3>1. T[i - 1] = f[i - 1]
      BY <2>2
    <3>2. T[i] = f[i]
      BY <3>1, <1>4, <1>8, Zenon
    <3> QED
      BY <1>0, <3>2
  <2>3. \A i \in 0..n : i \in Same
    <3> HIDE DEF Same
    <3> QED
      BY <1>0, <2>1, <2>2, Climb, Zenon
  <2>4. T = [i \in 0..n |-> T[i]]
    <3>1. Fix(T) = [i \in 0..n |-> Fix(T)[i]]
      OBVIOUS
    <3> HIDE DEF Fix
    <3> QED
      BY <1>7, <3>1
  <2> QED
    BY <2>3, <2>4, <1>4
<1> QED
  BY <1>4, <1>8, <1>9

\* One more segment.
LEMMA OneMore ==
  ASSUME NEW C, "/" \in C, NEW a \in Seq(C), NEW b \in Seq(C), NEW t, t = a \o <<"/">> \o b
  PROVE  /\ Len(t) = Len(a) + 1 + Len(b)
         /\ \A p \in 1..Len(a) : t[p] = a[p]
         /\ t[Len(a) + 1] = "/"
         /\ \A q \in 1..Len(b) : t[Len(a) + 1 + q] = b[q]
<1>1. <<"/">> \in Seq(C) /\ Len(<<"/">>) = 1
  OBVIOUS
<1> DEFINE m == a \o <<"/">>
<1>2. m \in Seq(C) /\ Len(m) = Len(a) + 1 /\ m[Len(a) + 1] = "/"
  BY <1>1
<1>3. \A p \in 1..Len(a) : m[p] = a[p]
  BY <1>1
<1> HIDE DEF m
<1>4. t = m \o b
  BY DEF m
<1>5. Len(t) = Len(m) + Len(b) /\ \A p \in 1..Len(m) : t[p] = m[p]
  BY <1>2, <1>4
<1>6. \A q \in 1..Len(b) : t[Len(m) + q] = b[q]
  BY <1>2, <1>4
<1>7. \A p \in 1..(Len(a) + 1) : p \in 1..Len(m)
  BY <1>2
<1>8. Len(a) + 1 \in 1..(Len(a) + 1) /\ \A p \in 1..Len(a) : p \in 1..(Len(a) + 1)
  OBVIOUS
<1> QED
  BY <1>2, <1>3, <1>5, <1>6, <1>7, <1>8, Zenon

\* Where each segment ends in the text; a text that is longer begins with the ones
\* that are shorter, and the segments cover it.
LEMMA TextsGrow ==
  ASSUME NEW C, "/" \in C, NEW path \in Seq(Seq(C)), NEW T, T = Texts(path)
  PROVE  /\ \A i \in 1..Len(path) :
              /\ Len(T[i]) = Len(T[i - 1]) + 1 + Len(path[i])
              /\ T[i][Len(T[i - 1]) + 1] = "/"
              /\ \A q \in 1..Len(path[i]) : T[i][Len(T[i - 1]) + 1 + q] = path[i][q]
         /\ \A j \in 0..Len(path) : \A i \in 0..j :
              Len(T[i]) <= Len(T[j]) /\ \A p \in 1..Len(T[i]) : T[j][p] = T[i][p]
         /\ \A j \in 0..Len(path) : \A p \in 1..Len(T[j]) :
              \E i \in 1..j : p > Len(T[i - 1]) /\ p <= Len(T[i])
<1> DEFINE n == Len(path)
<1>0. /\ n \in Nat /\ T \in [0..n -> Seq(C)] /\ T[0] = << >>
      /\ \A i \in 1..n : T[i] = T[i - 1] \o <<"/">> \o path[i]
      /\ \A i \in 1..n : path[i] \in Seq(C)
  <2>1. n \in Nat /\ \A i \in 1..n : path[i] \in Seq(C)
    OBVIOUS
  <2> QED
    BY <2>1, TextsStep, Zenon
<1>1. \A i \in 1..n : i - 1 \in 0..n /\ i \in 0..n
  BY <1>0
<1>2. ASSUME NEW i \in 1..n
      PROVE  /\ Len(T[i]) = Len(T[i - 1]) + 1 + Len(path[i])
             /\ \A p \in 1..Len(T[i - 1]) : T[i][p] = T[i - 1][p]
             /\ T[i][Len(T[i - 1]) + 1] = "/"
             /\ \A q \in 1..Len(path[i]) : T[i][Len(T[i - 1]) + 1 + q] = path[i][q]
  <2>1. T[i - 1] \in Seq(C) /\ path[i] \in Seq(C) /\ T[i] = T[i - 1] \o <<"/">> \o path[i]
    BY <1>0, <1>1, Zenon
  <2>3. PICK a \in Seq(C), b \in Seq(C), t \in {T[i]} :
          a = T[i - 1] /\ b = path[i] /\ t = T[i] /\ t = a \o <<"/">> \o b
    BY <2>1, Zenon
  <2>4. /\ Len(t) = Len(a) + 1 + Len(b)
        /\ \A p \in 1..Len(a) : t[p] = a[p]
        /\ t[Len(a) + 1] = "/"
        /\ \A q \in 1..Len(b) : t[Len(a) + 1 + q] = b[q]
    <3>1. a \in Seq(C) /\ b \in Seq(C) /\ t = a \o <<"/">> \o b
      BY <2>3, Zenon
    <3> QED
      BY <3>1, OneMore, SMT
  <2> QED
    BY <2>3, <2>4, Zenon
<1>3. \A i \in 0..n : Len(T[i]) \in Nat
  BY <1>0
<1>4. \A i \in 1..n : Len(path[i]) \in Nat
  BY <1>0
<1> DEFINE Begins(j) == \A i \in 0..j :
             Len(T[i]) <= Len(T[j]) /\ \A p \in 1..Len(T[i]) : T[j][p] = T[i][p]
           S == {j \in 0..n : Begins(j)}
<1>5. \A j \in 0..n : Begins(j)
  <2>1. S \in SUBSET Nat /\ 0 \in S
    <3>1. 0 \in 0..n /\ \A i \in 0..0 : i = 0
      BY <1>0
    <3>2. Len(T[0]) <= Len(T[0])
      BY <1>3, <3>1
    <3>3. Begins(0)
      BY <3>1, <3>2, Zenon
    <3>4. 0..n \subseteq Nat
      OBVIOUS
    <3> QED
      BY <3>1, <3>3, <3>4, Zenon
  <2>2. ASSUME NEW j \in 1..n, j - 1 \in S PROVE j \in S
    <3>1. Begins(j - 1)
      BY <2>2
    <3>2. ASSUME NEW i \in 0..j
          PROVE  Len(T[i]) <= Len(T[j]) /\ \A p \in 1..Len(T[i]) : T[j][p] = T[i][p]
      <4>1. CASE i = j
        BY <4>1, <1>3, <1>1
      <4>2. CASE i # j
        <5>1. i \in 0..(j - 1) /\ i \in 0..n
          BY <4>2, <1>0
        <5>2. Len(T[i]) <= Len(T[j - 1]) /\ \A p \in 1..Len(T[i]) : T[j - 1][p] = T[i][p]
          BY <3>1, <5>1
        <5>3. Len(T[i]) \in Nat /\ Len(T[j - 1]) \in Nat /\ Len(path[j]) \in Nat
          BY <1>1, <1>3, <1>4, <5>1
        <5>4. /\ Len(T[j]) = Len(T[j - 1]) + 1 + Len(path[j])
              /\ \A p \in 1..Len(T[j - 1]) : T[j][p] = T[j - 1][p]
          BY <1>2, Zenon
        <5>5. \A p \in 1..Len(T[i]) : p \in 1..Len(T[j - 1])
          BY <5>2, <5>3
        <5>6. Len(T[i]) <= Len(T[j])
          <6>1. \A x, y, z \in Nat : x <= y => x <= y + 1 + z
            OBVIOUS
          <6> QED
            BY <5>2, <5>3, <5>4, <6>1, Zenon
        <5>7. \A p \in 1..Len(T[i]) : T[j][p] = T[i][p]
          BY <5>2, <5>4, <5>5, Zenon
        <5> QED
          BY <5>6, <5>7
      <4> QED
        BY <4>1, <4>2
    <3> QED
      BY <1>1, <3>2, Zenon
  <2>3. \A j \in 0..n : j \in S
    <3> HIDE DEF S
    <3> QED
      BY <1>0, <2>1, <2>2, Climb, Zenon
  <2> QED
    BY <2>3
<1>6. ASSUME NEW j \in 0..n, NEW p \in 1..Len(T[j])
      PROVE  \E i \in 1..j : p > Len(T[i - 1]) /\ p <= Len(T[i])
  <2> DEFINE R == {i \in 0..j : p <= Len(T[i])}
  <2>0. Len(T[j]) \in Nat /\ Len(T[0]) = 0
    BY <1>0, <1>3
  <2>1. R \in SUBSET Nat /\ j \in R
    BY <1>0, <2>0
  <2>2. \E i \in R : \A k \in R : i =< k
    <3> HIDE DEF R
    <3> QED
      BY <2>1, LeastNat, Zenon
  <2>3. PICK i \in R : \A k \in R : i =< k
    BY <2>2, Zenon
  <2>4. i \in 1..j
    BY <2>0, <2>3
  <2>5. i - 1 \in 0..j /\ i - 1 \notin R /\ Len(T[i - 1]) \in Nat
    BY <1>0, <1>3, <2>3, <2>4
  <2> QED
    BY <2>3, <2>4, <2>5
<1> QED
  BY <1>2, <1>5, <1>6, Zenon

MarksOf(mark, n) == {mark[i] : i \in 1..n}

\* slash of Parse.
MarkAt(marks, end, k) ==
  CHOOSE i \in marks \cup {end} : Cardinality({j \in marks : j < i}) = k - 1

\* The marks that stand before the k-th of a row of marks are k - 1.
LEMMA MarksBefore ==
  ASSUME NEW n \in Nat, NEW mark \in [1..(n + 1) -> Nat],
         \A i, j \in 1..(n + 1) : i < j => mark[i] < mark[j],
         NEW k \in 1..(n + 1)
  PROVE  Cardinality({p \in {mark[i] : i \in 1..n} : p < mark[k]}) = k - 1
<1> DEFINE S == {p \in {mark[i] : i \in 1..n} : p < mark[k]}
           f == [i \in 1..(k - 1) |-> mark[i]]
<1>1. k - 1 \in Nat /\ \A i \in 1..(k - 1) : i \in 1..n /\ i \in 1..(n + 1) /\ i < k
  OBVIOUS
<1>2. \A i \in 1..n : i \in 1..(n + 1) /\ (i < k => i \in 1..(k - 1))
  OBVIOUS
<1>3. \A i \in 1..n : mark[i] < mark[k] => i < k
  <2> SUFFICES ASSUME NEW i \in 1..n, mark[i] < mark[k], ~ (i < k) PROVE FALSE
    OBVIOUS
  <2>1. i \in 1..(n + 1) /\ (i = k \/ k < i)
    OBVIOUS
  <2>2. mark[k] = mark[i] \/ mark[k] < mark[i]
    BY <2>1
  <2>3. mark[k] \in Nat /\ mark[i] \in Nat
    BY <2>1
  <2> QED
    BY <2>2, <2>3
<1>4. f \in [1..(k - 1) -> S]
  BY <1>1
<1>5. \A i, j \in 1..(k - 1) : f[i] = f[j] => i = j
  <2> SUFFICES ASSUME NEW i \in 1..(k - 1), NEW j \in 1..(k - 1), f[i] = f[j], i # j PROVE FALSE
    OBVIOUS
  <2>1. mark[i] = mark[j] /\ mark[i] \in Nat /\ mark[j] \in Nat
    BY <1>1
  <2>2. i < j \/ j < i
    OBVIOUS
  <2> QED
    BY <1>1, <2>1, <2>2
<1>6. \A p \in S : \E i \in 1..(k - 1) : f[i] = p
  <2> SUFFICES ASSUME NEW p \in S PROVE \E i \in 1..(k - 1) : f[i] = p
    OBVIOUS
  <2>1. PICK i \in 1..n : p = mark[i] /\ p < mark[k]
    OBVIOUS
  <2>2. i \in 1..(k - 1)
    BY <1>2, <1>3, <2>1
  <2> QED
    BY <2>1, <2>2
<1>7. f \in Bijection(1..(k - 1), S)
  <2> HIDE DEF f, S
  <2> QED
    BY <1>4, <1>5, <1>6, Zenon DEF Bijection, Injection, Surjection, IsInjective
<1>8. ExistsBijection(1..(k - 1), S)
  <2> HIDE DEF f, S
  <2> QED
    BY <1>7, Zenon DEF ExistsBijection
<1> QED
  <2> HIDE DEF f, S
  <2>1. Cardinality(S) = k - 1
    BY <1>1, <1>8, FS_CountingElements, Zenon
  <2> QED
    BY <2>1, Zenon DEF S

\* The k-th mark is the one that has k - 1 before it.
LEMMA MarkNumber ==
  ASSUME NEW n \in Nat, NEW mark \in [1..(n + 1) -> Nat],
         \A i, j \in 1..(n + 1) : i < j => mark[i] < mark[j],
         NEW marks, marks = MarksOf(mark, n), NEW end, end = mark[n + 1], NEW k \in 1..(n + 1)
  PROVE  MarkAt(marks, end, k) = mark[k]
<1> DEFINE Before(i) == Cardinality({j \in marks : j < i})
<1>1. \A m \in 1..(n + 1) : Before(mark[m]) = m - 1
  <2>1. marks = {mark[i] : i \in 1..n}
    BY Zenon DEF MarksOf
  <2> QED
    BY <2>1, MarksBefore, Zenon
<1>2. \A m \in 1..(n + 1) : m \in 1..n \/ m = n + 1
  OBVIOUS
<1>3. mark[k] \in marks \cup {end}
  BY <1>2, Zenon DEF MarksOf
<1>4. ASSUME NEW i \in marks \cup {end}, Before(i) = k - 1 PROVE i = mark[k]
  <2>1. n + 1 \in 1..(n + 1) /\ \A m \in 1..n : m \in 1..(n + 1)
    OBVIOUS
  <2>2. PICK m \in 1..(n + 1) : i = mark[m]
    BY <2>1, Zenon DEF MarksOf
  <2>3. m - 1 = k - 1
    BY <1>1, <1>4, <2>2, Zenon
  <2>4. m = k
    BY <2>3
  <2> QED
    BY <2>2, <2>4, Zenon
<1> HIDE DEF Before
<1>5. (CHOOSE i \in marks \cup {end} : Before(i) = k - 1) = mark[k]
  BY <1>1, <1>3, <1>4
<1> QED
  BY <1>5, Zenon DEF Before, MarkAt

\* A run of a text that agrees with b is b.
LEMMA Middle ==
  ASSUME NEW C, NEW t \in Seq(C), NEW b \in Seq(C), NEW a \in Nat, a + Len(b) <= Len(t),
         \A q \in 1..Len(b) : t[a + q] = b[q]
  PROVE  SubSeq(t, a + 1, a + Len(b)) = b
<1> DEFINE s == SubSeq(t, a + 1, a + Len(b))
           l == Len(b)
<1>1. l \in Nat /\ Len(t) \in Nat
  OBVIOUS
<1>2. (a + l) - (a + 1) + 1 = l
  BY <1>1
<1>3. \A i \in (a + 1)..(a + l) : i \in 1..Len(t)
  BY <1>1
<1>4. s = [q \in 1..((a + l) - (a + 1) + 1) |-> t[(a + 1) + q - 1]]
  OBVIOUS
<1>5. \A q \in 1..l : (a + 1) + q - 1 = a + q
  BY <1>1
<1>6. s = [q \in 1..l |-> b[q]]
  <2> HIDE DEF s
  <2> QED
    BY <1>2, <1>4, <1>5, Zenon
<1>7. b = [q \in 1..l |-> b[q]]
  OBVIOUS
<1> QED
  BY <1>6, <1>7, Zenon

\* parse reads what Display has written of a path whose segments are valid names.
LEMMA ReadBack ==
  ASSUME NEW C, "/" \in C, NEW path \in Seq(Seq(C)), \A i \in 1..Len(path) : IsValidName(path[i])
  PROVE  Parse(Display(path)) = path
<1>1. CASE path = Root
  <2>1. Display(path) = <<"/">>
    BY <1>1, Zenon DEF Display
  <2>2. <<"/">> # << >> /\ <<"/">>[1] = "/" /\ Len(<<"/">>) = 1
    OBVIOUS
  <2> QED
    BY <1>1, <2>1, <2>2, Zenon DEF Parse
<1>2. CASE path # Root
  <2> DEFINE n == Len(path)
             T == Texts(path)
             text == T[n]
             slashes == {i \in DOMAIN text : text[i] = "/"}
             slash(k) == CHOOSE i \in slashes \cup {Len(text) + 1} :
                           Cardinality({j \in slashes : j < i}) = k - 1
             segments == [k \in 1..Cardinality(slashes) |->
                            SubSeq(text, slash(k) + 1, slash(k + 1) - 1)]
  <2>0. /\ n \in Nat \ {0}
        /\ \A i \in 1..n : /\ path[i] \in Seq(C) /\ Len(path[i]) \in Nat \ {0}
                           /\ \A q \in 1..Len(path[i]) : path[i][q] # "/"
    <3>1. n \in Nat \ {0} /\ \A i \in 1..n : path[i] \in Seq(C)
      BY <1>2 DEF Root
    <3>2. ASSUME NEW i \in 1..n
          PROVE  Len(path[i]) \in Nat \ {0} /\ \A q \in 1..Len(path[i]) : path[i][q] # "/"
      <4>1. path[i] \in Seq(C) /\ path[i] # << >> /\ \A q \in DOMAIN path[i] : path[i][q] # "/"
        BY <3>1, Zenon DEF IsValidName
      <4> QED
        BY <4>1
    <3> QED
      BY <3>1, <3>2, Zenon
  <2>1. Display(path) = text
    BY <1>2, Zenon DEF Display
  <2>2. T \in [0..n -> Seq(C)] /\ T[0] = << >>
    BY TextsStep, Zenon
  <2>3. /\ \A i \in 1..n :
             /\ Len(T[i]) = Len(T[i - 1]) + 1 + Len(path[i])
             /\ T[i][Len(T[i - 1]) + 1] = "/"
             /\ \A q \in 1..Len(path[i]) : T[i][Len(T[i - 1]) + 1 + q] = path[i][q]
        /\ \A j \in 0..n : \A i \in 0..j :
             Len(T[i]) <= Len(T[j]) /\ \A p \in 1..Len(T[i]) : T[j][p] = T[i][p]
        /\ \A j \in 0..n : \A p \in 1..Len(T[j]) :
             \E i \in 1..j : p > Len(T[i - 1]) /\ p <= Len(T[i])
    BY TextsGrow, Zenon
  <2> DEFINE E(i) == Len(T[i])
             L(i) == Len(path[i])
  <2>4. text \in Seq(C) /\ n \in 0..n
    <3> HIDE DEF n, T
    <3>1. n \in 0..n
      BY <2>0
    <3> QED
      BY <2>2, <3>1, Zenon
  <2>5. /\ \A i \in 0..n : E(i) \in Nat
        /\ \A i \in 1..n : L(i) \in Nat \ {0}
        /\ \A i \in 1..n : E(i) = E(i - 1) + 1 + L(i)
        /\ \A j \in 0..n : \A i \in 0..j : E(i) <= E(j)
        /\ \A j \in 0..n : \A p \in 1..E(j) : \E i \in 1..j : p > E(i - 1) /\ p <= E(i)
        /\ E(0) = 0
    <3>1. \A i \in 0..n : E(i) \in Nat
      BY <2>2
    <3>2. Len(<< >>) = 0
      OBVIOUS
    <3> QED
      BY <2>0, <2>2, <2>3, <3>1, <3>2, Zenon
  <2>6. /\ \A i \in 1..n : T[i][E(i - 1) + 1] = "/"
        /\ \A i \in 1..n : \A q \in 1..L(i) : T[i][E(i - 1) + 1 + q] = path[i][q]
        /\ \A i \in 0..n : \A p \in 1..E(i) : text[p] = T[i][p]
        /\ \A i \in 1..n : \A q \in 1..L(i) : path[i][q] # "/"
        /\ DOMAIN text = 1..E(n) /\ Len(text) = E(n)
    <3>1. DOMAIN text = 1..Len(text)
      BY <2>4
    <3> QED
      BY <2>0, <2>3, <2>4, <3>1, Zenon
  <2> DEFINE mark == [k \in 1..(n + 1) |-> E(k - 1) + 1]
  <2> HIDE DEF T, n, E, L
  <2>7. mark \in [1..(n + 1) -> Nat] /\ mark[n + 1] = E(n) + 1 /\ mark[1] = 1
    <3>1. \A k \in 1..(n + 1) : k - 1 \in 0..n
      BY <2>0
    <3>2. n + 1 \in 1..(n + 1) /\ (n + 1) - 1 = n /\ 1 \in 1..(n + 1)
      BY <2>0
    <3> QED
      BY <2>5, <3>1, <3>2
  <2>8. \A i, j \in 1..(n + 1) : i < j => mark[i] < mark[j]
    <3> SUFFICES ASSUME NEW i \in 1..(n + 1), NEW j \in 1..(n + 1), i < j PROVE mark[i] < mark[j]
      OBVIOUS
    <3>1. i \in 1..n /\ i \in 0..(j - 1) /\ j - 1 \in 0..n /\ i - 1 \in 0..n /\ i \in 0..n
      BY <2>0
    <3>2. /\ E(i) <= E(j - 1) /\ E(i) = E(i - 1) + 1 + L(i)
          /\ E(i) \in Nat /\ E(j - 1) \in Nat /\ E(i - 1) \in Nat /\ L(i) \in Nat
      BY <2>5, <3>1, Zenon
    <3>3. E(i - 1) + 1 < E(j - 1) + 1
      BY <3>2
    <3> QED
      BY <3>3, Zenon
  <2>9. ASSUME NEW i \in 1..n, NEW p \in Nat, p > E(i - 1), p <= E(i)
        PROVE  p \in 1..E(n) /\ (text[p] = "/" <=> p = mark[i])
    <3>1. i - 1 \in 0..n /\ i \in 0..n /\ i \in 1..(n + 1)
      BY <2>0
    <3>2. /\ E(i - 1) \in Nat /\ E(i) \in Nat /\ E(n) \in Nat /\ L(i) \in Nat
          /\ E(i) <= E(n) /\ E(i) = E(i - 1) + 1 + L(i)
      BY <2>4, <2>5, <3>1, Zenon
    <3>3. p \in 1..E(i) /\ p \in 1..E(n)
      BY <3>2, <2>9
    <3>4. text[p] = T[i][p] /\ mark[i] = E(i - 1) + 1
      BY <2>6, <3>1, <3>3, Zenon
    <3>5. CASE p = mark[i]
      BY <2>6, <3>3, <3>4, <3>5, Zenon
    <3>6. CASE p # mark[i]
      <4>1. PICK q \in 1..L(i) : p = E(i - 1) + 1 + q
        <5>1. \A e, l, x \in Nat : x > e /\ x <= e + 1 + l /\ x # e + 1 =>
                \E q \in 1..l : x = e + 1 + q
          <6> SUFFICES ASSUME NEW e \in Nat, NEW l \in Nat, NEW x \in Nat,
                              x > e, x <= e + 1 + l, x # e + 1
                       PROVE  \E q \in 1..l : x = e + 1 + q
            OBVIOUS
          <6>1. x - e - 1 \in 1..l /\ x = e + 1 + (x - e - 1)
            OBVIOUS
          <6> QED
            BY <6>1
        <5>2. p <= E(i - 1) + 1 + L(i) /\ p # E(i - 1) + 1
          BY <2>9, <3>2, <3>4, <3>6, Zenon
        <5> QED
          BY <2>9, <3>2, <5>1, <5>2, Zenon
      <4>2. text[p] = path[i][q] /\ path[i][q] # "/"
        BY <2>6, <3>4, <4>1, Zenon
      <4> QED
        BY <3>3, <3>6, <4>2, Zenon
    <3> QED
      BY <3>5, <3>6
  <2>10. slashes = {mark[i] : i \in 1..n}
    <3>1. ASSUME NEW p \in slashes PROVE p \in {mark[i] : i \in 1..n}
      <4>1. p \in 1..E(n) /\ text[p] = "/"
        BY <2>6, Zenon
      <4>2. PICK i \in 1..n : p > E(i - 1) /\ p <= E(i)
        BY <2>4, <2>5, <4>1, Zenon
      <4>3. p \in Nat
        BY <4>1
      <4>4. p = mark[i]
        BY <2>9, <4>1, <4>2, <4>3, Zenon
      <4> QED
        BY <4>4, Zenon
    <3>2. ASSUME NEW i \in 1..n PROVE mark[i] \in slashes
      <4>1. i - 1 \in 0..n /\ i \in 0..n /\ i \in 1..(n + 1)
        BY <2>0
      <4>2. mark[i] = E(i - 1) + 1
        BY <4>1, Zenon
      <4>3. E(i) = E(i - 1) + 1 + L(i) /\ E(i - 1) \in Nat /\ L(i) \in Nat
        BY <2>5, <4>1, Zenon
      <4>4. mark[i] \in Nat /\ mark[i] > E(i - 1) /\ mark[i] <= E(i)
        <5>1. E(i - 1) + 1 \in Nat /\ E(i - 1) + 1 > E(i - 1) /\ E(i - 1) + 1 <= E(i)
          BY <4>3
        <5> QED
          BY <4>2, <5>1, Zenon
      <4> QED
        BY <2>6, <2>9, <4>4, Zenon
    <3> QED
      BY <3>1, <3>2, Zenon
  <2> HIDE DEF mark, slashes
  <2>11. \A k \in 1..(n + 1) : slash(k) = mark[k]
    <3>1. Len(text) + 1 = mark[n + 1] /\ n \in Nat
      BY <2>0, <2>6, <2>7, Zenon
    <3>2. ASSUME NEW k \in 1..(n + 1) PROVE MarkAt(slashes, Len(text) + 1, k) = mark[k]
      <4>1. slashes = MarksOf(mark, n)
        BY <2>10, Zenon DEF MarksOf
      <4> QED
        BY <2>7, <2>8, <3>1, <3>2, <4>1, MarkNumber, Zenon
    <3> QED
      BY <3>2, Zenon DEF MarkAt
  <2>12. Cardinality(slashes) = n
    <3>1. n + 1 \in 1..(n + 1) /\ (n + 1) - 1 = n /\ n \in Nat
      BY <2>0
    <3>2. Cardinality({p \in slashes : p < mark[n + 1]}) = n
      BY <2>7, <2>8, <2>10, <3>1, MarksBefore, Zenon
    <3>3. \A i \in 1..n : i \in 1..(n + 1) /\ i < n + 1
      BY <2>0
    <3>4. \A p \in slashes : p < mark[n + 1]
      BY <2>8, <2>10, <3>1, <3>3, Zenon
    <3>5. {p \in slashes : p < mark[n + 1]} = slashes
      BY <3>4, Zenon
    <3> QED
      BY <3>2, <3>5, Zenon
  <2>13. ASSUME NEW k \in 1..n PROVE SubSeq(text, slash(k) + 1, slash(k + 1) - 1) = path[k]
    <3>1. k \in 1..(n + 1) /\ k + 1 \in 1..(n + 1) /\ (k + 1) - 1 = k /\ k - 1 \in 0..n /\ k \in 0..n
      BY <2>0
    <3>2. /\ E(k - 1) \in Nat /\ E(k) \in Nat /\ L(k) \in Nat
          /\ E(k) = E(k - 1) + 1 + L(k) /\ E(k) <= Len(text)
      BY <2>4, <2>5, <2>6, <3>1, Zenon
    <3>3. mark[k] = E(k - 1) + 1 /\ mark[k + 1] = E(k) + 1
      BY <3>1, Zenon DEF mark
    <3>4. mark[k + 1] - 1 = mark[k] + L(k) /\ mark[k] \in Nat
      BY <3>2, <3>3
    <3>5. \A q \in 1..L(k) : text[mark[k] + q] = path[k][q]
      <4>1. \A q \in 1..L(k) : E(k - 1) + 1 + q \in 1..E(k)
        BY <3>2
      <4> QED
        BY <2>6, <3>1, <3>3, <4>1, ZenonT(30)
    <3>6. mark[k] + L(k) <= Len(text)
      BY <3>2, <3>3
    <3>7. SubSeq(text, mark[k] + 1, mark[k] + L(k)) = path[k]
      BY <2>0, <2>4, <3>4, <3>5, <3>6, Middle, Zenon DEF L
    <3> QED
      BY <2>11, <3>1, <3>4, <3>7, Zenon
  <2>14. segments = path
    <3>1. path = [k \in 1..n |-> path[k]]
      BY DEF n
    <3>2. segments = [k \in 1..n |-> path[k]]
      <4> HIDE DEF slash
      <4> QED
        BY <2>12, <2>13, Zenon
    <3> QED
      BY <3>1, <3>2, Zenon
  <2>15. text # << >> /\ text[1] = "/" /\ Len(text) # 1
    <3>1. 1 \in 1..n /\ 1 \in 0..n /\ 1 - 1 = 0
      BY <2>0
    <3>2. E(1) = 0 + 1 + L(1) /\ L(1) \in Nat \ {0} /\ E(1) <= E(n) /\ E(n) \in Nat /\ E(1) \in Nat
      BY <2>4, <2>5, <3>1, Zenon
    <3>3. E(n) # 0 /\ E(n) # 1
      BY <3>2
    <3>4. mark[1] \in slashes
      BY <2>10, <3>1, Zenon
    <3>5. text[1] = "/"
      BY <2>7, <3>4, Zenon DEF slashes
    <3>6. Len(<< >>) = 0
      OBVIOUS
    <3> QED
      BY <2>6, <3>3, <3>5, <3>6, Zenon
  <2>16. \A k \in DOMAIN segments : segments[k] # << >>
    <3>1. DOMAIN path = 1..n
      BY DEF n
    <3>2. \A k \in 1..n : path[k] # << >>
      BY Zenon DEF IsValidName, n
    <3> HIDE DEF segments
    <3> QED
      BY <2>14, <3>1, <3>2, Zenon
  <2>17. Parse(text) = IF text = << >> \/ text[1] # "/" THEN Invalid
                       ELSE IF Len(text) = 1 THEN Root
                       ELSE IF \E k \in DOMAIN segments : segments[k] = << >> THEN Invalid
                       ELSE segments
    BY Zenon DEF Parse, slashes
  <2> HIDE DEF segments, text
  <2> QED
    BY <2>1, <2>14, <2>15, <2>16, <2>17, Zenon
<1> QED
  BY <1>1, <1>2

(* The invariant: every segment of a path is a valid name, but for the id of a    *)
(* shard, which address_of takes as it is.                                        *)

Readable(path) ==
  \A i \in 1..Len(path) :
    \/ IsValidName(path[i])
    \/ i = 4 /\ path[1] = SYSTEM /\ path[2] = SHARD /\ Placed(path[3], path[4]) \in Placements

ReadInv == \A n \in Node : \A r \in live[n] : Readable(r.path)

\* Shard::TYPE is the name of a segment.  It is a constant of the application, which
\* the code does not look at.
TypesAreNames == \A t \in ShardType : IsValidName(TypeName[t])

\* A path that is made is readable when what it is made from is.
LEMMA ReadNext ==
  ASSUME TypesAreNames, RouteInv, ReadInv, [RoutingNext]_routingVars
  PROVE  ReadInv'
<1> SUFFICES ASSUME NEW n \in Node, NEW row \in live'[n] PROVE Readable(row.path)
  BY Zenon DEF ReadInv
<1>0. AppName \subseteq Segment /\ \A r \in live[n] : r.path \in Seq(Segment)
  BY RoutingAssumption, RowPath, Zenon DEF Segment, RouteInv
<1>1. MadeFrom(row.path, live[n])
  BY PathStep, Zenon
<1>2. ASSUME NEW d \in Entities, IsValidName(Spelling[d.entity]) PROVE Readable(AddressOf(d))
  <2> DEFINE at == AddressOf(d)
  <2>1. /\ Len(at) = 5 /\ at[1] = SYSTEM /\ at[2] = SHARD /\ at[3] = TypeName[d.type]
        /\ at[4] = Spelling[d.shard] /\ at[5] = Spelling[d.entity]
    BY AddressParts, Zenon
  <2>2. IsValidName(SYSTEM) /\ IsValidName(SHARD)
    BY DEF IsValidName, SYSTEM, SHARD
  <2>3. d.type \in ShardType
    BY EntityTyped, Zenon
  <2>4. IsValidName(TypeName[d.type])
    BY <2>3, Zenon DEF TypesAreNames
  <2>5. Placed(at[3], at[4]) \in Placements
    BY <2>1, Zenon DEF Placements, PlacedOf
  <2> HIDE DEF at
  <2>6. \A i \in 1..Len(at) : i = 1 \/ i = 2 \/ i = 3 \/ i = 4 \/ i = 5
    BY <2>1
  <2>7. Readable(at)
    BY <1>2, <2>1, <2>2, <2>4, <2>5, <2>6, Zenon DEF Readable
  <2> QED
    BY <2>7, Zenon DEF at
<1>3. ASSUME NEW name \in AppName, NEW parent \in {Root} \cup {q.path : q \in live[n]},
             IsValidName(name)
      PROVE  Readable(Append(parent, name))
  <2> DEFINE path == Append(parent, name)
  <2>1. parent \in Seq(Segment) /\ Readable(parent)
    <3>1. Root \in Seq(Segment) /\ Readable(Root)
      BY DEF Root, Readable
    <3> QED
      BY <1>0, <3>1, Zenon DEF ReadInv
  <2>2. /\ Len(path) = Len(parent) + 1 /\ path[Len(parent) + 1] = name
        /\ \A i \in 1..Len(parent) : path[i] = parent[i]
    BY <1>0, <2>1
  <2> HIDE DEF path
  <2>3. \A i \in 1..Len(path) : i \in 1..Len(parent) \/ i = Len(parent) + 1
    BY <2>1, <2>2
  <2>4. 4 \in 1..Len(parent) => \A i \in 1..4 : i \in 1..Len(parent)
    BY <2>1
  <2>5. 1 \in 1..4 /\ 2 \in 1..4 /\ 3 \in 1..4 /\ 4 \in 1..4
    OBVIOUS
  <2>6. Readable(path)
    BY <1>3, <2>1, <2>2, <2>3, <2>4, <2>5, Zenon DEF Readable
  <2> QED
    BY <2>6, Zenon DEF path
<1> QED
  BY <1>1, <1>2, <1>3, Zenon DEF MadeFrom, ReadInv

\* What Display writes of a row's path, parse reads back as that path, unless the
\* path is under a shard whose id is not the name of a segment: for any types, any
\* names of an application and any commands, when each Shard::TYPE is a name.
THEOREM PathsAreReadOneWay == TypesAreNames /\ RoutingSpec => []OneReading
<1>1. ASSUME RoutingInit PROVE ReadInv
  BY <1>1 DEF RoutingInit, ReadInv
<1>2. ASSUME TypesAreNames, RouteInv, ReadInv, [RoutingNext]_routingVars PROVE ReadInv'
  BY <1>2, ReadNext
<1>3. ASSUME RouteInv, ReadInv PROVE OneReading
  <2> DEFINE Char == STRING \cup {"/", "system", "shard"}
  <2> SUFFICES ASSUME NEW n \in Node, NEW r \in live[n],
                      ShardRootOf(r.path) # None => IsValidName(ShardRootOf(r.path).shard_id)
               PROVE  Parse(Display(r.path)) = r.path
    BY Zenon DEF OneReading
  <2>1. r.path \in Seq(Segment) /\ Readable(r.path)
    BY <1>3, RowPath, Zenon DEF RouteInv, ReadInv
  <2>2. r.path \in Seq(Seq(Char))
    <3>1. SYSTEM \in Seq(Char) /\ SHARD \in Seq(Char)
      BY DEF SYSTEM, SHARD
    <3>2. Seq(STRING) \subseteq Seq(Char)
      OBVIOUS
    <3>3. Segment \subseteq Seq(Char)
      BY <3>1, <3>2, Zenon DEF Segment
    <3> HIDE DEF Char
    <3> QED
      BY <2>1, <3>3
  <2>3. ASSUME NEW i \in 1..Len(r.path) PROVE IsValidName(r.path[i])
    <3>1. CASE i = 4 /\ r.path[1] = SYSTEM /\ r.path[2] = SHARD
               /\ Placed(r.path[3], r.path[4]) \in Placements
      <4>1. Len(r.path) >= 4
        BY <2>1, <3>1
      <4>2. ShardRootOf(r.path) = Placed(r.path[3], r.path[4])
        BY <3>1, <4>1, Zenon DEF ShardRootOf
      <4>3. None \notin Placements
        <5>1. Placements \subseteq [type_name : Seq(STRING), shard_id : Seq(STRING)]
          BY EntityTyped DEF Placements, PlacedOf, Placed
        <5> QED
          BY <5>1, RoutingAssumption
      <4>4. Placed(r.path[3], r.path[4]).shard_id = r.path[4]
        BY DEF Placed
      <4> QED
        BY <3>1, <4>2, <4>3, <4>4, Zenon
    <3> QED
      BY <2>1, <3>1, Zenon DEF Readable
  <2>4. "/" \in Char
    OBVIOUS
  <2> HIDE DEF Char
  <2> QED
    BY <2>2, <2>3, <2>4, ReadBack, Zenon
<1>4. TypesAreNames => TypesAreNames'
  BY DEF TypesAreNames, IsValidName
<1> QED
  BY <1>1, <1>2, <1>3, <1>4, RouteInvariance, PTL DEF RoutingSpec

=============================================================================
