------------------------------ MODULE Routing -------------------------------
(***************************************************************************)
(* From a command to the actor it names: the grammar of paths (path.rs)    *)
(* and of shard addresses (shard.rs), the registration of shard types, and *)
(* the two ways a command comes to its actor, from this node and from      *)
(* another one (system.rs).                                                *)
(*                                                                         *)
(* A name is a sequence of characters, since what is at stake is how names *)
(* are spelled; an id is a value, and two of them may be spelled alike.    *)
(* Who owns a shard is a variable that moves; how it is computed is        *)
(* Placement's, when nodes learn of it is Shards', and quorum is           *)
(* Hosting's.  An actor is its row; how it ends is Registry's.             *)
(***************************************************************************)
EXTENDS Cluster, Naturals, Sequences, FiniteSets, Functions

CONSTANTS
  ShardType,   \* types that implement Shard, each with a Command of its own
  TypeName,    \* Shard::TYPE of each
  Startup,     \* the order in which each node registers them
  Id,          \* the values of the ShardId and EntityId types
  Spelling,    \* how each is spelled (Display)
  Command,     \* what is told
  TypeOf,      \* the shard type whose command each is
  Reads,       \* <<s, c>> |-> the ids that s's extractors find in c, if s can decode c
  AppName,     \* names that applications give to actors of their own
  MaxRows,     \* bounds the actors on each node
  MaxNet       \* bounds the envelopes under way

\* EntityContext: what names an actor.
Address == [type : ShardType, shard : Id, entity : Id]

ASSUME RoutingAssumption ==
  /\ MaxRows \in [Node -> Nat] /\ MaxNet \in Nat
  /\ None \notin ShardType \cup [type_name : Seq(STRING), shard_id : Seq(STRING)]
  /\ TypeName \in [ShardType -> Seq(STRING)] /\ AppName \subseteq Seq(STRING)
  /\ Startup \in [Node -> Seq(ShardType)]
  /\ Spelling \in [Id -> Seq(STRING)]
  /\ TypeOf \in [Command -> ShardType]
  /\ DOMAIN Reads \subseteq ShardType \X Command
  /\ \A c \in Command : <<TypeOf[c], c>> \in DOMAIN Reads
  /\ \A p \in DOMAIN Reads : Reads[p] \in Address /\ Reads[p].type = p[1]

VARIABLES
  shards,      \* SystemInner::shards: the type registered under each name
  wires,       \* SystemInner::wires: the types whose commands can be encoded
  refused,     \* history: the types for which register answered TypeCollision
  live,        \* SystemInner::live
  owner,       \* placement: the node that owns each shard
  dirty,       \* the live set has changed since watch_placement last looked
  sweep,       \* what is left of a release_vacated_shards
  envelopes    \* envelopes under way

registered == <<shards, wires, refused>>
placement == <<owner, dirty>>
routingVars == <<registered, live, placement, sweep, envelopes>>

----------------------------------------------------------------------------
(* Paths *)

SYSTEM == <<"system">>
SHARD == <<"shard">>
Root == << >>

\* Mutant: any name that is not empty will do.
IsValidName_NotEmpty(name) == name # << >>

\* is_valid_name: a name that is one segment of a path.
IsValidName(name) == name # << >> /\ \A i \in DOMAIN name : name[i] # "/"

\* Display: every segment behind a separator.  Texts has what is written after so
\* many segments.
Texts(path) ==
  LET text[i \in 0..Len(path)] == IF i = 0 THEN << >> ELSE text[i - 1] \o <<"/">> \o path[i]
  IN text
Display(path) == IF path = Root THEN <<"/">> ELSE Texts(path)[Len(path)]

\* parse: what stands between the separators; Invalid unless the text starts with
\* one and no segment is empty.
Invalid == <<None>>
Parse(text) ==
  LET slashes == {i \in DOMAIN text : text[i] = "/"}
      before(i) == {j \in slashes : j < i}
      slash(k) == CHOOSE i \in slashes \cup {Len(text) + 1} : Cardinality(before(i)) = k - 1
      segments == [k \in 1..Cardinality(slashes) |->
                     SubSeq(text, slash(k) + 1, slash(k + 1) - 1)]
  IN IF text = << >> \/ text[1] # "/" THEN Invalid
     ELSE IF Len(text) = 1 THEN Root
     ELSE IF \E k \in DOMAIN segments : segments[k] = << >> THEN Invalid
     ELSE segments

\* Mutant: one path is under another if its text is.
StartsWith_Text(path, prefix) ==
  LET text == Display(path)
      start == Display(prefix)
  IN Len(start) <= Len(text) /\ SubSeq(text, 1, Len(start)) = start

\* starts_with compares segments.
StartsWith(path, prefix) ==
  Len(prefix) <= Len(path) /\ \A i \in DOMAIN prefix : prefix[i] = path[i]

----------------------------------------------------------------------------
(* Shard addresses *)

\* The actors that commands may name.
Entities == Range(Reads)

\* PlacedShard: a shard is known by the name of its type and its own.
Placed(type_name, shard_id) == [type_name |-> type_name, shard_id |-> shard_id]
PlacedOf(e) == Placed(TypeName[e.type], Spelling[e.shard])
Placements == {PlacedOf(e) : e \in Entities}

RegionOf(type_name) == <<SYSTEM, SHARD, type_name>>
RootOf(placed) == Append(RegionOf(placed.type_name), placed.shard_id)

\* context_of: what the extractors of s answer for a command that s has decoded.
ContextOf(s, c) == Reads[<<s, c>>]

\* Mutant: an address without its shard.
AddressOf_NoShard(e) == Append(RegionOf(TypeName[e.type]), Spelling[e.entity])

\* address_of: the ids as text.
AddressOf(e) == RegionOf(TypeName[e.type]) \o <<Spelling[e.shard], Spelling[e.entity]>>

\* shard_root_of: the shard in a path, from its root down.
ShardRootOf(path) ==
  IF Len(path) >= 4 /\ path[1] = SYSTEM /\ path[2] = SHARD
  THEN Placed(path[3], path[4]) ELSE None

----------------------------------------------------------------------------
RoutingInit ==
  /\ shards = [n \in Node |-> [t \in Range(TypeName) |-> None]]
  /\ wires = [n \in Node |-> {}]
  /\ refused = [n \in Node |-> {}]
  /\ live = [n \in Node |-> {}]
  /\ owner \in [Placements -> Node]
  /\ dirty = [n \in Node |-> FALSE]
  /\ sweep = [n \in Node |-> {}]
  /\ envelopes = {}

\* register has answered for s.
Tried(n, s) == s \in refused[n] \/ shards[n][TypeName[s]] = s

\* register, its first half: the wire format is recorded (record_wire).  A node
\* registers one type after the other.
RecordWire(n, i) ==
  /\ \A j \in 1..(i - 1) : Tried(n, Startup[n][j])
  /\ Startup[n][i] \notin wires[n]
  /\ wires' = [wires EXCEPT ![n] = @ \cup {Startup[n][i]}]
  /\ UNCHANGED <<shards, refused, live, placement, sweep, envelopes>>

\* Mutant: a second type under one name takes the place of the first.
Register_Replaces(n, s) ==
  /\ ~Tried(n, s)
  /\ shards' = [shards EXCEPT ![n][TypeName[s]] = s]
  /\ UNCHANGED <<wires, refused, live, placement, sweep, envelopes>>

\* Its second half: a name that is taken is refused, and the wire format stays.
Register(n, s) ==
  /\ ~Tried(n, s)
  /\ IF shards[n][TypeName[s]] = None
     THEN shards' = [shards EXCEPT ![n][TypeName[s]] = s] /\ UNCHANGED refused
     ELSE refused' = [refused EXCEPT ![n] = @ \cup {s}] /\ UNCHANGED shards
  /\ UNCHANGED <<wires, live, placement, sweep, envelopes>>

----------------------------------------------------------------------------
(* The registry *)

RowsAt(n, path) == {r \in live[n] : r.path = path}

\* resolve: an actor of another command type is not found.
Resolve(n, path, type) == {r \in RowsAt(n, path) : r.type = type}

\* get_or_create starts an actor: the name is checked, and the path is free.
MayCreate(n, path) == IsValidName(path[Len(path)]) /\ RowsAt(n, path) = {}

\* The bounds: on the rows of a node, and on the network.
Room(n) == Cardinality(live[n]) < MaxRows[n]
NetRoom == Cardinality(envelopes) < MaxNet

\* A row of a shard actor says which actor the recipe was asked to build, and the
\* command it was sent last.
Row(path, type, entity, last) ==
  [path |-> path, type |-> type, entity |-> entity, last |-> last]

\* The rows once the command `sent`, which names the actor e, has come to its
\* address: to the actor there, or to one built from the recipe of its type
\* (start_shard_actor and build_shard_actor; the second half of a Receive).  When
\* there can be none the caller is told and nothing changes.
Reached(n, e, sent) ==
  LET at == AddressOf(e)
      found == Resolve(n, at, e.type)
  IN IF found # {}
     THEN {IF r \in found THEN [r EXCEPT !.last = sent] ELSE r : r \in live[n]}
     ELSE IF shards[n][TypeName[e.type]] = e.type /\ MayCreate(n, at)
     THEN live[n] \cup {Row(at, e.type, e, sent)}
     ELSE live[n]

\* actor_of: an application's own actors, at the top or under another actor.
ActorOf(n, parent, name) ==
  /\ Room(n)
  /\ MayCreate(n, Append(parent, name))
  /\ live' = [live EXCEPT ![n] = @ \cup {Row(Append(parent, name), None, None, None)}]
  /\ UNCHANGED <<registered, placement, sweep, envelopes>>

\* stop_at: the actor at a path and everything under it.
Under(n, path) == {r \in live[n] : StartsWith(r.path, path)}

Stop(n, path) ==
  /\ live' = [live EXCEPT ![n] = @ \ Under(n, path)]
  /\ UNCHANGED <<registered, placement, sweep, envelopes>>

----------------------------------------------------------------------------
(* Commands *)

Named(c) == ContextOf(TypeOf[c], c)
HostOf(c) == owner[PlacedOf(Named(c))]

\* deliver_to_shard on the node that owns the shard.
TellHere(n, c) ==
  /\ HostOf(c) = n
  /\ Room(n)
  /\ live' = [live EXCEPT ![n] = Reached(n, Named(c), c)]
  /\ UNCHANGED <<registered, placement, sweep, envelopes>>

\* On any other node: the command is encoded, if its type has a wire format, and
\* sent under the name of its type.
TellAway(n, c) ==
  /\ HostOf(c) # n /\ NetRoom
  /\ TypeOf[c] \in wires[n]
  /\ envelopes' = envelopes \cup
       {[to |-> HostOf(c), type_name |-> TypeName[TypeOf[c]], cmd |-> c]}
  /\ UNCHANGED <<registered, live, placement, sweep>>

\* dispatch: the type registered here under the name decodes the payload, and the
\* command finds its actor by the ids that type then extracts.
Receive(m) ==
  /\ Room(m.to)
  /\ envelopes' = envelopes \ {m}
  /\ LET s == shards[m.to][m.type_name]
     IN live' = IF <<s, m.cmd>> \in DOMAIN Reads
                THEN [live EXCEPT ![m.to] = Reached(m.to, ContextOf(s, m.cmd), m.cmd)]
                ELSE live
  /\ UNCHANGED <<registered, placement, sweep>>

----------------------------------------------------------------------------
(* The sweep *)

\* The live set changes, and a shard has another owner.
MoveShard(placed, to) ==
  /\ to # owner[placed]
  /\ owner' = [owner EXCEPT ![placed] = to]
  /\ dirty' = [n \in Node |-> TRUE]
  /\ UNCHANGED <<registered, live, sweep, envelopes>>

\* watch_placement wakes, and release_vacated_shards reads the registry.
Scan(n) ==
  /\ dirty[n] /\ sweep[n] = {}
  /\ dirty' = [dirty EXCEPT ![n] = FALSE]
  /\ sweep' = [sweep EXCEPT ![n] = {ShardRootOf(r.path) : r \in live[n]} \ {None}]
  /\ UNCHANGED <<registered, live, owner, envelopes>>

\* One shard of the scan: it stops, from its root down, unless this node owns it.
Release(n, placed) ==
  /\ sweep' = [sweep EXCEPT ![n] = @ \ {placed}]
  /\ live' = IF owner[placed] = n THEN live
             ELSE [live EXCEPT ![n] = @ \ Under(n, RootOf(placed))]
  /\ UNCHANGED <<registered, placement, envelopes>>

RoutingNext ==
  \/ \E n \in Node : \E i \in DOMAIN Startup[n] : RecordWire(n, i)
  \/ \E n \in Node : \E s \in wires[n] : Register(n, s)
  \/ \E n \in Node : Scan(n)
  \/ \E n \in Node, c \in Command : TellHere(n, c) \/ TellAway(n, c)
  \/ \E m \in envelopes : Receive(m)
  \/ \E n \in Node, name \in AppName :
       \E parent \in {Root} \cup {r.path : r \in live[n]} : ActorOf(n, parent, name)
  \/ \E n \in Node : \E r \in live[n] : Stop(n, r.path)
  \/ \E placed \in Placements, to \in Node : MoveShard(placed, to)
  \/ \E n \in Node : \E placed \in sweep[n] : Release(n, placed)

RoutingSpec == RoutingInit /\ [][RoutingNext]_routingVars

----------------------------------------------------------------------------
(* Properties *)

\* A segment of a path: a name, or one of the two constants of shard.rs.
Segment == Seq(STRING) \cup {SYSTEM, SHARD}

ShardRow == [path : Seq(Segment), type : ShardType, entity : Address, last : Command]
AppRow == [path : Seq(Segment), type : {None}, entity : {None}, last : {None}]

\* The variables have their types, and the registry is a map: a path has one row
\* (get_or_create, under the lock on `live`).
RoutingTypeOK ==
  /\ shards \in [Node -> [Range(TypeName) -> ShardType \cup {None}]]
  /\ wires \in [Node -> SUBSET ShardType] /\ refused \in [Node -> SUBSET ShardType]
  /\ \A n \in Node : \A r \in live[n] :
       (r \in ShardRow \/ r \in AppRow) /\ RowsAt(n, r.path) = {r}
  /\ owner \in [Placements -> Node] /\ dirty \in [Node -> BOOLEAN]
  /\ sweep \in [Node -> SUBSET Placements]
  /\ envelopes \subseteq [to : Node, type_name : Range(TypeName), cmd : Command]

\* An actor is handed only what its own type can decode, and then it stands for the
\* shard and the entity that its type's extractors read out of the command, as they
\* are spelled, whether the command was told on that node or came from another
\* (start_shard_actor and register's receive: "the two directions cannot place one
\* command differently").
RightActor ==
  \A n \in Node : \A r \in live[n] : r.entity # None =>
    LET named == ContextOf(r.type, r.last)
    IN /\ <<r.type, r.last>> \in DOMAIN Reads
       /\ Spelling[named.shard] = Spelling[r.entity.shard]
       /\ Spelling[named.entity] = Spelling[r.entity.entity]

\* "Two commands naming one entity are filed under one key, and one naming another
\* is not" (one_entity_is_one_address): the ids themselves are those the actor was
\* built for.  It fails where two ids are spelled alike.
OwnActor ==
  \A n \in Node : \A r \in live[n] : r.entity # None => ContextOf(r.type, r.last) = r.entity

\* An actor is handed a command that was told as another shard type's only where
\* two types have one name, and then the actor's node has refused the other type,
\* or has yet to register it: register records the wire format of a type that it
\* may go on to refuse, so its commands can leave a node, and are read at the
\* other end by the type that has the name there.
ForeignMeansRefused ==
  \A n \in Node : \A r \in live[n] : r.entity # None =>
    LET told == TypeOf[r.last]
    IN told # r.type => /\ TypeName[told] = TypeName[r.type]
                        /\ Tried(n, told) => told \in refused[n]

\* The text of a row's path can be read in one way (is_valid_name, parse, Display),
\* except under a shard whose id is not the name of a segment, which address_of
\* does not look at.
OneReading ==
  \A n \in Node : \A r \in live[n] :
    LET shard == ShardRootOf(r.path)
    IN (shard # None => IsValidName(shard.shard_id)) => Parse(Display(r.path)) = r.path

\* The actors of a shard: those that stand at the address of one of its entities,
\* or below such an address.
RowsOf(n, placed) ==
  {r \in live[n] : \E e \in Entities :
     /\ PlacedOf(e) = placed
     /\ Len(r.path) >= 5 /\ SubSeq(r.path, 1, 5) = AddressOf(e)}

\* A step of the sweep stops every actor of one shard and no other one, be its id
\* a beginning of another shard's, and only when the node does not own the shard
\* (release_vacated_shards: shard_root_of, root and starts_with agree).
SweepExact ==
  [][\A n \in Node : \A placed \in sweep[n] \ sweep'[n] :
       live[n] \ live'[n] = IF owner[placed] = n THEN {} ELSE RowsOf(n, placed)]_routingVars

=============================================================================
