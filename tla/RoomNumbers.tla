----------------------------- MODULE RoomNumbers ------------------------------
(***************************************************************************)
(* The numbers under which pair rooms are listed (pair-rooms.ts): a        *)
(* counter of the store gives every new room its number, and rows an older *)
(* version of the program left without one, or with one twice, are         *)
(* renumbered whenever rooms are read.  Requests to create a room overlap  *)
(* between their awaits, also two with the same key; each writes back the  *)
(* copy of the row it made or found.                                       *)
(***************************************************************************)
EXTENDS Integers, FiniteSets

CONSTANTS Rooms,        \* room ids, in the order of createdAt and id
          Creators,     \* requests to create a room
          OldNumbers,   \* what an older version may have left as a number or the counter
          MaxNumber     \* bound: numbers drawn

ASSUME RoomNumbersAssumption ==
    /\ Rooms \subseteq Nat \ {0} /\ IsFiniteSet(Rooms) /\ MaxNumber \in Nat
    /\ OldNumbers \subseteq Nat /\ \E n \in OldNumbers : \A m \in OldNumbers : m <= n

VARIABLES number,    \* pair-rooms: the number of a stored room, 0 without one
          listed,    \* the rooms that are stored
          sequence,  \* the counter pair-room-sequence
          creation,  \* create of each request: its room and the copy it holds
          shown      \* every number a room was shown with

roomVars == <<number, listed, sequence, creation, shown>>

NoCreation == [pc |-> "idle", room |-> 0, prior |-> FALSE, copy |-> 0]

RoomNumbersTypeOK ==
    /\ number \in [Rooms -> Nat] /\ listed \subseteq Rooms /\ sequence \in Nat
    /\ \A h \in Creators : /\ creation[h].pc \in {"idle", "funded", "writing"}
                           /\ creation[h].room \in Rooms \cup {0}
    /\ shown \subseteq Rooms \X (Nat \ {0})

-----------------------------------------------------------------------------
(* The first room with a number keeps it; the others are numbered anew. *)
Keeps(room) ==
    /\ number[room] > 0
    /\ \A other \in listed : other < room => number[other] # number[room]

Highest == CHOOSE n \in {0} \cup {number[r] : r \in listed} :
               \A r \in listed : number[r] <= n

(* Mutant of Base: the counter goes on from where it was. *)
BaseUnraised == sequence
(* The counter is raised to the highest number in use before it is drawn from. *)
Base == IF sequence < Highest THEN Highest ELSE sequence

Unnumbered == {r \in listed : ~Keeps(r)}

Renumbered == [r \in Rooms |->
    IF r \in Unnumbered THEN Base + Cardinality({u \in Unnumbered : u <= r}) ELSE number[r]]

(* list, get, and whatever else reads a room. *)
EnsureRoomNumbers ==
    /\ number' = Renumbered
    /\ sequence' = Base + Cardinality(Unnumbered)
    /\ shown' = shown \cup {<<r, Renumbered[r]>> : r \in listed}

ListRooms ==
    /\ Base + Cardinality(Unnumbered) <= MaxNumber
    /\ EnsureRoomNumbers
    /\ UNCHANGED <<listed, creation>>

(* create up to the balance it awaits: a room that is stored is taken as it is, *)
(* and returned at once, as by get, when it is past PENDING.                    *)
BeginCreation(h, r) ==
    /\ creation[h] = NoCreation
    /\ EnsureRoomNumbers
    /\ creation' = [creation EXCEPT ![h] =
                      [pc |-> "funded", room |-> r, prior |-> r \in listed, copy |-> Renumbered[r]]]
    /\ UNCHANGED listed

(* putIfAbsent: a row that came first is the one that counts. *)
Persisted(h, drawn) ==
    IF creation[h].room \in listed THEN number[creation[h].room] ELSE drawn

(* A new room draws its number before its row is stored. *)
PersistRoom(h) ==
    LET drawn == IF creation[h].prior THEN creation[h].copy ELSE sequence + 1
        room == creation[h].room
    IN  /\ creation[h].pc = "funded" /\ sequence < MaxNumber
        /\ sequence' = IF creation[h].prior THEN sequence ELSE sequence + 1
        /\ listed' = listed \cup {room}
        /\ number' = [number EXCEPT ![room] = IF room \in listed THEN @ ELSE drawn]
        /\ creation' = [creation EXCEPT ![h].pc = "writing", ![h].copy = Persisted(h, drawn)]
        /\ UNCHANGED shown

(* The transaction's hash, and then the state OPEN, are written with the copy. *)
WriteRoom(h) ==
    /\ creation[h].pc = "writing"
    /\ number' = [number EXCEPT ![creation[h].room] = creation[h].copy]
    /\ \E again \in BOOLEAN :
          creation' = IF again THEN creation ELSE [creation EXCEPT ![h] = NoCreation]
    /\ shown' = shown \cup {<<creation[h].room, creation[h].copy>>}
    /\ UNCHANGED <<listed, sequence>>

(* A request fails at one of its awaits. *)
CreationFails(h) ==
    /\ creation[h] # NoCreation
    /\ creation' = [creation EXCEPT ![h] = NoCreation]
    /\ UNCHANGED <<number, listed, sequence, shown>>

(* The constructor numbers what an older version left before anything is read. *)
RoomNumbersInit ==
    /\ listed \in SUBSET Rooms
    /\ number \in {n \in [Rooms -> OldNumbers \cup {0}] : \A r \in Rooms \ listed : n[r] = 0}
    /\ sequence \in OldNumbers \cup {0}
    /\ creation = [h \in Creators |-> NoCreation]
    /\ shown = {}

CreationStep(h) ==
    \/ \E r \in Rooms : BeginCreation(h, r)
    \/ PersistRoom(h) \/ WriteRoom(h) \/ CreationFails(h)

RoomNumbersNext == ListRooms \/ \E h \in Creators : CreationStep(h)

-----------------------------------------------------------------------------
(* Properties. *)

\* However requests for rooms overlap, repeat and fail, a room is shown with one number and
\* a number with one room, also when the rows began with numbers missing or taken twice.
NumbersKept ==
    /\ RoomNumbersTypeOK
    /\ \A p, q \in shown : (p[1] = q[1]) <=> (p[2] = q[2])
=============================================================================
