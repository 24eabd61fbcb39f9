--------------------------- MODULE MCServices ---------------------------
(* Small instances of the services for TLC. *)
EXTENDS Services, TLC

CONSTANTS f1, f2, f3, f4, k1, p1, p2, c1, c2, c3, s1, s2, s3, a1, a2, r1, r2, r3

(* Two submissions share a key, two have none, as those of the handler. *)
MCKey == [f \in Forms |-> IF f \in {f1, f2} THEN k1 ELSE NoKey]

(* Days of four seconds; zones that keep their clock, on both sides of UTC   *)
(* up to a second less than a day from it, and zones that put it forward or  *)
(* back by a second or two on one of two days.                               *)
Zone(before, after, change) == [before |-> before, after |-> after, change |-> change]
UTC      == {Zone(0, 0, 0)}
AllZones == {Zone(z, z, 0) : z \in -3 .. 3}
              \cup {Zone(b, a, c) : b \in -1 .. 1, a \in -1 .. 1, c \in {0, 1}}
AllDates == -1 .. 3

(* Two calls share the connection of their server; one writes at once.       *)
MCServer == [c \in Calls |-> IF c = c3 THEN s2 ELSE s1]
MCReadsFirst == [c \in Calls |-> c # c2]

(* Three files, of which the second cannot run twice.                        *)
MCRepeatable == [m \in 1 .. Last |-> m # 2]

(* Two requests of one address, and one of another.                          *)
MCFrom == [r \in Requests |-> IF r = r3 THEN a2 ELSE a1]

NoFaults       == {}
AllCreation    == {"dberror", "disconnect"}
AllQueue       == {"crash", "error"}
AllRetry       == {"refusal", "cancel", "crash"}
Interruptions  == {"cancel", "crash"}

(* Sessions and visits are interchangeable, and so are editors and bank      *)
(* details; the same two values serve as sessions and editors, and the same  *)
(* two others as visits and bank details, so that one group serves both.     *)
Alike == Permutations(Ids) \cup Permutations(Visits)

=============================================================================
