---------------------------- MODULE MCRetrieval ----------------------------
(* Three notes.  1 has two sections, each of which says one of the terms   *)
(* often and the other never; 2 refers to 1 and has a section that matches *)
(* as it is; in its other text it refers to 3 as well, and another section *)
(* says one term often; 3 has one term in one text, and in the other a     *)
(* section that matches and one that keeps the note as a whole from        *)
(* matching (a negated term); it refers to 2.  The second provider is      *)
(* being migrated to.                                                      *)
EXTENDS Retrieval

CONSTANTS P, Q

Chunk(every, any, distances) == [every |-> every, any |-> any, distance |-> distances]

MCTexts == {"1a", "2a", "2b", "3a", "3b"}

MCChunks ==
  [t \in MCTexts |->
     CASE t = "1a" -> <<Chunk(0, 3, <<1, 3>>), Chunk(0, 3, <<4, 1>>)>>
       [] t = "2a" -> <<Chunk(1, 2, <<2, 2>>)>>
       [] t = "2b" -> <<Chunk(0, 3, <<0, 0>>), Chunk(2, 2, <<4, 4>>)>>
       [] t = "3a" -> <<Chunk(0, 1, <<3, 0>>)>>
       [] t = "3b" -> <<Chunk(1, 2, <<3, 0>>), Chunk(0, 0, <<0, 0>>)>>]

MCWhole == {"1a", "2a", "2b"}

MCRefs == [t \in MCTexts |-> CASE t = "1a" -> {} [] t = "2a" -> {1} [] t = "2b" -> {1, 3}
                               [] OTHER -> {2}]

MCTextsOf  == [n \in Notes |-> CASE n = 1 -> {"1a"} [] n = 2 -> {"2a", "2b"} [] n = 3 -> {"3a", "3b"}]

(* The denominators of a pool of three.                                    *)
MCScale == 61 * 62 * 63

MCProject  == [n \in Notes |-> IF n = 3 THEN Q ELSE IF n = 2 THEN P ELSE None]
MCCategory == [n \in Notes |-> IF n = 1 THEN "design" ELSE "log"]

F(status, created, since) == [status |-> status, created |-> created, since |-> since]

(* An old version, one that says when it was falsified, one archived       *)
(* without a date, and one dated tomorrow.                                 *)
MCHeads == {F("active", 1, 0), F("falsified", 0, 1), F("archived", 1, 0), F("active", 2, 0)}

R(t) == [text |-> t, mint |-> 0, status |-> "active", created |-> 1, since |-> 0]

All      == [n \in Notes |-> IF n = 1 THEN R("1a") ELSE IF n = 2 THEN R("2a") ELSE R("3a")]
MCStarts == {All, [n \in Notes |-> IF n = 2 THEN R("2b") ELSE IF n = 3 THEN R("3a") ELSE None]}

Even == [g \in {"design", "log"} |-> 2]

Query1 == [project |-> None, falsified |-> FALSE, archived |-> FALSE, asOf |-> None, bias |-> Even,
           topK |-> 4]

MCAsks == {Query1, [Query1 EXCEPT !.project = P], [Query1 EXCEPT !.asOf = 1],
           [Query1 EXCEPT !.archived = TRUE, !.topK = 2],
           [Query1 EXCEPT !.falsified = TRUE, !.bias = [g \in {"design", "log"} |-> IF g = "log" THEN 3 ELSE 2]]}

Plain == {Query1}

Scenario(writes, ticks, faults, strays, asks) ==
  [writes |-> writes, ticks |-> ticks, faults |-> faults, strays |-> strays, asks |-> asks]

(* Two writes beside a query; one and a tick; one and a fault; one and a   *)
(* leg that strays; the index alone for three days.                        *)
MCScenarios == {Scenario(2, 0, 0, 0, Plain), Scenario(1, 1, 0, 0, MCAsks), Scenario(1, 0, 1, 0, MCAsks),
                Scenario(1, 0, 0, 1, Plain), Scenario(3, 2, 0, 0, {})}
=============================================================================
