--------------------------- MODULE MCGraphEditor ---------------------------
(* A small instance of GraphEditor: an application and a database.  One    *)
(* author who waits makes five edits; with several things at once there    *)
(* are three.                                                              *)
EXTENDS GraphEditor

NoNodes == [n \in {} |-> None]

MCTypeOf == [api |-> "generic", db |-> "postgres"]
MCReferences == [api |-> {}, db |-> {}]
MCLegacy == [source |-> "api", target |-> "db", relation |-> None, readiness |-> None,
             review |-> FALSE, route |-> FALSE, handles |-> FALSE]
MCBoth == [n \in {"api", "db"} |-> [pos |-> "free", cfg |-> "set"]]
MCEmpty == [nodes |-> NoNodes, edges |-> NoNodes]
MCOld == [nodes |-> MCBoth, edges |-> [e \in {"e1"} |-> MCLegacy]]
MCDrawn == [nodes |-> [n \in {"api"} |-> [pos |-> "tidy", cfg |-> "blank"]], edges |-> NoNodes]
MCOpenings == {MCEmpty, MCOld}
MCElsewhere == {MCOld, MCDrawn}

MCMaxEdits == [b \in BOOLEAN |-> IF b THEN 5 ELSE 3]

=============================================================================
