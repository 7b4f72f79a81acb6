------------------------------ MODULE StoreGate ------------------------------
(***************************************************************************)
(* How the hooks of a root find out whether there is a campaign and which  *)
(* file holds it: discovery, the anchor, the gate of the hq package, the   *)
(* activity bit and the load.  A store is a record of what is on disk:     *)
(*   anchor        .hq/.anchor of the root                                 *)
(*   above         the anchors between the root and home                   *)
(*   hq, old       .hq/runtime/board.json and .orchestration/board.json    *)
(*   state         harness-tasks.json                                      *)
(*   marker        .harness-active                                         *)
(***************************************************************************)

Files == {"hq", "old", "state"}

(* "garbled" is no JSON, "shapeless" is JSON and no object; the others are  *)
(* by the status they bear.                                                 *)
Contents == {"none", "garbled", "shapeless", "closed", "active"}

Stores == [anchor : {"none", "ok", "garbled"},
           above : {"clear", "garbled", "same id"},
           hq : Contents, old : Contents, state : Contents,
           marker : BOOLEAN]

FindsRoot(s) == \E f \in Files : s[f] # "none"

(* Without a parseable anchor the hooks look where they always did.         *)
Anchored(s) == s.anchor = "ok"

BoardFile(s) == IF Anchored(s) THEN "hq" ELSE "old"

StateFile(s) == IF s[BoardFile(s)] # "none" THEN BoardFile(s) ELSE "state"

Parses(s, f) == s[f] # "garbled"

(* gate_state, as far as the hooks listen to it.  Without an anchor it is   *)
(* the file the hooks would read that must parse, when there is one.        *)
LegacyFile(s) == IF s.old # "none" THEN "old" ELSE "state"

CorruptByOldBoard(s) ==
    CASE s.anchor = "none"    -> ~Parses(s, LegacyFile(s))
      [] s.anchor = "garbled" -> TRUE
      [] s.anchor = "ok"      -> s.above # "clear" \/ ~Parses(s, "old")

Corrupt(s) ==
    CASE s.anchor = "none"    -> ~Parses(s, LegacyFile(s))
      [] s.anchor = "garbled" -> TRUE
      [] s.anchor = "ok"      -> s.above # "clear" \/ ~Parses(s, "hq")

(* A board that cannot be read is not active, and neither is one that says  *)
(* something else; a root without a board goes by the marker.               *)
Active(s) ==
    LET b == BoardFile(s)
    IN  IF s[b] # "none" THEN s[b] = "active" ELSE s.marker

Loads(s) == s[StateFile(s)] \in {"closed", "active"}

(* What a hook makes of a store before it looks at a task.                  *)
Verdict(s) ==
    CASE ~FindsRoot(s) -> "no root"
      [] FindsRoot(s) /\ Corrupt(s) -> "corrupt"
      [] FindsRoot(s) /\ ~Corrupt(s) /\ ~Active(s) -> "off"
      [] FindsRoot(s) /\ ~Corrupt(s) /\ Active(s) /\ ~Loads(s) -> "unreadable"
      [] OTHER -> "on"
================================================================================
