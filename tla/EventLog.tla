------------------------------ MODULE EventLog -------------------------------
(***************************************************************************)
(* What a consumer of the events subscription that logs what it is handed *)
(* promises (design 4.5 and 7): the items the subscription delivers are    *)
(* only ever appended to, and the log only ever grows by its next line.    *)
(* That line is either the line of the next delivered block, once every    *)
(* event of the block before has been logged, or the line of the next     *)
(* event of the current block, with the pallet and variant names the      *)
(* metadata declares for it.  Nothing is logged for an error item or for  *)
(* an event the metadata does not declare; nothing is skipped, repeated or *)
(* rewritten.                                                              *)
(***************************************************************************)
EXTENDS Naturals, Sequences

CONSTANTS
    Items,     \* what the subscription may deliver: [ok, events]
    Lookup(_)  \* the declared event of a key: [ok, val |-> [pallet, event]]

VARIABLES
    pushed,  \* the items delivered so far, in order
    lines    \* the log: <<n>> for block n, <<n, i, pallet, event>> for its event i

lvars == <<pushed, lines>>

(* The position of the last event a line accounts for: 0 for a block line. *)
LinePos(l) == IF Len(l) = 1 THEN 0 ELSE l[2]

(* The last line of the log.                                               *)
Last == lines[Len(lines)]

Init ==
    /\ pushed = <<>>
    /\ lines = <<>>

(* The subscription delivers one more item.                                *)
Push(it) ==
    /\ pushed' = Append(pushed, it)
    /\ UNCHANGED lines

(* The line of the next block, once the block before is fully logged.      *)
LogBlock ==
    LET n == IF lines = <<>> THEN 1 ELSE Last[1] + 1 IN
    /\ n <= Len(pushed)
    /\ pushed[n].ok
    /\ lines # <<>> => LinePos(Last) = Len(pushed[Last[1]].events)
    /\ lines' = Append(lines, <<n>>)
    /\ UNCHANGED pushed

(* The line of the next event of the current block, with its names.        *)
LogEvent ==
    /\ lines # <<>>
    /\ LET b == Last[1]
           i == LinePos(Last) + 1
       IN /\ i <= Len(pushed[b].events)
          /\ Lookup(pushed[b].events[i]).ok
          /\ lines' = Append(lines, <<b, i, Lookup(pushed[b].events[i]).val.pallet,
                                            Lookup(pushed[b].events[i]).val.event>>)
    /\ UNCHANGED pushed

Next ==
    \/ \E it \in Items : Push(it)
    \/ LogBlock
    \/ LogEvent

Spec == Init /\ [][Next]_lvars

=============================================================================
