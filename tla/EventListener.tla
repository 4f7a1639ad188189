---------------------------- MODULE EventListener ----------------------------
(***************************************************************************)
(* The example listener listen_event (event-listener-example/src/lib.rs)   *)
(* over the events subscription of a built client.                         *)
(*                                                                         *)
(* The node produces blocks; while the subscription is up, each block is  *)
(* pushed to it as one item: the block's event set, or an error item when *)
(* the set does not decode.  The transport stream may end.  The events    *)
(* client and its subscription are not in the sources; they follow design *)
(* 4.5 and 7: one item per block, and per event the result of            *)
(* Metadata::event on its (pallet index, variant index), an error for an  *)
(* event the metadata does not declare.  The client's Metadata is         *)
(* MetadataParse's TryFrom of the blob it was built from: it is never     *)
(* refreshed.                                                              *)
(***************************************************************************)
EXTENDS Naturals, Sequences

CONSTANTS
    MetaReserved, Prefix, Version, TypeId, NoEvent,  \* as in MetadataParse
    Blob,        \* the decoded metadata blob the client was built from
    Keys,        \* (pallet index, variant index) pairs a block's events carry
    MaxBlocks,   \* blocks the node produces
    MaxEvents,   \* events per block
    Faults       \* among {"item_error", "stream_end"}: what the transport may do

Parse == INSTANCE MetadataParse
             WITH Blobs <- {}, Index <- {}, md <- Blob, parsed <- Blob, looked <- Blob

ASSUME BlobAssumption == Parse!Valid(Blob) /\ Parse!WellFormedBlob(Blob)

ASSUME BoundsAssumption == MaxBlocks \in Nat /\ MaxEvents \in Nat

VARIABLES
    produced,  \* blocks the node has produced
    items,     \* the items pushed to the subscription, in order
    ended,     \* the transport stream has terminated
    pc,        \* "next", "iter", "panicked" or "spin": where listen_event is
    cursor,    \* items event_sub.next() has returned
    pos,       \* the position of the next event of the current block
    log        \* the log::info! lines, as tuples

vars == <<produced, items, ended, pc, cursor, pos, log>>

(* The events map of the client's Metadata.                                *)
EventsMap == Parse!TryFrom(Blob).val

(* A block's event set, or the error item of one that does not decode.     *)
BlockItems ==
    {[ok |-> TRUE, events |-> s] : s \in UNION {[1..n -> Keys] : n \in 0..MaxEvents}}
    \cup (IF "item_error" \in Faults THEN {[ok |-> FALSE, events |-> <<>>]} ELSE {})

TypeOK ==
    /\ produced \in 0..MaxBlocks
    /\ items \in Seq(BlockItems) /\ Len(items) <= produced
    /\ ended \in BOOLEAN
    /\ pc \in {"next", "iter", "panicked", "spin"}
    /\ cursor \in 0..Len(items)
    /\ pos \in 1..MaxEvents + 1
    /\ log \in Seq(Seq(Nat \cup {EventsMap[k].pallet : k \in DOMAIN EventsMap}
                          \cup {EventsMap[k].event : k \in DOMAIN EventsMap}))

(* listen_event has built its client and subscribed (lines 6 and 9).       *)
Init ==
    /\ produced = 0
    /\ items = <<>>
    /\ ended = FALSE
    /\ pc = "next"
    /\ cursor = 0
    /\ pos = 1
    /\ log = <<>>

(* The node produces a block; while the stream is up it pushes its item.   *)
Produce(it) ==
    /\ produced < MaxBlocks
    /\ produced' = produced + 1
    /\ items' = IF ended THEN items ELSE Append(items, it)
    /\ UNCHANGED <<ended, pc, cursor, pos, log>>

(* The transport stream terminates, e.g. the connection closes.            *)
EndStream ==
    /\ "stream_end" \in Faults
    /\ ~ended
    /\ ended' = TRUE
    /\ UNCHANGED <<produced, items, pc, cursor, pos, log>>

(* Mutant: the block's iteration resumes where the last one stopped.      *)
PollKeepsPos ==
    /\ pc = "next"
    /\ cursor < Len(items)
    /\ cursor' = cursor + 1
    /\ IF items[cursor + 1].ok
       THEN /\ pc' = "iter"
            /\ log' = Append(log, <<cursor + 1>>)
       ELSE /\ pc' = "panicked"
            /\ UNCHANGED log
    /\ UNCHANGED <<produced, items, ended, pos>>

(* Mutant: iteration starts at a 0-based position.                         *)
PollZeroPos ==
    /\ pc = "next"
    /\ cursor < Len(items)
    /\ cursor' = cursor + 1
    /\ IF items[cursor + 1].ok
       THEN /\ pc' = "iter"
            /\ pos' = 0
            /\ log' = Append(log, <<cursor + 1>>)
       ELSE /\ pc' = "panicked"
            /\ UNCHANGED <<pos, log>>
    /\ UNCHANGED <<produced, items, ended>>

(* Mutant: the block line is logged before events.unwrap().               *)
PollLogsBeforeUnwrap ==
    /\ pc = "next"
    /\ cursor < Len(items)
    /\ cursor' = cursor + 1
    /\ log' = Append(log, <<cursor + 1>>)
    /\ IF items[cursor + 1].ok
       THEN pc' = "iter" /\ pos' = 1
       ELSE pc' = "panicked" /\ UNCHANGED pos
    /\ UNCHANGED <<produced, items, ended>>

(* while let Some(events) = event_sub.next().await: events.unwrap(), then  *)
(* the block hash is logged; an error item panics.                        *)
Poll ==
    /\ pc = "next"
    /\ cursor < Len(items)
    /\ cursor' = cursor + 1
    /\ IF items[cursor + 1].ok
       THEN /\ pc' = "iter"
            /\ pos' = 1
            /\ log' = Append(log, <<cursor + 1>>)
       ELSE /\ pc' = "panicked"
            /\ UNCHANGED <<pos, log>>
    /\ UNCHANGED <<produced, items, ended>>

(* next() returns None once the ended stream is drained; the while loop    *)
(* exits and the outer loop polls the finished stream again, for ever.    *)
PollEnd ==
    /\ pc = "next"
    /\ ended
    /\ cursor = Len(items)
    /\ pc' = "spin"
    /\ UNCHANGED <<produced, items, ended, cursor, pos, log>>

(* One step of for event in events.iter(): event.unwrap() and the log     *)
(* line with the pallet and variant names; an undeclared event panics.     *)
EventStep ==
    /\ pc = "iter"
    /\ pos <= Len(items[cursor].events)
    /\ LET key == items[cursor].events[pos]
           r == Parse!Event(EventsMap, key[1], key[2])
       IN IF r.ok
          THEN /\ log' = Append(log, <<cursor, pos, r.val.pallet, r.val.event>>)
               /\ pos' = pos + 1
               /\ UNCHANGED pc
          ELSE /\ pc' = "panicked"
               /\ UNCHANGED <<pos, log>>
    /\ UNCHANGED <<produced, items, ended, cursor>>

(* The block's iterator is exhausted: back to event_sub.next().            *)
BlockDone ==
    /\ pc = "iter"
    /\ pos > Len(items[cursor].events)
    /\ pc' = "next"
    /\ UNCHANGED <<produced, items, ended, cursor, pos, log>>

Next ==
    \/ \E it \in BlockItems : Produce(it)
    \/ EndStream
    \/ Poll
    \/ PollEnd
    \/ EventStep
    \/ BlockDone

(* listen_event is a task on the tokio executor, polled whenever its next  *)
(* item is ready.  The node is not obliged to produce blocks.              *)
Spec == Init /\ [][Next]_vars /\ WF_vars(Poll \/ PollEnd \/ EventStep \/ BlockDone)

-----------------------------------------------------------------------------
(* The event of key that the metadata declares, as design 4.1 names it.    *)
Declared(key) == Parse!SpecEvent(Blob, key[1], key[2])

(* What the listener logs is the log of a listener that goes through the  *)
(* items in order: a block line, then one line per event of that block,   *)
(* in position order, with the pallet and variant names the metadata      *)
(* declares; no block or event is skipped or logged twice.                 *)
LogFaithful ==
    /\ Len(log) > 0 => log[1] = <<1>>
    /\ \A k \in 1..Len(log) :
          /\ Len(log[k]) = 4 =>
                /\ log[k][1] \in 1..Len(items) /\ log[k][2] \in DOMAIN items[log[k][1]].events
                /\ Declared(items[log[k][1]].events[log[k][2]])
                       = [ok |-> TRUE, val |-> [pallet |-> log[k][3], event |-> log[k][4]]]
          /\ k > 1 =>
                LET a == log[k - 1]
                    b == log[k]
                    last == IF Len(a) = 1 THEN 0 ELSE a[2]
                IN \/ /\ Len(b) = 1 /\ b[1] = a[1] + 1
                      /\ last = Len(items[a[1]].events)
                   \/ /\ Len(b) = 4 /\ b[1] = a[1] /\ b[2] = last + 1

(* A log line of event i of block n.                                       *)
Logged(n, i) == \E k \in 1..Len(log) : Len(log[k]) = 4 /\ log[k][1] = n /\ log[k][2] = i

BlocksLogged ==
    \A n \in 1..MaxBlocks :
        n <= produced ~> \E k \in 1..Len(log) : log[k] = <<n>>


(* The refinement mapping to EventLog: the items pushed to the subscription *)
(* are its delivered items, the log lines its lines, and a declared event  *)
(* is what Declared names.  Polling an error item, panicking on an         *)
(* undeclared event, ending the stream or a block, and a block produced    *)
(* after the stream ended are stutters of EventLog.                        *)
Log == INSTANCE EventLog
           WITH Items <- BlockItems, Lookup <- Declared, pushed <- items, lines <- log

(* listen_event implements EventLog: it only ever appends to its log, and  *)
(* each line it appends is the next line of a consumer that logs every     *)
(* delivered block and, in order, every declared event of it.              *)
ImplementsLog == Log!Spec

=============================================================================
