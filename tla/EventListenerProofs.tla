------------------------- MODULE EventListenerProofs -------------------------
(***************************************************************************)
(* Proofs about the example listener for every metadata blob, every bound *)
(* and every fault set: its state stays well typed, and what it logs is a *)
(* faithful, in-order account of the blocks and the declared events it     *)
(* was handed.                                                             *)
(***************************************************************************)
EXTENDS EventListener, SequenceTheorems, TLAPS

PP == INSTANCE MetadataParseProofs
          WITH Blobs <- {}, Index <- {}, md <- Blob, parsed <- Blob, looked <- Blob

(* The client's events map answers each lookup with the event the blob    *)
(* declares: EventLookup of MetadataParseProofs, on the client's blob.     *)
LEMMA LookupIsDeclared ==
    ASSUME NEW pi, NEW vi
    PROVE  Parse!Event(EventsMap, pi, vi) = Parse!SpecEvent(Blob, pi, vi)
<1>1. PP!WellFormedBlob(Blob) /\ PP!Valid(Blob)
    <2>1. Parse!WellFormedBlob(Blob) /\ Parse!Valid(Blob)
        BY BlobAssumption
    <2>2. PP!Valid(Blob)
        BY <2>1 DEF Parse!Valid, PP!Valid, Parse!Absent, PP!Absent
    <2>3. PP!WellFormedBlob(Blob)
        BY <2>1 DEF Parse!WellFormedBlob, PP!WellFormedBlob
    <2>4. QED
        BY <2>2, <2>3
<1>2. PP!Event(PP!EventsAfter(Blob), pi, vi) = PP!SpecEvent(Blob, pi, vi)
    BY <1>1, PP!EventLookup
<1>3. EventsMap = Parse!EventsAfter(Blob)
    BY BlobAssumption DEF EventsMap, Parse!TryFrom, Parse!Valid, Parse!BadPallets,
                          Parse!EventTypeError
<1>4. QED
    BY <1>2, <1>3 DEF PP!Event, Parse!Event, PP!EventsAfter, Parse!EventsAfter,
                      PP!SpecEvent, Parse!SpecEvent, PP!SpecPairs, Parse!SpecPairs,
                      PP!SpecVariants, Parse!SpecVariants, PP!PalletEvents, Parse!PalletEvents,
                      PP!EventMeta, Parse!EventMeta, PP!EventKey, Parse!EventKey

(* The last line of the log.                                               *)
LastLine == log[Len(log)]

(* Where the listener is relative to the log: the last line is of the     *)
(* block under the cursor, and pos is the next event of that block, past  *)
(* its last event once the block is done.                                  *)
Progress ==
    /\ \A k \in 1..Len(log) :
          /\ Len(log[k]) \in {1, 4}
          /\ log[k][1] \in 1..Len(items)
          /\ Len(log[k]) = 4 => log[k][2] \in Nat
    /\ pc = "iter" => Len(log) > 0 /\ cursor \in 1..Len(items)
    /\ pc \in {"next", "iter"} /\ Len(log) = 0 => cursor = 0
    /\ pc \in {"next", "iter"} /\ Len(log) > 0 =>
          /\ LastLine[1] = cursor
          /\ Len(LastLine) = 1 => pos = 1
          /\ Len(LastLine) = 4 => LastLine[2] = pos - 1
          /\ pos <= Len(items[cursor].events) + 1
          /\ pc = "next" => pos = Len(items[cursor].events) + 1

IInv == TypeOK /\ LogFaithful /\ Progress

(* The values a log line is made of.                                       *)
LogAtom == Nat \cup {EventsMap[k].pallet : k \in DOMAIN EventsMap}
               \cup {EventsMap[k].event : k \in DOMAIN EventsMap}

(* A block item carries a sequence of at most MaxEvents keys.              *)
LEMMA ItemShape ==
    ASSUME NEW it \in BlockItems
    PROVE  it.events \in Seq(Keys) /\ Len(it.events) <= MaxEvents
<1>1. CASE it.ok
    <2>1. PICK n \in 0..MaxEvents : it.events \in [1..n -> Keys]
        BY <1>1 DEF BlockItems
    <2>2. n \in Nat
        BY BoundsAssumption
    <2>3. QED
        BY <2>1, <2>2
<1>2. CASE ~it.ok
    <2>1. it.events = <<>>
        BY <1>2 DEF BlockItems
    <2>2. QED
        BY <2>1, BoundsAssumption
<1>3. QED
    BY <1>1, <1>2

(* A declared event is an ok result carrying a pallet and an event name.   *)
LEMMA DeclaredShape ==
    ASSUME NEW pi, NEW vi, Parse!SpecEvent(Blob, pi, vi).ok
    PROVE  Parse!SpecEvent(Blob, pi, vi)
               = [ok |-> TRUE, val |-> [pallet |-> Parse!SpecEvent(Blob, pi, vi).val.pallet,
                                        event |-> Parse!SpecEvent(Blob, pi, vi).val.event]]
BY DEF Parse!SpecEvent

LEMMA IInvInit == Init => IInv
<1> SUFFICES ASSUME Init PROVE IInv
    OBVIOUS
<1>1. TypeOK
    <2>1. produced \in 0..MaxBlocks /\ pos \in 1..MaxEvents + 1
        BY BoundsAssumption DEF Init
    <2>2. items \in Seq(BlockItems) /\ Len(items) <= produced /\ cursor \in 0..Len(items)
        BY DEF Init
    <2>3. log \in Seq(Seq(LogAtom))
        BY DEF Init
    <2>4. ended \in BOOLEAN /\ pc \in {"next", "iter", "panicked", "spin"}
        BY DEF Init
    <2>5. QED
        BY <2>1, <2>2, <2>3, <2>4, Zenon DEF TypeOK, LogAtom
<1>2. LogFaithful /\ Progress
    BY DEF Init, LogFaithful, Progress
<1>3. QED
    BY <1>1, <1>2 DEF IInv

LEMMA StepEndStream ==
    ASSUME IInv, EndStream PROVE IInv'
BY DEF IInv, EndStream, TypeOK, LogFaithful, Progress, LastLine, Declared

LEMMA StepPollEnd ==
    ASSUME IInv, PollEnd PROVE IInv'
BY DEF IInv, PollEnd, TypeOK, LogFaithful, Progress, LastLine, Declared

LEMMA StepBlockDone ==
    ASSUME IInv, BlockDone PROVE IInv'
<1>1. Len(log) > 0 /\ cursor \in 1..Len(items)
    BY DEF IInv, BlockDone, Progress
<1>2. items[cursor] \in BlockItems /\ pos \in Nat
    BY <1>1 DEF IInv, TypeOK
<1>3. Len(items[cursor].events) \in Nat
    BY <1>2, ItemShape
<1>4. pos = Len(items[cursor].events) + 1
    BY <1>1, <1>2, <1>3 DEF IInv, BlockDone, Progress, LastLine
<1>5. QED
    BY <1>4 DEF IInv, BlockDone, TypeOK, LogFaithful, Progress, LastLine, Declared


LEMMA StepProduce ==
    ASSUME IInv, NEW it \in BlockItems, Produce(it) PROVE IInv'
<1>1. CASE ended
    BY <1>1, BoundsAssumption DEF IInv, Produce, TypeOK, LogFaithful, Progress, LastLine, Declared
<1>2. CASE ~ended
    <2>1. items' = Append(items, it) /\ UNCHANGED <<ended, pc, cursor, pos, log>>
        BY <1>2 DEF Produce
    <2>2. items \in Seq(BlockItems)
        BY DEF IInv, TypeOK
    <2>3. /\ items' \in Seq(BlockItems)
          /\ Len(items') = Len(items) + 1
          /\ \A n \in 1..Len(items) : items'[n] = items[n]
        BY <2>1, <2>2, AppendProperties
    <2>4. TypeOK'
        BY <2>1, <2>3, BoundsAssumption DEF IInv, Produce, TypeOK
    <2>5. LogFaithful'
        <3>1. \A k \in 1..Len(log) :
                 /\ log[k][1] \in 1..Len(items)
                 /\ k > 1 => log[k - 1][1] \in 1..Len(items)
            BY DEF IInv, Progress
        <3>2. \A k \in 1..Len(log) :
                 /\ items'[log[k][1]] = items[log[k][1]]
                 /\ k > 1 => items'[log[k - 1][1]] = items[log[k - 1][1]]
            BY <3>1, <2>3
        <3>3. QED
            BY <2>1, <2>3, <3>1, <3>2 DEF IInv, LogFaithful
    <2>6. Progress'
        BY <2>1, <2>3 DEF IInv, TypeOK, Progress, LastLine
    <2>7. QED
        BY <2>4, <2>5, <2>6 DEF IInv
<1>3. QED
    BY <1>1, <1>2


(* The log grown by one line, as the provers need it.                      *)
LEMMA LogAppend ==
    ASSUME TypeOK, NEW line \in Seq(LogAtom), log' = Append(log, line)
    PROVE  /\ log' \in Seq(Seq(LogAtom))
           /\ Len(log') = Len(log) + 1
           /\ \A k \in 1..Len(log) : log'[k] = log[k]
           /\ log'[Len(log) + 1] = line
<1>1. log \in Seq(Seq(LogAtom))
    BY DEF TypeOK, LogAtom
<1>2. QED
    BY <1>1, AppendProperties

LEMMA StepPoll ==
    ASSUME IInv, Poll PROVE IInv'
<1>1. cursor + 1 \in 1..Len(items) /\ items[cursor + 1] \in BlockItems
    BY DEF IInv, TypeOK, Poll
<1>2. CASE ~items[cursor + 1].ok
    <2>1. pc' = "panicked" /\ cursor' = cursor + 1
          /\ UNCHANGED <<produced, items, ended, pos, log>>
        BY <1>2 DEF Poll
    <2>2. TypeOK'
        BY <1>1, <2>1 DEF IInv, TypeOK
    <2>3. LogFaithful'
        BY <2>1 DEF IInv, LogFaithful
    <2>4. Progress'
        BY <2>1 DEF IInv, Progress
    <2>5. QED
        BY <2>2, <2>3, <2>4 DEF IInv
<1>3. CASE items[cursor + 1].ok
    <2> DEFINE line == <<cursor + 1>>
    <2>1. pc' = "iter" /\ pos' = 1 /\ cursor' = cursor + 1 /\ log' = Append(log, line)
          /\ UNCHANGED <<produced, items, ended>>
        BY <1>3 DEF Poll
    <2>2. line \in Seq(LogAtom)
        BY <1>1 DEF LogAtom
    <2>3. /\ log' \in Seq(Seq(LogAtom))
          /\ Len(log') = Len(log) + 1
          /\ \A k \in 1..Len(log) : log'[k] = log[k]
          /\ log'[Len(log) + 1] = line
        BY <2>1, <2>2, LogAppend DEF IInv
    <2>11. \A k \in 1..Len(log) : log'[k] = log[k]
        BY <2>3
    <2>12. Len(log') = Len(log) + 1 /\ log'[Len(log) + 1] = line
        BY <2>3
    <2>4. Len(log) \in Nat /\ cursor \in Nat
        BY DEF IInv, TypeOK
    (* the block before has been logged to its end *)
    <2>5. Len(log) > 0 =>
             /\ LastLine[1] = cursor /\ cursor \in 1..Len(items)
             /\ Len(LastLine) \in {1, 4}
             /\ (IF Len(LastLine) = 1 THEN 0 ELSE LastLine[2]) = Len(items[cursor].events)
        <3> SUFFICES ASSUME Len(log) > 0
                     PROVE  /\ LastLine[1] = cursor /\ cursor \in 1..Len(items)
                            /\ Len(LastLine) \in {1, 4}
                            /\ (IF Len(LastLine) = 1 THEN 0 ELSE LastLine[2])
                                   = Len(items[cursor].events)
            OBVIOUS
        <3>1. Len(log) \in 1..Len(log)
            BY <2>4
        <3>2. LastLine[1] = cursor /\ Len(LastLine) \in {1, 4} /\ cursor \in 1..Len(items)
            BY <3>1 DEF IInv, Poll, Progress, LastLine
        <3>3. Len(items[cursor].events) \in Nat
            BY <3>2, ItemShape DEF IInv, TypeOK
        <3>4. QED
            BY <3>2, <3>3 DEF IInv, Poll, Progress, LastLine
    <2>6. Len(log) = 0 => cursor = 0
        BY DEF IInv, Poll, Progress
    <2>7. TypeOK'
        BY <1>1, <2>1, <2>3, BoundsAssumption DEF IInv, TypeOK
    <2>8. LogFaithful'
        <3>1. Len(log') > 0 => log'[1] = <<1>>
            BY <2>11, <2>12, <2>4, <2>6 DEF IInv, LogFaithful
        <3>2. ASSUME NEW k \in 1..Len(log') PROVE
                 /\ Len(log'[k]) = 4 =>
                       /\ log'[k][1] \in 1..Len(items') /\ log'[k][2] \in DOMAIN items'[log'[k][1]].events
                       /\ Declared(items'[log'[k][1]].events[log'[k][2]])
                              = [ok |-> TRUE, val |-> [pallet |-> log'[k][3], event |-> log'[k][4]]]
                 /\ k > 1 =>
                       LET a == log'[k - 1]
                           b == log'[k]
                           last == IF Len(a) = 1 THEN 0 ELSE a[2]
                       IN \/ /\ Len(b) = 1 /\ b[1] = a[1] + 1
                             /\ last = Len(items'[a[1]].events)
                          \/ /\ Len(b) = 4 /\ b[1] = a[1] /\ b[2] = last + 1
            <4>1. CASE k \in 1..Len(log)
                <5>1. log'[k] = log[k] /\ (k > 1 => log'[k - 1] = log[k - 1])
                    BY <4>1, <2>4, <2>11
                <5>2. QED
                    BY <4>1, <5>1, <2>1 DEF IInv, LogFaithful
            <4>2. CASE k = Len(log) + 1
                BY <4>2, <2>1, <2>11, <2>12, <2>4, <2>5 DEF LastLine
            <4>3. QED
                BY <4>1, <4>2, <2>11, <2>12, <2>4
        <3>3. QED
            BY <3>1, <3>2 DEF LogFaithful
    <2>9. Progress'
        <3>1. \A k \in 1..Len(log') :
                 /\ Len(log'[k]) \in {1, 4}
                 /\ log'[k][1] \in 1..Len(items')
                 /\ Len(log'[k]) = 4 => log'[k][2] \in Nat
            BY <1>1, <2>1, <2>11, <2>12, <2>4 DEF IInv, Progress
        <3>2. LastLine' = line
            BY <2>11, <2>12 DEF LastLine
        <3>3. Len(items[cursor + 1].events) \in Nat
            BY <1>1, ItemShape
        <3>4. QED
            BY <1>1, <2>1, <2>11, <2>12, <3>1, <3>2, <3>3 DEF Progress
    <2>10. QED
        BY <2>7, <2>8, <2>9 DEF IInv
<1>4. QED
    BY <1>2, <1>3


(* The events of the block under the cursor, the key at pos and what     *)
(* Metadata::event answers for it; the line EventStep logs.                *)
ev == items[cursor].events
key == ev[pos]
r == Parse!Event(EventsMap, key[1], key[2])
line == <<cursor, pos, r.val.pallet, r.val.event>>

LEMMA StepEvent ==
    ASSUME IInv, EventStep PROVE IInv'
<1>1. /\ cursor \in 1..Len(items) /\ Len(log) \in Nat /\ Len(log) > 0
      /\ ev \in Seq(Keys) /\ Len(ev) <= MaxEvents
      /\ pos \in 1..Len(ev)
    <2>1. cursor \in 1..Len(items) /\ Len(log) > 0 /\ pos \in Nat /\ pos >= 1
        BY DEF IInv, EventStep, Progress, TypeOK
    <2>2. items[cursor] \in BlockItems
        BY <2>1 DEF IInv, TypeOK
    <2>3. ev \in Seq(Keys) /\ Len(ev) <= MaxEvents
        BY <2>2, ItemShape DEF ev
    <2>4. QED
        BY <2>1, <2>3 DEF EventStep, ev
<1>2. CASE ~r.ok
    BY <1>2 DEF IInv, EventStep, TypeOK, LogFaithful, Progress, LastLine, ev, key, r
<1>3. CASE r.ok
    <2>0. Len(line) = 4 /\ line[1] = cursor /\ line[2] = pos
          /\ line[3] = r.val.pallet /\ line[4] = r.val.event
        BY DEF line
    <2>1. log' = Append(log, line) /\ pos' = pos + 1
          /\ UNCHANGED <<produced, items, ended, cursor, pc>>
        BY <1>3 DEF EventStep, ev, key, r, line
    <2>2. <<key[1], key[2]>> \in DOMAIN EventsMap /\ r.val = EventsMap[<<key[1], key[2]>>]
        BY <1>3 DEF Parse!Event, r
    <2>3. line \in Seq(LogAtom)
        BY <1>1, <2>2 DEF LogAtom, line
    <2>4. /\ log' \in Seq(Seq(LogAtom))
          /\ Len(log') = Len(log) + 1
          /\ \A k \in 1..Len(log) : log'[k] = log[k]
          /\ log'[Len(log) + 1] = line
        BY <2>1, <2>3, LogAppend DEF IInv
    <2>11. \A k \in 1..Len(log) : log'[k] = log[k]
        BY <2>4
    <2>12. Len(log') = Len(log) + 1 /\ log'[Len(log) + 1] = line
        BY <2>4
    (* the logged names are the ones the metadata declares *)
    <2>5. Declared(key) = [ok |-> TRUE, val |-> [pallet |-> r.val.pallet, event |-> r.val.event]]
        <3>1. Declared(key) = r
            BY LookupIsDeclared DEF Declared, r
        <3>2. QED
            BY <1>3, <3>1, DeclaredShape DEF Declared
    (* the line before is of this block, at the position before *)
    <2>6. /\ LastLine[1] = cursor
          /\ (IF Len(LastLine) = 1 THEN 0 ELSE LastLine[2]) = pos - 1
        <3>1. Len(log) \in 1..Len(log)
            BY <1>1
        <3>2. Len(LastLine) \in {1, 4}
            BY <3>1 DEF IInv, Progress, LastLine
        <3>3. QED
            BY <1>1, <3>2 DEF IInv, EventStep, Progress
    <2>7. TypeOK'
        BY <1>1, <2>1, <2>4, BoundsAssumption DEF IInv, TypeOK, LogAtom
    <2>8. LogFaithful'
        <3>1. Len(log') > 0 => log'[1] = <<1>>
            BY <1>1, <2>11, <2>12 DEF IInv, LogFaithful
        <3>2. ASSUME NEW k \in 1..Len(log') PROVE
                 /\ Len(log'[k]) = 4 =>
                       /\ log'[k][1] \in 1..Len(items') /\ log'[k][2] \in DOMAIN items'[log'[k][1]].events
                       /\ Declared(items'[log'[k][1]].events[log'[k][2]])
                              = [ok |-> TRUE, val |-> [pallet |-> log'[k][3], event |-> log'[k][4]]]
                 /\ k > 1 =>
                       LET a == log'[k - 1]
                           b == log'[k]
                           last == IF Len(a) = 1 THEN 0 ELSE a[2]
                       IN \/ /\ Len(b) = 1 /\ b[1] = a[1] + 1
                             /\ last = Len(items'[a[1]].events)
                          \/ /\ Len(b) = 4 /\ b[1] = a[1] /\ b[2] = last + 1
            <4>1. CASE k \in 1..Len(log)
                <5>1. log'[k] = log[k] /\ (k > 1 => log'[k - 1] = log[k - 1])
                    BY <4>1, <1>1, <2>11
                <5>2. QED
                    BY <4>1, <5>1, <2>1 DEF IInv, LogFaithful
            <4>2. CASE k = Len(log) + 1
                <5>1. pos \in DOMAIN items[cursor].events
                    BY <1>1 DEF ev
                <5>2. log'[k] = line /\ log'[k - 1] = LastLine /\ k > 1
                    BY <4>2, <1>1, <2>11, <2>12 DEF LastLine
                <5>3. Declared(items[cursor].events[pos])
                          = [ok |-> TRUE, val |-> [pallet |-> line[3], event |-> line[4]]]
                    BY <2>0, <2>5 DEF ev, key
                <5>4. items' = items
                    BY <2>1
                <5>5. /\ log'[k][1] \in 1..Len(items') /\ log'[k][2] \in DOMAIN items'[log'[k][1]].events
                      /\ Declared(items'[log'[k][1]].events[log'[k][2]])
                             = [ok |-> TRUE, val |-> [pallet |-> log'[k][3], event |-> log'[k][4]]]
                    BY <1>1, <2>0, <5>1, <5>2, <5>3, <5>4
                <5>6. LET a == log'[k - 1]
                          b == log'[k]
                          last == IF Len(a) = 1 THEN 0 ELSE a[2]
                      IN /\ Len(b) = 4 /\ b[1] = a[1] /\ b[2] = last + 1
                    BY <1>1, <2>0, <2>6, <5>2
                <5>7. QED
                    BY <5>5, <5>6
            <4>3. QED
                BY <4>1, <4>2, <1>1, <2>11, <2>12
        <3>3. QED
            BY <3>1, <3>2 DEF LogFaithful
    <2>9. Progress'
        <3>1. \A k \in 1..Len(log') :
                 /\ Len(log'[k]) \in {1, 4}
                 /\ log'[k][1] \in 1..Len(items')
                 /\ Len(log'[k]) = 4 => log'[k][2] \in Nat
            <4>1. ASSUME NEW k \in 1..Len(log') PROVE
                     /\ Len(log'[k]) \in {1, 4}
                     /\ log'[k][1] \in 1..Len(items')
                     /\ Len(log'[k]) = 4 => log'[k][2] \in Nat
                <5>1. CASE k \in 1..Len(log)
                    BY <5>1, <2>1, <2>11, <2>12 DEF IInv, Progress
                <5>2. CASE k = Len(log) + 1
                    <6>1. log'[k] = line
                        BY <5>2, <2>11, <2>12
                    <6>2. cursor \in 1..Len(items') /\ pos \in Nat
                        BY <1>1, <2>1
                    <6>3. QED
                        BY <6>1, <6>2, <2>0
                <5>3. QED
                    BY <5>1, <5>2, <1>1, <2>11, <2>12
            <4>2. QED
                BY <4>1
        <3>2. LastLine' = line
            BY <2>11, <2>12 DEF LastLine
        <3>3. pc' = "iter" /\ cursor' = cursor /\ items' = items /\ Len(log') > 0
            BY <1>1, <2>1, <2>12 DEF EventStep
        <3>4. pos' - 1 = pos /\ pos' <= Len(items'[cursor'].events) + 1
            BY <1>1, <2>1, <3>3 DEF ev
        <3>5. LastLine'[1] = cursor' /\ Len(LastLine') = 4 /\ LastLine'[2] = pos' - 1
            BY <2>0, <3>2, <3>3, <3>4
        <3>6. QED
            BY <1>1, <3>1, <3>3, <3>4, <3>5 DEF Progress
    <2>10. QED
        BY <2>7, <2>8, <2>9 DEF IInv
<1>4. QED
    BY <1>2, <1>3


LEMMA IInvStep == IInv /\ [Next]_vars => IInv'
<1> SUFFICES ASSUME IInv, [Next]_vars PROVE IInv'
    OBVIOUS
<1>1. CASE \E it \in BlockItems : Produce(it)
    BY <1>1, StepProduce
<1>2. CASE EndStream
    BY <1>2, StepEndStream
<1>3. CASE Poll
    BY <1>3, StepPoll
<1>4. CASE PollEnd
    BY <1>4, StepPollEnd
<1>5. CASE EventStep
    BY <1>5, StepEvent
<1>6. CASE BlockDone
    BY <1>6, StepBlockDone
<1>7. CASE UNCHANGED vars
    BY <1>7 DEF vars, IInv, TypeOK, LogFaithful, Progress, LastLine, Declared, EventsMap
<1>8. QED
    BY <1>1, <1>2, <1>3, <1>4, <1>5, <1>6, <1>7 DEF Next

(* listen_event's state stays well typed: the cursor never passes the     *)
(* items pushed, pos never passes MaxEvents + 1, and every log line is    *)
(* made of indices and the names the client's events map holds.          *)
THEOREM ListenerTypeCorrect == Spec => []TypeOK
<1>1. IInv => TypeOK
    BY DEF IInv
<1>2. QED
    BY IInvInit, IInvStep, <1>1, PTL DEF Spec

(* For every blob, bound and fault set, what listen_event logs is the log *)
(* of a listener that walks the items in order: a block line, then one    *)
(* line per event in position order with the names the metadata declares *)
(* (design 4.1), no block or event skipped or repeated.                   *)
THEOREM ListenerLogFaithful == Spec => []LogFaithful
<1>1. IInv => LogFaithful
    BY DEF IInv
<1>2. QED
    BY IInvInit, IInvStep, <1>1, PTL DEF Spec


-----------------------------------------------------------------------------
(* The refinement of EventLog.                                             *)

(* Back at next() after a block, its events are all logged.                *)
LEMMA AtNext ==
    ASSUME IInv, pc = "next", Len(log) > 0
    PROVE  /\ LastLine[1] = cursor /\ cursor \in 1..Len(items)
           /\ Log!LinePos(LastLine) = Len(items[cursor].events)
<1>1. Len(log) \in 1..Len(log)
    BY DEF IInv, TypeOK
<1>2. LastLine[1] = cursor /\ Len(LastLine) \in {1, 4} /\ cursor \in 1..Len(items)
    BY <1>1 DEF IInv, Progress, LastLine
<1>3. Len(items[cursor].events) \in Nat
    BY <1>2, ItemShape DEF IInv, TypeOK
<1>4. QED
    BY <1>2, <1>3 DEF IInv, Progress, Log!LinePos

(* Inside a block, the last line is of that block and pos is its next event. *)
LEMMA AtIter ==
    ASSUME IInv, pc = "iter"
    PROVE  /\ Len(log) > 0 /\ LastLine[1] = cursor
           /\ Log!LinePos(LastLine) = pos - 1
<1>1. Len(log) > 0 /\ Len(log) \in 1..Len(log)
    BY DEF IInv, TypeOK, Progress
<1>2. Len(LastLine) \in {1, 4}
    BY <1>1 DEF IInv, Progress, LastLine
<1>3. QED
    BY <1>1, <1>2 DEF IInv, Progress, Log!LinePos

LEMMA LogInit == Init => Log!Init
BY DEF Init, Log!Init

LEMMA LogStep == IInv /\ [Next]_vars => [Log!Next]_Log!lvars
<1> SUFFICES ASSUME IInv, [Next]_vars PROVE [Log!Next]_Log!lvars
    OBVIOUS
<1>1. ASSUME NEW it \in BlockItems, Produce(it) PROVE [Log!Next]_Log!lvars
    <2>1. CASE ended
        BY <1>1, <2>1 DEF Produce, Log!lvars
    <2>2. CASE ~ended
        <3>1. Log!Push(it)
            BY <1>1, <2>2 DEF Produce, Log!Push
        <3>2. QED
            BY <3>1 DEF Log!Next
    <2>3. QED
        BY <2>1, <2>2
<1>2. ASSUME Poll PROVE [Log!Next]_Log!lvars
    <2>1. cursor + 1 \in 1..Len(items) /\ cursor \in Nat
        BY <1>2 DEF IInv, TypeOK, Poll
    <2>2. CASE ~items[cursor + 1].ok
        BY <1>2, <2>2 DEF Poll, Log!lvars
    <2>3. CASE items[cursor + 1].ok
        <3>1. log' = Append(log, <<cursor + 1>>) /\ items' = items
            BY <1>2, <2>3 DEF Poll
        <3>2. (IF log = <<>> THEN 1 ELSE Log!Last[1] + 1) = cursor + 1
            <4>1. CASE Len(log) = 0
                <5>1. log = <<>> /\ cursor = 0
                    BY <1>2, <4>1 DEF IInv, TypeOK, Progress, Poll
                <5>2. QED
                    BY <5>1
            <4>2. CASE Len(log) > 0
                <5>1. log # <<>>
                    BY <4>2
                <5>2. QED
                    BY <1>2, <4>2, <5>1, AtNext DEF Poll, Log!Last, LastLine
            <4>3. QED
                BY <4>1, <4>2 DEF IInv, TypeOK
        <3>3. log # <<>> => Log!LinePos(Log!Last) = Len(items[Log!Last[1]].events)
            <4>1. SUFFICES ASSUME log # <<>> PROVE Log!LinePos(Log!Last) = Len(items[Log!Last[1]].events)
                OBVIOUS
            <4>2. Len(log) > 0
                BY <4>1 DEF IInv, TypeOK
            <4>3. QED
                BY <1>2, <4>2, AtNext DEF Poll, Log!Last, LastLine
        <3>4. Log!LogBlock
            BY <2>1, <2>3, <3>1, <3>2, <3>3 DEF Log!LogBlock
        <3>5. QED
            BY <3>4 DEF Log!Next
    <2>4. QED
        BY <2>2, <2>3
<1>3. ASSUME EventStep PROVE [Log!Next]_Log!lvars
    <2>1. CASE ~r.ok
        BY <1>3, <2>1 DEF EventStep, ev, key, r, Log!lvars
    <2>2. CASE r.ok
        <3>1. log' = Append(log, line) /\ items' = items
            BY <1>3, <2>2 DEF EventStep, ev, key, r, line
        <3>2. Len(log) > 0 /\ Log!Last[1] = cursor /\ Log!LinePos(Log!Last) + 1 = pos
            <4>1. pos \in Nat
                BY DEF IInv, TypeOK
            <4>2. QED
                BY <1>3, <4>1, AtIter DEF EventStep, Log!Last, LastLine
        <3>3. log # <<>>
            BY <3>2
        <3>4. pos <= Len(items[cursor].events)
            BY <1>3 DEF EventStep
        <3>5. Declared(key) = r /\ Declared(key).ok
            BY <2>2, LookupIsDeclared DEF Declared, r
        <3>6. Declared(key) = [ok |-> TRUE, val |-> [pallet |-> r.val.pallet, event |-> r.val.event]]
            BY <3>5, DeclaredShape DEF Declared
        <3>7. Log!LogEvent
            <4>1. key = items[Log!Last[1]].events[Log!LinePos(Log!Last) + 1]
                BY <3>2 DEF key, ev
            <4>2. line = <<Log!Last[1], Log!LinePos(Log!Last) + 1,
                           Declared(key).val.pallet, Declared(key).val.event>>
                BY <3>2, <3>6 DEF line
            <4>3. QED
                BY <3>1, <3>2, <3>3, <3>4, <3>5, <4>1, <4>2 DEF Log!LogEvent
        <3>8. QED
            BY <3>7 DEF Log!Next
    <2>3. QED
        BY <2>1, <2>2
<1>4. QED
    BY <1>1, <1>2, <1>3 DEF Next, EndStream, PollEnd, BlockDone, vars, Log!lvars

(* listen_event implements EventLog for every blob, bound and fault set:   *)
(* its log only grows, by the line of the next delivered block once the    *)
(* block before is done, or by the next event's line with the names the    *)
(* metadata declares; error items and undeclared events log nothing.       *)
THEOREM ListenerRefinesLog == Spec => ImplementsLog
BY LogInit, LogStep, IInvInit, IInvStep, PTL DEF Spec, ImplementsLog, Log!Spec

=============================================================================
