---------------------------- MODULE DrainedQueue ----------------------------
(***************************************************************************)
(* What the queues of price/repository promise.  Entries are pushed on a   *)
(* list; one drain at a time reads the whole list, stores what it has read *)
(* and clears the list, with whatever was pushed meanwhile.  What was read *)
(* is cleared only when it is stored, unless something has failed.         *)
(***************************************************************************)
EXTENDS Naturals, Sequences

CONSTANT Entries

VARIABLES list,
          read,     \* how many entries the drain has read; 0 without a drain
          stored,   \* the entries that reached the table
          failed    \* a write failed, or a process died

queueVars == <<list, read, stored, failed>>

ReadPart == {list[i] : i \in 1..read}

Init == list = <<>> /\ read = 0 /\ stored = {} /\ failed = FALSE

Push ==
    /\ \E e \in Entries : list' = Append(list, e)
    /\ UNCHANGED <<read, stored, failed>>

Read ==
    /\ read = 0 /\ read' = Len(list)
    /\ UNCHANGED <<list, stored, failed>>

Store ==
    /\ \E S \in SUBSET ReadPart : stored' = stored \cup S
    /\ UNCHANGED <<list, read, failed>>

Clear ==
    /\ failed \/ ReadPart \subseteq stored
    /\ list' = <<>> /\ read' = 0
    /\ UNCHANGED <<stored, failed>>

Fail ==
    /\ failed' = TRUE /\ read' \in {0, read}
    /\ UNCHANGED <<list, stored>>

Next == Push \/ Read \/ Store \/ Clear \/ Fail

Spec == Init /\ [][Next]_queueVars
=============================================================================
