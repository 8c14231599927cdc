------------------------------ MODULE LogQueue ------------------------------
(***************************************************************************)
(* What a buffering sink promises to whoever hands it logs: an accepted    *)
(* log is new, it is delivered at most once, logs are delivered in the     *)
(* order in which they were accepted, and the only logs given up are those *)
(* a full buffer drops, all the newest undelivered ones together and never *)
(* fewer than Limit of them.                                               *)
(***************************************************************************)
EXTENDS Naturals, Sequences

CONSTANTS Entry,  (* the logs that can ever be handed over               *)
          Limit   (* how full the buffer is before it may drop anything  *)

VARIABLES pending,    (* accepted, not yet delivered, oldest first       *)
          delivered,  (* delivered, oldest first                         *)
          seen        (* every log ever accepted                         *)

vars == <<pending, delivered, seen>>

Init == /\ pending = <<>>
        /\ delivered = <<>>
        /\ seen = {}

Fresh(e) == /\ e \notin seen
            /\ seen' = seen \cup {e}

Accept(e) == /\ Fresh(e)
             /\ pending' = Append(pending, e)
             /\ UNCHANGED delivered

Overflow(e) == /\ Fresh(e)
               /\ \E kept \in 0..Len(pending) :
                     /\ Len(pending) - kept >= Limit
                     /\ pending' = Append(SubSeq(pending, 1, kept), e)
               /\ UNCHANGED delivered

Deliver == /\ pending # <<>>
           /\ delivered' = Append(delivered, Head(pending))
           /\ pending' = Tail(pending)
           /\ UNCHANGED seen

Next == \/ \E e \in Entry : Accept(e) \/ Overflow(e)
        \/ Deliver

Spec == Init /\ [][Next]_vars
=============================================================================
