-------------------------------- MODULE Loan --------------------------------
(***************************************************************************)
(* What truedns promises to those who use it with care: the DNS settings   *)
(* of the system are borrowed.  What an adapter was set to is noted as it  *)
(* is pointed at the proxy, goes back to that adapter and nothing else,    *)
(* and the notes are kept until nothing is borrowed any more.  Processes,  *)
(* memory, files and deaths do not appear.                                 *)
(*                                                                         *)
(* Takeover implements this specification as long as it is used with care. *)
(***************************************************************************)
CONSTANTS Adapters,
          Values,   \* settings of an adapter
          Proxy,    \* the address of the proxy
          Nothing   \* no setting

VARIABLES dns,    \* the setting each adapter has
          own,    \* the one it should have without a proxy
          noted   \* the adapters whose own setting is known to the lender

vars == <<dns, own, noted>>

Init == /\ dns = own
        /\ noted = {}

\* Nothing is borrowed twice: the proxy is never noted as somebody's setting.
Borrow(a) == /\ dns[a] = own[a]
             /\ dns' = [dns EXCEPT ![a] = Proxy]
             /\ noted' = noted \cup {a}
             /\ UNCHANGED own

GiveBack(a) == /\ a \in noted
               /\ dns' = [dns EXCEPT ![a] = own[a]]
               /\ UNCHANGED <<own, noted>>

\* Giving back fails half way, and may be tried again.
Slip(a) == /\ a \in noted
           /\ dns' = [dns EXCEPT ![a] = Nothing]
           /\ UNCHANGED <<own, noted>>

Forget == /\ dns = own
          /\ noted' = {}
          /\ UNCHANGED <<dns, own>>

\* The adapter itself is set up or removed.
Change(a, v) == /\ dns' = [dns EXCEPT ![a] = v]
                /\ own' = [own EXCEPT ![a] = v]
                /\ UNCHANGED noted

Next == \/ \E a \in Adapters : \/ Borrow(a) \/ GiveBack(a) \/ Slip(a)
                               \/ \E v \in Values : Change(a, v)
        \/ Forget

Spec == Init /\ [][Next]_vars
=============================================================================
