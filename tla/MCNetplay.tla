------------------------------- MODULE MCNetplay -------------------------------
(***************************************************************************)
(* TLC instances of Netplay: one host, one client, one button.  The states *)
(* explored are of two kinds: a network that loses, delays, reorders and   *)
(* repeats, with no input delay and few keys; or a delay that the user     *)
(* changes, with more keys, at one end.                                    *)
(***************************************************************************)
EXTENDS Netplay

CONSTANT LossKeys   \* bound: keys of the first kind

(* The delay line is each end's own: one end that runs alone shows it.     *)
Alone == frame[Host] = 0 /\ ~running[Host] /\ ~paused[Host] /\ pad[Host] = {}
Short == keys <= LossKeys /\ \A p \in Peers : delay[p] = 0

Bounded == Alone \/ Short
=============================================================================
