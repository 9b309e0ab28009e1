-------------------------------- MODULE RaHttp --------------------------------
(***************************************************************************)
(* RaHttpTransport (realtime/retroachievements_http.cpp): two channels,    *)
(* each with a thread that takes its requests in order.  A request is its  *)
(* id; an answer is [id, ok], with ok for a status of 200 to 299 and a     *)
(* body within the limit.  What the network does is chosen by whoever uses *)
(* these operators.                                                        *)
(***************************************************************************)
EXTENDS Integers, Sequences, FiniteSets

CONSTANT Outstanding   \* maximumOutstandingPerChannel (64)

Channels == {"api", "image"}
NoRequest == 0

NewTransport ==
    [pending     |-> [c \in Channels |-> <<>>],
     running     |-> [c \in Channels |-> NoRequest],
     completed   |-> [c \in Channels |-> <<>>],
     outstanding |-> [c \in Channels |-> 0],
     stopping    |-> FALSE]

(* submit, for several requests one after the other: as many as fit are    *)
(* accepted, the others refused.                                           *)
Room(h, c) == IF h.stopping THEN 0 ELSE Outstanding - h.outstanding[c]

Submitted(h, c, ids) ==
    [h EXCEPT !.pending[c] = @ \o ids, !.outstanding[c] = @ + Len(ids)]

(* takeCompleted.  Mutant: what was taken still counts.                    *)
TakenStillCounted(h, c) == [h EXCEPT !.completed[c] = <<>>]
Taken(h, c) == [h EXCEPT !.completed[c] = <<>>, !.outstanding[c] = @ - Len(h.completed[c])]

(* The thread of a channel: it takes a request, and later puts its answer  *)
(* among the completed ones.                                               *)
CanStart(h, c) == h.running[c] = NoRequest /\ h.pending[c] # <<>>
Started(h, c) == [h EXCEPT !.running[c] = Head(h.pending[c]), !.pending[c] = Tail(@)]

CanAnswer(h, c) == h.running[c] # NoRequest
Answered(h, c, ok) ==
    [h EXCEPT !.running[c] = NoRequest, !.completed[c] = Append(@, [id |-> h.running[c], ok |-> ok])]

(* shutdown: what waits is dropped, the threads end, what is left is freed.*)
Stopped(h) ==
    [h EXCEPT !.stopping = TRUE, !.pending = [c \in Channels |-> <<>>],
              !.outstanding = [c \in Channels |-> h.outstanding[c] - Len(h.pending[c])]]
CanJoin(h) == h.stopping /\ \A c \in Channels : h.running[c] = NoRequest
Joined(h) ==
    [h EXCEPT !.completed = [c \in Channels |-> <<>>],
              !.outstanding = [c \in Channels |-> h.outstanding[c] - Len(h.completed[c])]]

-----------------------------------------------------------------------------
(* The requests that are somewhere in the transport.                       *)
IdsOf(answers) == {answers[i].id : i \in DOMAIN answers}
Granted(answers) == {answers[i].id : i \in {i \in DOMAIN answers : answers[i].ok}}
Held(h, c) ==
    {h.pending[c][i] : i \in DOMAIN h.pending[c]} \cup ({h.running[c]} \ {NoRequest}) \cup IdsOf(h.completed[c])
=============================================================================
