-------------------------------- MODULE WsRelay --------------------------------
(***************************************************************************)
(* proxy/ws_proxy.rs: relay_websocket.  After the client's upgrade one     *)
(* loop per direction reads a frame and sends it on; select! ends both     *)
(* loops when one ends, wherever the other is.  A direction is named by    *)
(* the side that sends.  The sides send, close and break as they like, and *)
(* take a frame off their socket when they like.                           *)
(***************************************************************************)
EXTENDS Naturals, Sequences, SequencesExt

CONSTANTS MaxFrames, \* bound: frames a side sends
          Room       \* what a socket takes before a send has to wait

ASSUME RelayAssumption == MaxFrames \in Nat /\ Room \in Nat \ {0}

VARIABLES stage,  \* "upgrading", "relaying" or "over"
          left,   \* of each side: "no", "closed" or "broken"
          said,   \* the number of frames each side has sent
          inbox,  \* what the relay has not read of a direction
          held,   \* the frame a loop is sending, in a sequence
          outbox, \* what the receiver has not taken
          got     \* what it has taken

relayVars == <<stage, left, said, inbox, held, outbox, got>>

Sides == {"client", "upstream"}
Other(s) == IF s = "client" THEN "upstream" ELSE "client"

\* Frames are numbered from 1.
Close == 0

RelayInit ==
  /\ stage = "upgrading"
  /\ left = [s \in Sides |-> "no"]
  /\ said = [s \in Sides |-> 0]
  /\ inbox = [s \in Sides |-> <<>>]
  /\ held = [s \in Sides |-> <<>>]
  /\ outbox = [s \in Sides |-> <<>>]
  /\ got = [s \in Sides |-> <<>>]

-----------------------------------------------------------------------------
(* The sides *)

Speak(s) ==
  /\ stage # "over" /\ left[s] = "no" /\ said[s] < MaxFrames
  /\ said' = [said EXCEPT ![s] = @ + 1]
  /\ inbox' = [inbox EXCEPT ![s] = Append(@, said'[s])]
  /\ UNCHANGED <<stage, left, held, outbox, got>>

SayGoodbye(s) ==
  /\ stage # "over" /\ left[s] = "no"
  /\ left' = [left EXCEPT ![s] = "closed"]
  /\ inbox' = [inbox EXCEPT ![s] = Append(@, Close)]
  /\ UNCHANGED <<stage, said, held, outbox, got>>

Break(s) ==
  /\ stage # "over" /\ left[s] # "broken"
  /\ left' = [left EXCEPT ![s] = "broken"]
  /\ UNCHANGED <<stage, said, inbox, held, outbox, got>>

Take(s) ==
  /\ outbox[s] # <<>>
  /\ got' = [got EXCEPT ![s] = Append(@, Head(outbox[s]))]
  /\ outbox' = [outbox EXCEPT ![s] = Tail(@)]
  /\ UNCHANGED <<stage, left, said, inbox, held>>

-----------------------------------------------------------------------------
(* The relay *)

\* The upgrade of a client that is gone fails, and nothing is relayed.
Upgrade ==
  /\ stage = "upgrading"
  /\ stage' = IF left["client"] = "broken" THEN "over" ELSE "relaying"
  /\ UNCHANGED <<left, said, inbox, held, outbox, got>>

\* Mutated form: a close frame ends the loop without being passed on.
Read_hasty(s) ==
  /\ stage = "relaying" /\ held[s] = <<>> /\ inbox[s] # <<>>
  /\ inbox' = [inbox EXCEPT ![s] = Tail(@)]
  /\ IF Head(inbox[s]) = Close THEN stage' = "over" /\ UNCHANGED held
     ELSE held' = [held EXCEPT ![s] = <<Head(inbox[s])>>] /\ UNCHANGED stage
  /\ UNCHANGED <<left, said, outbox, got>>

Read(s) ==
  /\ stage = "relaying" /\ held[s] = <<>> /\ inbox[s] # <<>>
  /\ held' = [held EXCEPT ![s] = <<Head(inbox[s])>>]
  /\ inbox' = [inbox EXCEPT ![s] = Tail(@)]
  /\ UNCHANGED <<stage, left, said, outbox, got>>

\* The stream fails or ends; what was in it may never be read.
ReadError(s) ==
  /\ stage = "relaying" /\ held[s] = <<>> /\ left[s] = "broken"
  /\ stage' = "over"
  /\ UNCHANGED <<left, said, inbox, held, outbox, got>>

\* Nothing can be sent to a side that broke, or whose close the relay has read.
Deaf(s) ==
  left[s] = "broken" \/ (left[s] = "closed" /\ \A k \in DOMAIN inbox[s] : inbox[s][k] # Close)

\* A loop goes on after a frame and ends after a close.
Send(s) ==
  /\ stage = "relaying" /\ held[s] # <<>>
  /\ ~Deaf(Other(s)) /\ Len(outbox[s]) < Room
  /\ outbox' = [outbox EXCEPT ![s] = @ \o held[s]]
  /\ held' = [held EXCEPT ![s] = <<>>]
  /\ stage' = IF held[s] = <<Close>> THEN "over" ELSE stage
  /\ UNCHANGED <<left, said, inbox, got>>

SendError(s) ==
  /\ stage = "relaying" /\ held[s] # <<>> /\ Deaf(Other(s))
  /\ stage' = "over"
  /\ UNCHANGED <<left, said, inbox, held, outbox, got>>

Loop(s) == Read(s) \/ ReadError(s) \/ Send(s) \/ SendError(s)

RelayNext ==
  \/ Upgrade
  \/ \E s \in Sides : Loop(s) \/ Speak(s) \/ SayGoodbye(s) \/ Break(s) \/ Take(s)

\* The task runs whenever one of its loops can go on, and polls both.
RelaySpec ==
  /\ RelayInit /\ [][RelayNext]_relayVars
  /\ WF_relayVars(Upgrade)
  /\ \A s \in Sides : WF_relayVars(Loop(s))

-----------------------------------------------------------------------------
(* Properties *)

Passed(s) == got[s] \o outbox[s]

\* A side that ends with a close frame is heard to the end by a side that goes on
\* taking its frames and does not leave itself: every frame gets there, in order, before
\* the relay tears both directions down, and the close after them unless the other
\* loop has a frame for the closed side in hand, which fails and ends the relay first.
GoodbyeDelivers ==
  \A s \in Sides :
    LET frames == [k \in 1..said[s] |-> k]
    IN []<>(outbox[s] = <<>>) =>
         (left[s] = "closed" ~>
            \/ /\ stage = "over"
               /\ Passed(s) = frames \o <<Close>> \/ (Passed(s) = frames /\ held[Other(s)] # <<>>)
            \/ left[s] = "broken" \/ left[Other(s)] # "no")
=============================================================================
