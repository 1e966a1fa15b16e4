------------------------------ MODULE SlidingWindow ------------------------------
(***************************************************************************)
(* What the login rate limiter (api/server.py RateLimiter) promises to the *)
(* clients of the login route: a window that slides over every attempt     *)
(* since the client last logged in and over nothing else.  It has no table *)
(* that grows and is pruned, no stamps that have gone stale, and no client *)
(* matters to another.                                                     *)
(***************************************************************************)
EXTENDS Naturals, Sequences

CONSTANTS
    Client,
    Limit,      \* attempts in a window
    Window      \* its length

VARIABLES
    recent,     \* per client the ages of its attempts of the last window, oldest first
    answer      \* whose attempt was just answered, and how

vars == <<recent, answer>>

Nobody == [by |-> "nobody", answer |-> "none"]

-----------------------------------------------------------------------------
\* There is room for the attempt, or there is none: a refused one does not count.
Admit(c) ==
    /\ Len(recent[c]) < Limit
    /\ recent' = [recent EXCEPT ![c] = Append(@, 0)]
    /\ answer' = [by |-> c, answer |-> "admitted"]

Refuse(c) ==
    /\ Len(recent[c]) = Limit
    /\ answer' = [by |-> c, answer |-> "refused"]
    /\ UNCHANGED recent

\* A password was wrong, or the client has logged in and starts anew.
Checked(c) ==
    /\ \/ UNCHANGED recent
       \/ recent' = [recent EXCEPT ![c] = <<>>]
    /\ answer' = Nobody

\* All attempts are older; the oldest drop out of the window.
Slides(before, after) ==
    LET gone == Len(before) - Len(after) IN
    /\ gone \in Nat
    /\ \A i \in 1 .. gone : before[i] + 1 = Window
    /\ \A i \in 1 .. Len(after) : after[i] = before[gone + i] + 1 /\ after[i] < Window

Tick ==
    /\ recent' = [c \in Client |-> recent'[c]]
    /\ \A c \in Client : Slides(recent[c], recent'[c])
    /\ answer' = Nobody

Init ==
    /\ recent = [c \in Client |-> <<>>]
    /\ answer = Nobody

Next == Tick \/ \E c \in Client : Admit(c) \/ Refuse(c) \/ Checked(c)

Spec == Init /\ [][Next]_vars
=============================================================================
