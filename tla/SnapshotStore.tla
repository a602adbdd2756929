---------------------------- MODULE SnapshotStore ----------------------------
(***************************************************************************)
(* What MVCCController promises its callers, without leases, locks or a    *)
(* collection loop: numbered snapshots that never change, a read that      *)
(* returns the newest number's snapshot or, while that is still being      *)
(* stored, a blank placeholder, and a store that may forget a snapshot     *)
(* only when nobody holds it and it is not the newest.                     *)
(***************************************************************************)
EXTENDS Integers

CONSTANTS Clients, Contents, Blank

VARIABLES
    next,    \* the next number
    ticket,  \* the number a client took and has not published yet, or -1
    store,   \* number -> content
    own,     \* the snapshot a client stored and was not handed yet
    view     \* the snapshot a client holds

svars == <<next, ticket, store, own, view>>

NoView == [version |-> 0, content |-> Blank, lease |-> "none"]
Placeholder == [version |-> 0, content |-> Blank, lease |-> "private"]
Pinned(v, x) == [version |-> v, content |-> x, lease |-> "mapped"]

Holds(s, v) == s.lease = "mapped" /\ s.version = v

Newest == IF next > 0 THEN next - 1 ELSE 0

SInit ==
    /\ next = 0
    /\ ticket = [c \in Clients |-> -1]
    /\ store = [v \in {} |-> Blank]
    /\ own = [c \in Clients |-> NoView]
    /\ view = [c \in Clients |-> NoView]

Reserve(c) ==
    /\ ticket[c] = -1 /\ own[c] = NoView
    /\ ticket' = [ticket EXCEPT ![c] = next]
    /\ next' = next + 1
    /\ UNCHANGED <<store, own, view>>

\* The caller receives s, and keeps it or lets it go.
Receive(c, s) == view' \in {view, [view EXCEPT ![c] = s]}

Publish(c) ==
    /\ ticket[c] # -1
    /\ ticket[c] \notin DOMAIN store
    /\ ticket' = [ticket EXCEPT ![c] = -1]
    /\ \E x \in Contents :
          /\ store' = [v \in DOMAIN store \cup {ticket[c]} |->
                          IF v = ticket[c] THEN x ELSE store[v]]
          /\ \/ own' = own /\ Receive(c, Pinned(ticket[c], x))
             \/ own' = [own EXCEPT ![c] = Pinned(ticket[c], x)] /\ view' = view
    /\ next' = next

Deliver(c) ==
    /\ own[c] # NoView
    /\ own[c].version \in DOMAIN store
    /\ store[own[c].version] = own[c].content
    /\ Receive(c, own[c])
    /\ own' = [own EXCEPT ![c] = NoView]
    /\ UNCHANGED <<next, ticket, store>>

ReadCurrent(c) ==
    /\ view' = [view EXCEPT ![c] = IF Newest \in DOMAIN store
                                   THEN Pinned(Newest, store[Newest])
                                   ELSE Placeholder]
    /\ \/ Newest \in DOMAIN store
       \/ next = 0
       \/ \E d \in Clients : ticket[d] = Newest
    /\ UNCHANGED <<next, ticket, store, own>>

Release(c) ==
    /\ view' = [view EXCEPT ![c] = NoView]
    /\ UNCHANGED <<next, ticket, store, own>>

Forget ==
    \E v \in DOMAIN store :
        /\ v # Newest
        /\ \A c \in Clients : ~Holds(view[c], v) /\ ~Holds(own[c], v)
        /\ store' = [w \in DOMAIN store \ {v} |-> store[w]]
        /\ UNCHANGED <<next, ticket, own, view>>

SNext ==
    \/ \E c \in Clients : Reserve(c) \/ Publish(c) \/ Deliver(c)
                            \/ ReadCurrent(c) \/ Release(c)
    \/ Forget

SSpec == SInit /\ [][SNext]_svars
=============================================================================
