------------------------------ MODULE Backend -------------------------------
(***************************************************************************)
(* The server over what lies beneath its handlers: the event library it    *)
(* was built with and the cached lookup of connections.                    *)
(*                                                                         *)
(* src/src/network/epoll.cpp uses the kernel's epoll on Linux and carries  *)
(* an emulation by poll() for other systems.  The emulation keeps the      *)
(* watched descriptors in the order in which they were registered, reports *)
(* the first MaxEvents that are ready, and never asks poll for EPOLLRDHUP. *)
(*                                                                         *)
(* get_connection_of (src/src/server/server.cpp) remembers the Connection  *)
(* it found last by its address, across the calls of remove_connection and *)
(* of operator new, which may use an address again.                        *)
(***************************************************************************)
EXTENDS ServerRoom

CONSTANTS
    Backends,   \* the builds looked at: "epoll" (Linux), "poll" (elsewhere)
    Address     \* where operator new may put a Connection

ASSUME BackendAssumption ==
    /\ Backends \subseteq {"epoll", "poll"}
    /\ None \notin Address

VARIABLES
    backend,    \* the build
    entries,    \* what is registered, in the order of registration
    address,    \* where the Connection of c is, None if it has none
    cached      \* cached_connection of get_connection_of

libraryVars == <<backend, entries, address, cached>>
allVars     == <<vars, libraryVars>>

PollEntry == [fd : Fd \cup {ListenFd, StdinFd}, events : SUBSET EpollFlag]

Entry(f, events) == [fd |-> f, events |-> events]

BackendTypeOK ==
    /\ TypeOK
    /\ backend \in Backends
    /\ entries \in Seq(PollEntry)
    /\ address \in [Conn -> Address \cup {None}]
    /\ cached \in Address \cup {None}

(* create_epoll.                                                            *)
BackendInit ==
    /\ Init
    /\ backend \in Backends
    /\ entries = <<Entry(ListenFd, {"EPOLLIN"}), Entry(StdinFd, {"EPOLLIN"})>>
    /\ address = [c \in Conn |-> None]
    /\ cached  = None

-----------------------------------------------------------------------------
(* The registrations.                                                       *)

Registered(f) == \E i \in 1 .. Len(entries) : entries[i].fd = f

(* The events asked for at descriptor f.                                    *)
Asked(f) ==
    UNION {entries[i].events : i \in {j \in 1 .. Len(entries) : entries[j].fd = f}}

(* Adding what is there (EEXIST), and changing or removing what is not      *)
(* (ENOENT), changes nothing.  asked gives the new events of descriptors.   *)
EPOLL_CTL_ADD(f, events) ==
    IF Registered(f) THEN entries ELSE Append(entries, Entry(f, events))

EPOLL_CTL_MOD(es, asked) ==
    [i \in 1 .. Len(es) |->
        IF es[i].fd \in DOMAIN asked THEN Entry(es[i].fd, asked[es[i].fd]) ELSE es[i]]

EPOLL_CTL_DEL(es, fs) == Only(es, {e \in PollEntry : e.fd \notin fs})

(* The calls of epoll_register, epoll_fd_remove and epoll_fd_mod a handler  *)
(* makes are the ones it records in interest: events for a connection that  *)
(* had none, none, and others than before.                                  *)
Added    == {c \in Conn : interest[c] = {} /\ interest'[c] # {}}
Removed  == {c \in Conn : interest[c] # {} /\ interest'[c] = {}}
Modified == {c \in Conn : interest[c] # {} /\ interest'[c] \notin {{}, interest[c]}}

AskedAnew ==
    [f \in {conn[c].fd : c \in Modified} |->
        interest'[CHOOSE c \in Modified : conn[c].fd = f]]

(* The accept loop adds one descriptor in a round; no other handler adds.   *)
EpollCalls ==
    IF Added = {}
    THEN entries' = EPOLL_CTL_MOD(EPOLL_CTL_DEL(entries, {conn[c].fd : c \in Removed}),
                                  AskedAnew)
    ELSE \E c \in Added : entries' = EPOLL_CTL_ADD(conn'[c].fd, interest'[c])

-----------------------------------------------------------------------------
(* epoll_wait of the emulation.                                             *)

(* The end of the stream alone makes a socket readable; whether it is also  *)
(* POLLHUP differs between systems.                                         *)
PollHangups == {c \in connections : fin[c] \/ rst[c]}

PollFlags(c, hups) ==
    (Readiness(c) \cap Asked(conn[c].fd) \cap {"EPOLLIN", "EPOLLOUT"}) \cup
    (IF rst[c] \/ c \in hups THEN {"EPOLLHUP", "EPOLLRDHUP"} ELSE {})

PollEvent(f, flags, owner) == [fd |-> f, flags |-> flags, owner |-> owner]

PollReady(hups, typed) ==
    {e \in {PollEvent(conn[c].fd, PollFlags(c, hups), c) : c \in connections} :
        e.flags # {}} \cup
    {e \in ReadyEvents : e.fd = ListenFd} \cup typed

(* The ready descriptors before f.                                          *)
Earlier(ready, f) ==
    {e \in ready : \E i, j \in 1 .. Len(entries) :
                      entries[i].fd = e.fd /\ entries[j].fd = f /\ i < j}

poll_wait ==
    /\ pc = "wait"
    /\ \E hups \in SUBSET PollHangups, typed \in SUBSET StdinEvents :
         LET ready == {e \in PollReady(hups, typed) : Registered(e.fd)}
         IN  /\ ready # {}
             /\ batch' = {e \in ready : Cardinality(Earlier(ready, e.fd)) < MaxEvents}
    /\ pc' = "dispatch"
    /\ UNCHANGED <<sockVars, conn, interest, reader, server_closing, screen, userVars>>

WaitStep ==
    /\ IF backend = "poll" THEN poll_wait ELSE epoll_wait
    /\ UNCHANGED libraryVars

-----------------------------------------------------------------------------
(* The lookup.                                                              *)

Live == {address[c] : c \in connections}

Found(f) ==
    IF get_connection_of(f) = {} THEN None
    ELSE address[CHOOSE c \in get_connection_of(f) : TRUE]

(* The descriptor in the Connection at address a.                           *)
FdAt(a) == conn[CHOOSE c \in connections : address[c] = a].fd

(* What get_connection_of returns and remembers.  Without the test that the *)
(* cached connection is still in the list it would read freed memory, which *)
(* may hold anything, also the descriptor looked for.                       *)
Lookup_Trusting(f) ==
    IF cached # None /\ (cached \notin Live \/ FdAt(cached) = f) THEN cached ELSE Found(f)
Lookup(f) ==
    IF cached \in Live /\ FdAt(cached) = f THEN cached ELSE Found(f)

(* The event a step took from the batch, looked up unless it is the accept  *)
(* predicate that takes it.                                                 *)
LookedUp == {e \in batch \ batch' : pc = "dispatch" /\ ~event_is_accept_client_connection(e)}

-----------------------------------------------------------------------------
(* Any other step of the server, with what it does to the registrations and *)
(* to the addresses.  server_cleanup makes no call of epoll_ctl: it closes  *)
(* the instance, and nobody waits for it again.                             *)

Arrived(c)  == c \notin connections /\ conn'[c].state # "FREED"
Departed(c) == c \in connections /\ conn'[c].state = "FREED"

DispatchStep ==
    /\ pc # "wait" /\ ServerNext
    /\ cached' \in IF LookedUp = {} THEN {cached} ELSE {Lookup(e.fd) : e \in LookedUp}
    /\ IF pc = "cleanup" THEN UNCHANGED entries ELSE EpollCalls
    /\ IF \E c \in Conn : Arrived(c)
       THEN \E c \in Conn, a \in Address \ Live :
              Arrived(c) /\ address' = [address EXCEPT ![c] = a]
       ELSE address' = [c \in Conn |-> IF Departed(c) THEN None ELSE address[c]]
    /\ UNCHANGED backend

BackendNext == WaitStep \/ DispatchStep \/ (NetworkNext /\ UNCHANGED libraryVars)

BackendSpec == BackendInit /\ [][BackendNext]_allVars

(* As FairSpec of Server.                                                   *)
FairBackend ==
    /\ BackendSpec
    /\ WF_allVars(WaitStep \/ DispatchStep)
    /\ \A c \in Readers :
         WF_allVars(RemoteRead(c) /\ UNCHANGED <<serverVars, libraryVars>>)

-----------------------------------------------------------------------------
(* For every event that is still to be handled the lookup finds the         *)
(* connection the event was reported for, and none for the listening socket *)
(* and the terminal, although the remembered Connection may have been       *)
(* deleted and its address, or its descriptor, given to another client.     *)
LookupFindsOwner ==
    Running => \A e \in batch :
        Lookup(e.fd) = IF e.owner = None THEN None ELSE address[e.owner]

(* What the handlers' calls of epoll_ctl leave in the table is what the     *)
(* connections need: an entry for the listening socket, the terminal and    *)
(* the socket of each live connection, no descriptor twice and none of a    *)
(* closed socket; output is asked for where some is queued and nowhere      *)
(* else, and input everywhere until "/quit".  The emulation does not notice *)
(* a close(): a descriptor that is left behind would refuse the next client *)
(* that is given it (EEXIST), which ends the server.                        *)
RegistrationsMatch ==
    Running =>
        /\ {entries[i].fd : i \in 1 .. Len(entries)}
             = {ListenFd, StdinFd} \cup {conn[c].fd : c \in connections}
        /\ \A i, j \in 1 .. Len(entries) : entries[i].fd = entries[j].fd => i = j
        /\ \A c \in connections :
             /\ "EPOLLOUT" \in Asked(conn[c].fd) <=> conn[c].out_buffer # <<>>
             /\ "EPOLLIN" \in Asked(conn[c].fd) \/ server_closing

-----------------------------------------------------------------------------
(* A claim of the documentation that the code does not keep.                *)

(* README.md:46: the emulation has the same shape as epoll; README.md:39:   *)
(* "/quit" closes the room.  When all clients go on reading the program     *)
(* ends, also if more clients are in the room than one call of epoll_wait   *)
(* reports (MAX_EPOLL_EVENTS).                                              *)
LargeRoomCloses == ClosingEnds
=============================================================================
