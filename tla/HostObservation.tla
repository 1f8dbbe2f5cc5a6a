--------------------------- MODULE HostObservation ---------------------------
(***************************************************************************)
(* Host observation: `indentured host` (src/bin/indentured/host.rs) asks   *)
(* the daemon (src/http/host.rs), whose blocking worker asks the broker in *)
(* the graphical session (src/host_observation.rs), which lists or         *)
(* captures the desktop and serves one connection at a time.  Meanwhile    *)
(* the user of the desktop moves displays and windows, callers give up,    *)
(* and the broker may hang or be stopped.                                  *)
(*                                                                         *)
(* An arrangement of the displays may come back: a change that is undone   *)
(* between two looks is one the code cannot see, so every image keeps the  *)
(* number of changes there were between the looks around it.               *)
(***************************************************************************)
EXTENDS Naturals, Sequences, Functions

CONSTANTS
    Clients,      \* invocations of `indentured host`, one request each
    Asks,         \* what they may ask for: functions from Clients to Targets
    DisplayIds, WindowIds,
    Displays,     \* the displays, in the order of their ids
    Layouts,      \* the arrangements they may be in, numbered from the first one
    WindowLists,  \* the windows an application may show, in the order of their ids
    Opened,       \* the ones it shows at first
    Named,        \* the window a request names
    HostSlots,    \* permits of host_slots
    MaxChanges    \* bound: changes of the desktop

Targets == {"list", "desktop", "application", "window"}

ASSUME HostAssumption ==
    /\ Asks \subseteq [Clients -> Targets]
    /\ Displays \in Seq(DisplayIds)
    /\ WindowLists \subseteq Seq(WindowIds)
    /\ Opened \in WindowLists
    /\ Named \in WindowIds
    /\ DisplayIds \cap WindowIds = {}
    /\ HostSlots \in Nat
    /\ Layouts \in Nat \ {0}

VARIABLES
    host,         \* [displays, windows, changes]: the arrangement of the displays and
                  \* the windows the application owns and shows
    want,         \* client -> its target
    cli,          \* client -> where its command is
    local,        \* client -> the images it downloaded
    handler,      \* client -> where the daemon is with its request
    slots,        \* free permits
    conn,         \* client -> its broker connection
    backlog,      \* connections the broker has not accepted
    reply,        \* client -> the manifest sent to it
    stored,       \* client -> its archive: none, partial or whole
    peer,         \* the connection the broker serves
    broker,       \* [at, inv, selected, right, missed, images]: its observation
    stopped       \* STOP

command == <<want, cli, local>>
daemon == <<handler, slots, reply, stored>>
link == <<conn, backlog, peer>>
vars == <<host, command, daemon, link, broker, stopped>>

NoInventory == [displays |-> 0, windows |-> <<>>]

NoManifest == [status |-> "none", inv |-> NoInventory, images |-> <<>>]

FailedManifest == [status |-> "failed", inv |-> NoInventory, images |-> <<>>]

\* right: whether the last capture shows what it was taken for; missed: the
\* changes there were since the look before it.
At(step) ==
    [at |-> step, inv |-> NoInventory, selected |-> <<>>, right |-> FALSE, missed |-> 0, images |-> <<>>]

Idle == At("accept")

Init ==
    /\ host = [displays |-> 1, windows |-> Opened, changes |-> 0]
    /\ want \in Asks
    /\ cli = [c \in Clients |-> "start"]
    /\ local = [c \in Clients |-> <<>>]
    /\ handler = [c \in Clients |-> "none"]
    /\ slots = HostSlots
    /\ conn = [c \in Clients |-> "none"]
    /\ backlog = <<>>
    /\ peer = "none"
    /\ reply = [c \in Clients |-> NoManifest]
    /\ stored = [c \in Clients |-> "none"]
    /\ broker = Idle
    /\ stopped = FALSE

-----------------------------------------------------------------------------
(* The desktop.                                                            *)

\* What the broker's loop is at.
Current == broker.selected[Len(broker.images) + 1]

IsDisplay == Current \in DisplayIds

\* A change between the look before a capture and its end.
Missing(concerned) ==
    IF broker.at \in {"capture", "after"} /\ concerned
    THEN [broker EXCEPT !.missed = @ + 1] ELSE broker

\* A display is moved, added or removed, or a change of the displays undone.
Rearrange ==
    /\ host.changes < MaxChanges
    /\ \E displays \in (1..Layouts) \ {host.displays} :
          host' = [displays |-> displays, windows |-> host.windows, changes |-> host.changes + 1]
    /\ broker' = Missing(IsDisplay)
    /\ UNCHANGED <<command, daemon, link, stopped>>

\* A window is hidden, shown, closed, or its id goes to another owner; the
\* last one may go with the application.
WindowsChange ==
    /\ host.changes < MaxChanges
    /\ \E windows \in WindowLists \ {host.windows} :
          host' = [displays |-> host.displays, windows |-> windows, changes |-> host.changes + 1]
    /\ broker' = Missing(~IsDisplay)
    /\ UNCHANGED <<command, daemon, link, stopped>>

-----------------------------------------------------------------------------
(* The command.                                                            *)

CliStep(c, from, to) == cli[c] \in from /\ cli' = [cli EXCEPT ![c] = to]

\* result.json says "in_progress" before anything is sent.
Ask(c) ==
    /\ CliStep(c, {"start"}, "asked")
    /\ handler' = [handler EXCEPT ![c] = "request"]
    /\ UNCHANGED <<host, want, local, slots, reply, stored, link, broker, stopped>>

\* A response nobody reads any more is dropped with its connection.
Dropped(c) == [reply EXCEPT ![c] = NoManifest]

\* Any error, the 90 seconds or SIGINT.  The connection to the daemon closes.
GiveUp(c) ==
    /\ CliStep(c, {"asked", "download", "verify"}, "failed")
    /\ local' = [local EXCEPT ![c] = <<>>]
    /\ reply' = IF handler[c] = "answered" THEN Dropped(c) ELSE reply
    /\ UNCHANGED <<host, want, handler, slots, stored, link, broker, stopped>>

\* The manifest must be consistent before anything is fetched.
ValidManifest(m) == m.status \in {"succeeded", "failed"} /\ (m.status = "failed" => m.images = <<>>)

ReadResponse(c) ==
    /\ handler[c] = "answered"
    /\ ValidManifest(reply[c])
    /\ CliStep(c, {"asked"}, IF stored[c] = "none" THEN "verify" ELSE "download")
    /\ UNCHANGED <<host, want, local, daemon, link, broker, stopped>>

\* The archive of this observation, from its exact path; one that omits files
\* is an error.
Download(c) ==
    /\ stored[c] = "whole"
    /\ CliStep(c, {"download"}, "verify")
    /\ local' = [local EXCEPT ![c] = reply[c].images]
    /\ UNCHANGED <<host, want, daemon, link, broker, stopped>>

\* Success is announced last: a succeeded manifest, at least one image for a
\* capture, and every image of it local and a PNG.
Verify(c) ==
    /\ reply[c].status = "succeeded"
    /\ want[c] # "list" => reply[c].images # <<>>
    /\ local[c] = reply[c].images
    /\ CliStep(c, {"verify"}, "succeeded")
    /\ UNCHANGED <<host, want, local, daemon, link, broker, stopped>>

-----------------------------------------------------------------------------
(* The daemon's handler and its blocking worker.                           *)

Handle(c, from, to) == handler[c] = from /\ handler' = [handler EXCEPT ![c] = to]

\* try_acquire_owned: the caller is told the host is busy and nothing waits.
\* A refusal is answered without a manifest.
Admit(c) ==
    /\ \/ slots > 0 /\ Handle(c, "request", "body") /\ slots' = slots - 1
       \/ slots = 0 /\ Handle(c, "request", "refused") /\ UNCHANGED slots
    /\ UNCHANGED <<host, command, reply, stored, link, broker, stopped>>

\* The body within five seconds, then the request; a caller that leaves here
\* takes the handler and its permit with it.
ReadBody(c) ==
    /\ \/ cli[c] = "asked" /\ Handle(c, "body", "connect") /\ UNCHANGED slots
       \/ Handle(c, "body", "refused") /\ slots' = slots + 1
    /\ UNCHANGED <<host, command, reply, stored, link, broker, stopped>>

\* connect: refused, no room in the backlog for five seconds, or written.
Connect(c) ==
    /\ \/ /\ ~stopped
          /\ Handle(c, "connect", "receive")
          /\ conn' = [conn EXCEPT ![c] = "queued"]
          /\ backlog' = Append(backlog, c)
          /\ UNCHANGED <<reply, peer>>
       \/ /\ Handle(c, "connect", "publish")
          /\ reply' = [reply EXCEPT ![c] = FailedManifest]
          /\ UNCHANGED link
    /\ UNCHANGED <<host, command, slots, stored, broker, stopped>>

\* The stream is closed: what the broker still writes goes nowhere.
Hangup(c) == [conn EXCEPT ![c] = IF @ \in {"queued", "serving"} THEN "dropped" ELSE "none"]

\* An unlimited wait for the broker's frame.
ReceiveUnlimited(c) ==
    /\ conn[c] \in {"replied", "closed"}
    /\ Handle(c, "receive", "publish")
    /\ conn' = Hangup(c)
    /\ reply' = IF conn[c] = "replied" THEN reply ELSE [reply EXCEPT ![c] = FailedManifest]
    /\ UNCHANGED <<host, command, slots, stored, backlog, peer, broker, stopped>>

\* The frame and decode_archive; a closed connection, a frame that is none or
\* sixty seconds make a failed manifest.
Receive(c) ==
    /\ Handle(c, "receive", "publish")
    /\ \/ conn[c] = "replied" /\ UNCHANGED reply
       \/ reply' = [reply EXCEPT ![c] = FailedManifest]
    /\ conn' = Hangup(c)
    /\ UNCHANGED <<host, command, slots, stored, backlog, peer, broker, stopped>>

\* publish_decoded into the private scratch: whole, or not at all.
Publish(c) ==
    /\ \/ Handle(c, "publish", "collect") /\ UNCHANGED <<slots, reply>>
       \/ Handle(c, "publish", "refused") /\ slots' = slots + 1 /\ reply' = Dropped(c)
    /\ UNCHANGED <<host, command, stored, link, broker, stopped>>

\* The archive goes into the store under a fresh identity, whole or without
\* what the limits omit, or there is none and its directory is removed again.
\* The permit goes with the closure.
Collect(c) ==
    /\ \/ /\ Handle(c, "collect", "answered")
          /\ \E kept \in {"none", "partial", "whole"} : stored' = [stored EXCEPT ![c] = kept]
          /\ reply' = IF cli[c] = "asked" THEN reply ELSE Dropped(c)
       \/ /\ Handle(c, "collect", "refused")
          /\ reply' = Dropped(c)
          /\ UNCHANGED stored
    /\ slots' = slots + 1
    /\ UNCHANGED <<host, command, link, broker, stopped>>

-----------------------------------------------------------------------------
(* The broker.                                                             *)

\* The connections the kernel closes with the listener, and with the stream
\* being served.
AfterClose(c) ==
    IF conn[c] \in {"queued", "serving"} THEN "closed"
    ELSE IF conn[c] = "dropped" THEN "none" ELSE conn[c]

BrokerEnds ==
    /\ ~stopped
    /\ stopped' = TRUE
    /\ conn' = [c \in Clients |-> AfterClose(c)]
    /\ backlog' = <<>>
    /\ peer' = "none"
    /\ broker' = Idle
    /\ UNCHANGED <<host, command, daemon>>

\* serve: a signal sets STOP, which is looked at between two connections.
Stop == broker.at = "accept" /\ BrokerEnds

\* The process dies.  Its socket stays, and a new broker refuses to start
\* until somebody removes it.
Die == broker.at # "accept" /\ BrokerEnds

Observing == At("inventory")

\* check_peer may refuse and close; otherwise the frame is read within five
\* seconds, also from a stream whose other end has gone.
Accept ==
    /\ broker.at = "accept"
    /\ ~stopped
    /\ backlog # <<>>
    /\ backlog' = Tail(backlog)
    /\ LET c == Head(backlog)
       IN  \/ /\ conn' = [conn EXCEPT ![c] = IF @ = "queued" THEN "closed" ELSE "none"]
              /\ UNCHANGED <<peer, broker>>
           \/ /\ conn' = [conn EXCEPT ![c] = IF @ = "queued" THEN "serving" ELSE @]
              /\ peer' = c
              /\ broker' = Observing
    /\ UNCHANGED <<host, command, daemon, stopped>>

\* build_observation touches nothing but the broker's own memory.
others == <<host, command, daemon, link, stopped>>

\* Any error, the 45 seconds included: no image of a partial capture is kept.
FailObservation ==
    /\ broker.at \in {"inventory", "recheck", "capture", "after"}
    /\ broker' = [broker EXCEPT !.at = "failed", !.selected = <<>>, !.right = FALSE, !.missed = 0,
                             !.images = <<>>]
    /\ UNCHANGED others

\* select: every display, every window the application shows, or the window
\* named if the application still owns and shows it.
Select(target, windows) ==
    IF target = "desktop" THEN Displays
    ELSE IF target = "application" THEN windows
    ELSE IF target = "window" /\ Named \in Range(windows) THEN <<Named>>
    ELSE <<>>

\* The inventory of the manifest, and what is selected from it: an empty
\* selection is an error.
Inventory ==
    /\ broker.at = "inventory"
    /\ want[peer] # "list" => Select(want[peer], host.windows) # <<>>
    /\ broker' = [broker EXCEPT
          !.at = IF want[peer] = "list" THEN "write" ELSE "recheck",
          !.inv = [displays |-> host.displays, windows |-> host.windows],
          !.selected = Select(want[peer], host.windows)]
    /\ UNCHANGED others

\* check_display_topology.
SameTopology == host.displays = broker.inv.displays

\* The display is where the inventory has it, or the application still owns
\* and shows the window.
AsListed == IF IsDisplay THEN SameTopology ELSE Current \in Range(host.windows)

\* A fresh inventory immediately before each capture.
Recheck ==
    /\ broker.at = "recheck"
    /\ AsListed
    /\ broker' = [broker EXCEPT !.at = "capture"]
    /\ UNCHANGED others

\* screencapture takes the rectangle of the inventory, or whatever has the
\* window's id by now.
Capture ==
    /\ broker.at = "capture"
    /\ broker' = [broker EXCEPT !.at = "after", !.right = AsListed]
    /\ UNCHANGED others

\* Without the look after a display was captured.
TopologyStillUnchecked == TRUE

\* A moved, added or removed display invalidates the whole observation.
TopologyStill == IsDisplay => SameTopology

After ==
    /\ broker.at = "after"
    /\ TopologyStill
    /\ broker' = [broker EXCEPT
          !.at = IF Len(broker.images) + 1 = Len(broker.selected) THEN "write" ELSE "recheck",
          !.right = FALSE,
          !.missed = 0,
          !.images = Append(@, [of |-> Current, right |-> broker.right, missed |-> broker.missed])]
    /\ UNCHANGED others

\* The archive is written within ten seconds; a stream that was dropped takes
\* nothing.
WriteReply ==
    /\ broker.at \in {"write", "failed"}
    /\ LET m == [status |-> IF broker.at = "write" THEN "succeeded" ELSE "failed",
                 inv |-> broker.inv, images |-> broker.images]
       IN  \/ /\ conn[peer] = "serving"
              /\ conn' = [conn EXCEPT ![peer] = "replied"]
              /\ reply' = [reply EXCEPT ![peer] = m]
           \/ /\ conn' = [conn EXCEPT ![peer] = IF @ = "serving" THEN "closed" ELSE "none"]
              /\ UNCHANGED reply
    /\ peer' = "none"
    /\ broker' = Idle
    /\ UNCHANGED <<host, command, handler, slots, stored, backlog, stopped>>

-----------------------------------------------------------------------------

Command(c) == Ask(c) \/ GiveUp(c) \/ ReadResponse(c) \/ Download(c) \/ Verify(c)

Daemon(c) == Admit(c) \/ ReadBody(c) \/ Connect(c) \/ Receive(c) \/ Publish(c) \/ Collect(c)

Broker == Stop \/ Die \/ Accept \/ FailObservation \/ Inventory \/ Recheck \/ Capture \/ After \/ WriteReply

Next ==
    \/ Rearrange
    \/ WindowsChange
    \/ \E c \in Clients : Command(c) \/ Daemon(c)
    \/ Broker

Spec == Init /\ [][Next]_vars

\* The daemon's steps end by themselves or by their limits.  Nothing is
\* assumed of the broker, the desktop or the callers.
FairSpec == Spec /\ \A c \in Clients : WF_vars(Daemon(c))

-----------------------------------------------------------------------------

Holding(c) == handler[c] \in {"body", "connect", "receive", "publish", "collect"}

\* How many changes it takes that no look sees: a display is looked at before
\* and after its capture, a window only before.
Unseen(target) == IF target = "desktop" THEN 2 ELSE 1

\* A capture that a command reports as succeeded is complete: one image of
\* every display in order, or the window named, or every window the application
\* showed.  It shows what it is labelled as, but for what the two looks cannot
\* see: a display image was taken under the arrangement its inventory lists
\* unless the displays were changed and changed back between the checks around
\* it, and a window image shows a window the application owns and shows unless
\* the windows changed after the check before it.  And what the daemon holds of
\* a failed observation has no image.
CapturedAsNamed ==
    \A c \in Clients :
        /\ reply[c].status = "failed" => reply[c].images = <<>>
        /\ cli[c] = "succeeded" =>
              LET shown == [i \in DOMAIN local[c] |-> local[c][i].of]
              IN  /\ want[c] = "list" => shown = <<>>
                  /\ want[c] = "window" => shown = <<Named>>
                  /\ want[c] = "application" => shown = reply[c].inv.windows
                  /\ want[c] = "desktop" => shown = Displays
                  /\ \A i \in DOMAIN shown : local[c][i].right \/ local[c][i].missed >= Unseen(want[c])

\* The permit of a request comes back, whether its caller stays or leaves and
\* whether the broker answers, hangs or is gone.
SlotComesBack == \A c \in Clients : Holding(c) ~> ~Holding(c)
=============================================================================
