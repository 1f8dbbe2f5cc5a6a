------------------------ MODULE HostObservationProofs ------------------------
(***************************************************************************)
(* What a command reports as captured is complete and is what its manifest *)
(* says it is, for any number of callers, permits, displays and windows,   *)
(* and however often the desktop changes.                                  *)
(***************************************************************************)
EXTENDS HostObservation, SequenceTheorems, TLAPS

Images == [of : DisplayIds \cup WindowIds, right : BOOLEAN, missed : Nat]

Inventories == [displays : Nat, windows : WindowLists \cup {<<>>}]

Manifests == [status : {"none", "succeeded", "failed"}, inv : Inventories, images : Seq(Images)]

Connections == {"none", "queued", "serving", "replied", "closed", "dropped"}

Observations ==
    [at : {"accept", "inventory", "recheck", "capture", "after", "write", "failed"},
     inv : Inventories, selected : Seq(DisplayIds \cup WindowIds),
     right : BOOLEAN, missed : Nat, images : Seq(Images)]

Desktops == [displays : Nat, windows : WindowLists, changes : Nat]

(* The variables the argument is about keep their types.                   *)
HostTypes ==
    /\ host \in Desktops
    /\ want \in [Clients -> Targets]
    /\ cli \in [Clients -> {"start", "asked", "download", "verify", "succeeded", "failed"}]
    /\ local \in [Clients -> Seq(Images)]
    /\ handler \in [Clients -> {"none", "request", "body", "connect", "receive",
                                "publish", "collect", "answered", "refused"}]
    /\ conn \in [Clients -> Connections]
    /\ backlog \in Seq(Clients)
    /\ reply \in [Clients -> Manifests]
    /\ broker \in Observations
    /\ broker.at # "accept" => peer \in Clients

(* The first images of a selection, each of them right unless there were   *)
(* changes that the looks around it could not see.                         *)
Labelled(images, target, inv) ==
    /\ Len(images) <= Len(Select(target, inv.windows))
    /\ \A i \in DOMAIN images :
          /\ images[i].of = Select(target, inv.windows)[i]
          /\ images[i].right \/ images[i].missed >= Unseen(target)

(* All of them.                                                            *)
Complete(images, target, inv) ==
    /\ Labelled(images, target, inv)
    /\ Len(images) = Len(Select(target, inv.windows))

(* From the look before a capture to its end: without a change everything  *)
(* is as listed, and one change of the displays is a difference that the   *)
(* look after the capture sees.                                            *)
WatchOK ==
    /\ broker.at \notin {"capture", "after"} => broker.missed = 0
    /\ broker.at \in {"capture", "after"} =>
          /\ broker.missed = 0 => AsListed
          /\ broker.missed = 1 /\ IsDisplay => ~SameTopology
    /\ broker.at = "after" => broker.right \/ broker.missed # 0

(* The broker's loop: what it has is a prefix of what it selected.         *)
LoopOK ==
    /\ broker.at \in {"recheck", "capture", "after"} =>
          /\ broker.selected = Select(want[peer], broker.inv.windows)
          /\ Len(broker.images) < Len(broker.selected)
          /\ Labelled(broker.images, want[peer], broker.inv)
    /\ broker.at = "write" =>  Complete(broker.images, want[peer], broker.inv)
    /\ broker.at \in {"accept", "inventory", "failed"} => broker.images = <<>>

(* A manifest that says succeeded is complete, and one that says failed    *)
(* has no images.                                                          *)
ReplyOK ==
    \A c \in Clients :
        /\ reply[c].status = "succeeded" => Complete(reply[c].images, want[c], reply[c].inv)
        /\ reply[c].status # "succeeded" => reply[c].images = <<>>

(* The broker writes to a stream only while the worker reads from it, and  *)
(* a command that has its response has it to itself.                       *)
DeliveryOK ==
    \A c \in Clients :
        /\ conn[c] \in {"queued", "serving"} => handler[c] = "receive"
        /\ cli[c] \in {"download", "verify", "succeeded"} => handler[c] = "answered"
        /\ cli[c] = "start" => handler[c] = "none"
        /\ cli[c] = "succeeded" => /\ reply[c].status = "succeeded"
                                   /\ local[c] = reply[c].images
                                   /\ want[c] # "list" => local[c] # <<>>

HostInv == HostTypes /\ WatchOK /\ LoopOK /\ ReplyOK /\ DeliveryOK

(* What select returns is a list of displays and windows.                  *)
LEMMA SelectType ==
    ASSUME NEW target \in Targets, NEW windows \in WindowLists \cup {<<>>}
    PROVE  Select(target, windows) \in Seq(DisplayIds \cup WindowIds)
  <1> DEFINE Ids == DisplayIds \cup WindowIds
  <1>1. Displays \in Seq(Ids)
    BY HostAssumption, SeqMonotonic
  <1>2. windows \in Seq(Ids)
    <2>1. CASE windows \in WindowLists
      <3>1. windows \in Seq(WindowIds) /\ WindowIds \subseteq Ids
        BY <2>1, HostAssumption
      <3> QED
        BY <3>1, SeqMonotonic
    <2>2. CASE windows = <<>>
      BY <2>2
    <2> QED
      BY <2>1, <2>2
  <1>3. <<Named>> \in Seq(Ids) /\ <<>> \in Seq(Ids)
    BY HostAssumption
  <1> QED
    BY <1>1, <1>2, <1>3, Zenon DEF Select

(* Nothing at all is a labelled prefix of any selection.                   *)
LEMMA NothingLabelled ==
    ASSUME NEW target \in Targets, NEW inv \in Inventories
    PROVE  Labelled(<<>>, target, inv)
  <1>1. Select(target, inv.windows) \in Seq(DisplayIds \cup WindowIds)
    BY SelectType DEF Inventories
  <1> QED
    BY <1>1 DEF Labelled

(* The initial states.                                                     *)
LEMMA HostInit == Init => HostInv
  <1> SUFFICES ASSUME Init PROVE HostInv
    OBVIOUS
  <1> USE DEF Init, Idle, At, NoManifest, NoInventory
  <1>1. HostTypes
    <2>1. NoInventory \in Inventories /\ host \in Desktops
      BY HostAssumption DEF Inventories, Desktops
    <2>2. broker \in Observations /\ broker.at = "accept"
      BY <2>1 DEF Observations
    <2>3. NoManifest \in Manifests
      BY <2>1 DEF Manifests
    <2> QED
      BY <2>1, <2>2, <2>3, HostAssumption DEF HostTypes, Connections
  <1>2. WatchOK /\ LoopOK /\ ReplyOK /\ DeliveryOK
    BY DEF WatchOK, LoopOK, ReplyOK, DeliveryOK
  <1> QED
    BY <1>1, <1>2 DEF HostInv

(* Steps of the commands and of the daemon keep the types.                 *)
LEMMA CallerTypes ==
    ASSUME HostInv, NEW c \in Clients, Command(c) \/ Daemon(c)
    PROVE  HostTypes'
  <1> USE DEF HostInv, HostTypes, CliStep, Handle, command, daemon, link
  <1>1. NoManifest \in Manifests /\ FailedManifest \in Manifests
    BY DEF NoManifest, FailedManifest, NoInventory, Manifests, Inventories
  <1>2. Dropped(c) \in [Clients -> Manifests]
    BY <1>1 DEF Dropped
  <1>3. reply[c].images \in Seq(Images)
    BY DEF Manifests
  <1>4. CASE Ask(c)
    BY <1>4 DEF Ask
  <1>5. CASE GiveUp(c)
    <2>1. <<>> \in Seq(Images)
      OBVIOUS
    <2>2. local' \in [Clients -> Seq(Images)]
      BY <1>5, <2>1 DEF GiveUp
    <2> QED
      BY <1>5, <1>2, <2>2 DEF GiveUp
  <1>6. CASE ReadResponse(c)
    BY <1>6 DEF ReadResponse
  <1>7. CASE Download(c)
    BY <1>7, <1>3 DEF Download
  <1>8. CASE Verify(c)
    BY <1>8 DEF Verify
  <1>9. CASE Admit(c)
    BY <1>9, Zenon DEF Admit
  <1>10. CASE ReadBody(c)
    BY <1>10 DEF ReadBody
  <1>11. CASE Connect(c)
    <2>1. Append(backlog, c) \in Seq(Clients)
      OBVIOUS
    <2>2. reply' \in [Clients -> Manifests]
      BY <1>11, <1>1, Zenon DEF Connect
    <2> QED
      BY <1>11, <2>1, <2>2, Zenon DEF Connect, Connections
  <1>12. CASE Receive(c)
    BY <1>12, <1>1, Zenon DEF Receive, Hangup, Connections
  <1>13. CASE Publish(c)
    BY <1>13, <1>2, Zenon DEF Publish
  <1>14. CASE Collect(c)
    BY <1>14, <1>2, Zenon DEF Collect
  <1> QED
    BY <1>4, <1>5, <1>6, <1>7, <1>8, <1>9, <1>10, <1>11, <1>12, <1>13, <1>14 DEF Command, Daemon

(* A change of the desktop leaves a desktop, and an observation.           *)
LEMMA DesktopTypes ==
    ASSUME host \in Desktops, broker \in Observations, Rearrange \/ WindowsChange
    PROVE  host' \in Desktops /\ broker' \in Observations /\ broker'.at = broker.at
  <1>1. host' \in Desktops
    <2>1. CASE Rearrange
      <3>1. PICK displays \in 1..Layouts :
                   host' = [displays |-> displays, windows |-> host.windows, changes |-> host.changes + 1]
        BY <2>1 DEF Rearrange
      <3> QED
        BY <3>1, HostAssumption DEF Desktops
    <2>2. CASE WindowsChange
      <3>1. PICK windows \in WindowLists :
                   host' = [displays |-> host.displays, windows |-> windows, changes |-> host.changes + 1]
        BY <2>2 DEF WindowsChange
      <3> QED
        BY <3>1 DEF Desktops
    <2> QED
      BY <2>1, <2>2
  <1>2. broker' \in {broker, [broker EXCEPT !.missed = @ + 1]}
    BY DEF Rearrange, WindowsChange, Missing
  <1> QED
    BY <1>1, <1>2 DEF Observations

(* Steps of the desktop and of the broker keep the types.                  *)
LEMMA BrokerTypes ==
    ASSUME HostInv, Rearrange \/ WindowsChange \/ Broker
    PROVE  HostTypes'
  <1> HostTypes /\ LoopOK
    BY DEF HostInv
  <1> USE DEF HostTypes, command, daemon, link, others
  <1>1. NoInventory \in Inventories /\ <<>> \in Seq(Images) /\ <<>> \in Seq(DisplayIds \cup WindowIds)
    BY DEF NoInventory, Inventories
  <1>2. CASE Rearrange \/ WindowsChange
    <2>1. UNCHANGED <<want, cli, local, handler, reply, conn, backlog, peer>>
      BY <1>2 DEF Rearrange, WindowsChange
    <2> QED
      BY <1>2, <2>1, DesktopTypes
  <1>4. CASE Stop \/ Die
    <2>1. conn' \in [Clients -> Connections]
      BY <1>4 DEF Stop, Die, BrokerEnds, AfterClose, Connections
    <2>2. Idle \in Observations /\ Idle.at = "accept"
      BY <1>1 DEF Idle, At, Observations
    <2>3. /\ broker' = Idle /\ backlog' = <<>>
          /\ UNCHANGED <<host, want, cli, local, handler, reply>>
      BY <1>4 DEF Stop, Die, BrokerEnds
    <2> QED
      BY <2>1, <2>2, <2>3
  <1>5. CASE Accept
    <2>1. Head(backlog) \in Clients /\ Tail(backlog) \in Seq(Clients)
      <3>1. backlog \in Seq(Clients) /\ backlog # <<>>
        BY <1>5 DEF Accept
      <3> QED
        BY <3>1, HeadTailProperties
    <2>2. conn' \in [Clients -> Connections]
      BY <1>5, <2>1, Zenon DEF Accept, Connections
    <2>3. Observing \in Observations
      BY <1>1 DEF Observing, At, Observations
    <2> QED
      BY <1>5, <2>1, <2>2, <2>3 DEF Accept
  <1>6. CASE FailObservation
    <2>1. broker' \in Observations /\ broker.at # "accept"
      BY <1>1, <1>6, Zenon DEF FailObservation, Observations
    <2> QED
      BY <1>6, <2>1 DEF FailObservation
  <1>7. CASE Inventory
    <2>1. want[peer] \in Targets /\ host.windows \in WindowLists \cup {<<>>}
      BY <1>7 DEF Inventory, Desktops
    <2>2. Select(want[peer], host.windows) \in Seq(DisplayIds \cup WindowIds)
      BY <2>1, SelectType
    <2>3. [displays |-> host.displays, windows |-> host.windows] \in Inventories
      BY DEF Inventories, Desktops
    <2>4. broker' \in Observations /\ broker.at # "accept"
      BY <1>7, <2>2, <2>3, Zenon DEF Inventory, Observations
    <2> QED
      BY <1>7, <2>4 DEF Inventory
  <1>8. CASE Recheck
    <2>1. broker' \in Observations /\ broker.at # "accept"
      BY <1>8, Zenon DEF Recheck, Observations
    <2> QED
      BY <1>8, <2>1 DEF Recheck
  <1>9. CASE Capture
    <2>1. broker' \in Observations /\ broker.at # "accept"
      <3>1. AsListed \in BOOLEAN
        <4>1. CASE IsDisplay
          BY <4>1 DEF AsListed, SameTopology
        <4>2. CASE ~IsDisplay
          BY <4>2 DEF AsListed
        <4> QED
          BY <4>1, <4>2
      <3> QED
        BY <1>9, <3>1, Zenon DEF Capture, Observations
    <2> QED
      BY <1>9, <2>1 DEF Capture
  <1>10. CASE After
    <2>1. Current \in DisplayIds \cup WindowIds
      BY <1>10 DEF After, LoopOK, Current, Observations
    <2> DEFINE image == [of |-> Current, right |-> broker.right, missed |-> broker.missed]
    <2>2. Append(broker.images, image) \in Seq(Images)
      <3>1. image \in Images
        BY <2>1 DEF Images, Observations
      <3> QED
        BY <3>1 DEF Observations
    <2>3. broker' \in Observations /\ broker.at # "accept"
      BY <1>10, <2>2, Zenon DEF After, Observations
    <2> QED
      BY <1>10, <2>3 DEF After
  <1>11. CASE WriteReply
    <2>1. \A status \in {"succeeded", "failed"} :
              [status |-> status, inv |-> broker.inv, images |-> broker.images] \in Manifests
      BY DEF Manifests, Observations
    <2>2. reply' \in [Clients -> Manifests]
      BY <1>11, <2>1, Zenon DEF WriteReply
    <2>3. conn' \in [Clients -> Connections]
      BY <1>11, Zenon DEF WriteReply, Connections
    <2>4. Idle \in Observations /\ Idle.at = "accept"
      BY <1>1 DEF Idle, At, Observations
    <2> QED
      BY <1>11, <2>2, <2>3, <2>4 DEF WriteReply
  <1> QED
    BY <1>2, <1>4, <1>5, <1>6, <1>7, <1>8, <1>9, <1>10, <1>11 DEF Broker

(* The targets never change, and only the broker moves its observation;    *)
(* changes of the desktop are counted in it.                               *)
LEMMA Untouched ==
    ASSUME [Next]_vars
    PROVE  /\ want' = want
           /\ Broker \/ Rearrange \/ WindowsChange \/ UNCHANGED <<host, peer, broker>>
  <1> USE DEF command, daemon, link, others, vars
  <1>1. CASE Rearrange \/ WindowsChange
    BY <1>1 DEF Rearrange, WindowsChange
  <1>2. ASSUME NEW c \in Clients, Command(c)
        PROVE  UNCHANGED <<host, want, peer, broker>>
    BY <1>2 DEF Command, Ask, GiveUp, ReadResponse, Download, Verify
  <1>3. ASSUME NEW c \in Clients, Daemon(c)
        PROVE  UNCHANGED <<host, want, peer, broker>>
    BY <1>3 DEF Daemon, Admit, ReadBody, Connect, Receive, Publish, Collect
  <1>4. Broker => want' = want
    BY DEF Broker, Stop, Die, BrokerEnds, Accept, FailObservation, Inventory, Recheck,
           Capture, After, WriteReply
  <1> QED
    BY <1>1, <1>2, <1>3, <1>4 DEF Next

(* Appending the current capture extends the prefix.                       *)
LEMMA AppendLabelled ==
    ASSUME HostInv, After
    PROVE  /\ Labelled(broker'.images, want[peer], broker.inv)
           /\ Len(broker'.images) = Len(broker.images) + 1
  <1> DEFINE image == [of |-> Current, right |-> broker.right, missed |-> broker.missed]
  <1> DEFINE selected == Select(want[peer], broker.inv.windows)
  <1>1. /\ broker.images \in Seq(Images) /\ broker.selected \in Seq(DisplayIds \cup WindowIds)
        /\ broker.selected = selected
        /\ Len(broker.images) < Len(broker.selected)
        /\ Labelled(broker.images, want[peer], broker.inv)
        /\ broker.right \in BOOLEAN /\ broker.missed \in Nat
    BY DEF HostInv, HostTypes, LoopOK, After, Observations
  <1>2. broker'.images = Append(broker.images, image)
    BY DEF After, HostInv, HostTypes, Observations
  <1>3. broker.right \/ broker.missed >= Unseen(want[peer])
    <2> SUFFICES ASSUME ~broker.right PROVE broker.missed >= Unseen(want[peer])
      OBVIOUS
    <2>1. broker.missed # 0
      BY DEF HostInv, WatchOK, After
    <2>2. CASE want[peer] = "desktop"
      <3>1. selected = Displays
        BY <2>2 DEF Select
      <3>2. Current \in DisplayIds
        BY <1>1, <3>1, HostAssumption DEF Current
      <3>3. IsDisplay /\ SameTopology
        BY <3>2 DEF After, TopologyStill, IsDisplay
      <3>4. broker.missed # 1
        BY <3>3 DEF HostInv, WatchOK, After
      <3> QED
        BY <1>1, <2>1, <2>2, <3>4 DEF Unseen
    <2>3. CASE want[peer] # "desktop"
      BY <1>1, <2>1, <2>3 DEF Unseen
    <2> QED
      BY <2>2, <2>3
  <1>4. image.of = selected[Len(broker.images) + 1]
    BY <1>1 DEF Current
  <1>5. image \in Images
    BY <1>1 DEF Images, Current
  <1> HIDE DEF image, selected
  <1>6. /\ Len(Append(broker.images, image)) = Len(broker.images) + 1
        /\ DOMAIN Append(broker.images, image) = 1 .. Len(broker.images) + 1
        /\ \A i \in 1 .. Len(broker.images) : Append(broker.images, image)[i] = broker.images[i]
        /\ Append(broker.images, image)[Len(broker.images) + 1] = image
    BY <1>1, <1>5
  <1>7. image.right = broker.right /\ image.missed = broker.missed
    BY DEF image
  <1> QED
    BY <1>1, <1>2, <1>3, <1>4, <1>6, <1>7 DEF Labelled, selected

(* A change of the desktop moves nothing of the observation but the count. *)
LEMMA DesktopMoves ==
    ASSUME HostInv, Rearrange \/ WindowsChange
    PROVE  /\ UNCHANGED <<want, peer>>
           /\ broker' \in {broker, [broker EXCEPT !.missed = @ + 1]}
           /\ broker'.at = broker.at /\ broker'.inv = broker.inv
           /\ broker'.selected = broker.selected /\ broker'.images = broker.images
           /\ broker'.right = broker.right
  <1>1. broker \in Observations
    BY DEF HostInv, HostTypes
  <1> QED
    BY <1>1 DEF Rearrange, WindowsChange, Missing, Observations, command, link

(* Between the looks, changes are counted.                                 *)
LEMMA WatchStep ==
    ASSUME HostInv, HostTypes', [Next]_vars
    PROVE  WatchOK'
  <1>1. /\ broker \in Observations /\ broker' \in Observations /\ WatchOK
        /\ host \in Desktops /\ host' \in Desktops
    BY DEF HostInv, HostTypes
  <1>2. CASE UNCHANGED <<host, peer, broker>>
    BY <1>1, <1>2 DEF WatchOK, AsListed, IsDisplay, SameTopology, Current
  <1>3. CASE Rearrange
    <2>1. host'.displays # host.displays /\ host'.windows = host.windows
      BY <1>1, <1>3 DEF Rearrange, Desktops
    <2>2. CASE broker.at \notin {"capture", "after"}
      BY <1>1, <1>3, <2>2 DEF Rearrange, Missing, WatchOK
    <2>3. CASE broker.at \in {"capture", "after"} /\ IsDisplay
      <3>1. broker' = [broker EXCEPT !.missed = @ + 1]
        BY <1>3, <2>3 DEF Rearrange, Missing
      <3>2. broker'.missed = broker.missed + 1 /\ broker.missed \in Nat
        BY <1>1, <3>1 DEF Observations
      <3>3. broker'.missed = 1 => ~SameTopology'
        BY <1>1, <1>3, <2>1, <2>3, <3>2, DesktopMoves DEF WatchOK, AsListed, SameTopology
      <3> QED
        BY <1>3, <2>3, <3>2, <3>3, DesktopMoves DEF WatchOK
    <2>4. CASE broker.at \in {"capture", "after"} /\ ~IsDisplay
      <3>1. broker' = broker
        BY <1>3, <2>4 DEF Rearrange, Missing
      <3>2. ~IsDisplay' /\ Current' = Current
        BY <2>4, <3>1 DEF IsDisplay, Current
      <3> QED
        BY <1>1, <2>1, <2>4, <3>1, <3>2 DEF WatchOK, AsListed
    <2> QED
      BY <2>2, <2>3, <2>4
  <1>4. CASE WindowsChange
    <2>1. host'.displays = host.displays
      BY <1>1, <1>4 DEF WindowsChange, Desktops
    <2>2. CASE broker.at \notin {"capture", "after"}
      BY <1>1, <1>4, <2>2 DEF WindowsChange, Missing, WatchOK
    <2>3. CASE broker.at \in {"capture", "after"} /\ IsDisplay
      <3>1. broker' = broker
        BY <1>4, <2>3 DEF WindowsChange, Missing
      <3>2. IsDisplay' /\ SameTopology' = SameTopology
        BY <2>1, <2>3, <3>1 DEF IsDisplay, Current, SameTopology
      <3> QED
        BY <1>1, <2>3, <3>1, <3>2 DEF WatchOK, AsListed
    <2>4. CASE broker.at \in {"capture", "after"} /\ ~IsDisplay
      <3>1. broker' = [broker EXCEPT !.missed = @ + 1]
        BY <1>4, <2>4 DEF WindowsChange, Missing
      <3>2. broker'.missed # 0
        BY <1>1, <3>1 DEF Observations
      <3>3. ~IsDisplay'
        BY <1>4, <2>4, DesktopMoves DEF IsDisplay, Current
      <3> QED
        BY <1>4, <2>4, <3>2, <3>3, DesktopMoves DEF WatchOK
    <2> QED
      BY <2>2, <2>3, <2>4
  <1>5. CASE Stop \/ Die \/ Accept \/ FailObservation \/ Inventory \/ After \/ WriteReply
    <2>1. CASE Stop \/ Die \/ WriteReply
      BY <2>1 DEF Stop, Die, BrokerEnds, WriteReply, Idle, At, WatchOK
    <2>2. CASE Accept
      <3>1. broker.at = "accept" /\ broker' \in {broker, Observing}
        BY <2>2 DEF Accept
      <3> QED
        BY <1>1, <3>1 DEF Observing, At, WatchOK
    <2>3. CASE FailObservation \/ Inventory \/ After
      <3>1. broker'.at \notin {"capture", "after"} /\ broker'.missed = 0
        BY <1>1, <2>3, Zenon DEF FailObservation, Inventory, After, Observations, WatchOK
      <3> QED
        BY <3>1 DEF WatchOK
    <2> QED
      BY <1>5, <2>1, <2>2, <2>3
  <1>6. CASE Recheck
    <2>1. /\ broker'.at = "capture" /\ broker'.missed = 0 /\ host' = host
          /\ broker'.selected = broker.selected /\ broker'.images = broker.images
          /\ broker'.inv = broker.inv
      BY <1>1, <1>6 DEF Recheck, WatchOK, Observations, others
    <2>2. AsListed'
      BY <1>6, <2>1 DEF Recheck, AsListed, IsDisplay, SameTopology, Current
    <2> QED
      BY <2>1, <2>2 DEF WatchOK
  <1>7. CASE Capture
    <2>1. /\ broker'.at = "after" /\ broker'.missed = broker.missed /\ host' = host
          /\ broker'.selected = broker.selected /\ broker'.images = broker.images
          /\ broker'.inv = broker.inv /\ broker'.right = AsListed
      BY <1>1, <1>7 DEF Capture, Observations, others
    <2>2. AsListed' = AsListed /\ IsDisplay' = IsDisplay /\ SameTopology' = SameTopology
      BY <2>1 DEF AsListed, IsDisplay, SameTopology, Current
    <2> QED
      BY <1>1, <1>7, <2>1, <2>2 DEF WatchOK, Capture
  <1> QED
    BY <1>2, <1>3, <1>4, <1>5, <1>6, <1>7, Untouched DEF Broker

(* The loop keeps a labelled prefix of what was selected.                  *)
LEMMA LoopStep ==
    ASSUME HostInv, HostTypes', [Next]_vars
    PROVE  LoopOK'
  <1>1. /\ broker \in Observations /\ broker' \in Observations /\ LoopOK
        /\ broker.inv \in Inventories
    BY DEF HostInv, HostTypes, Observations
  <1>2. want' = want
    BY Untouched
  <1>3. CASE Rearrange \/ WindowsChange \/ UNCHANGED <<host, peer, broker>>
    <2>1. /\ peer' = peer
          /\ broker'.at = broker.at /\ broker'.inv = broker.inv
          /\ broker'.selected = broker.selected /\ broker'.images = broker.images
      BY <1>3, DesktopMoves
    <2> QED
      BY <1>1, <1>2, <2>1 DEF LoopOK
  <1>4. CASE Stop \/ Die
    BY <1>4 DEF Stop, Die, BrokerEnds, Idle, At, LoopOK
  <1>5. CASE Accept
    <2>1. broker' = broker \/ broker' = Observing
      BY <1>5 DEF Accept
    <2> QED
      BY <1>1, <1>5, <2>1 DEF Accept, LoopOK, Observing, At
  <1>6. CASE FailObservation
    BY <1>1, <1>6 DEF FailObservation, LoopOK, Observations
  <1>7. CASE Inventory
    <2> DEFINE inv == [displays |-> host.displays, windows |-> host.windows]
    <2>1. /\ peer \in Clients /\ want[peer] \in Targets /\ inv \in Inventories
          /\ host.displays \in Nat /\ host.windows \in WindowLists \cup {<<>>}
      BY <1>7 DEF Inventory, HostInv, HostTypes, Desktops, Inventories
    <2>2. Select(want[peer], host.windows) \in Seq(DisplayIds \cup WindowIds)
      BY <2>1, SelectType
    <2>3. /\ broker'.inv = inv /\ broker'.images = <<>> /\ host' = host /\ peer' = peer
          /\ broker'.selected = Select(want[peer], host.windows)
          /\ \/ want[peer] = "list" /\ broker'.at = "write"
             \/ broker'.at = "recheck" /\ broker'.selected # <<>>
      BY <1>1, <1>7 DEF Inventory, Observations, LoopOK, others, link
    <2>4. Labelled(<<>>, want[peer], inv)
      BY <2>1, NothingLabelled
    <2>5. want[peer] = "list" => Complete(<<>>, want[peer], inv)
      BY <2>4 DEF Complete, Select
    <2>6. broker'.selected # <<>> => Len(<<>>) < Len(broker'.selected)
      BY <2>2, <2>3
    <2> QED
      BY <1>2, <2>1, <2>3, <2>4, <2>5, <2>6 DEF LoopOK
  <1>8. CASE Recheck
    BY <1>1, <1>2, <1>8 DEF Recheck, LoopOK, Observations, others, link
  <1>9. CASE Capture
    BY <1>1, <1>2, <1>9 DEF Capture, LoopOK, Observations, others, link
  <1>10. CASE After
    <2>1. /\ Labelled(broker'.images, want[peer], broker.inv)
          /\ Len(broker'.images) = Len(broker.images) + 1
      BY <1>10, AppendLabelled
    <2>2. /\ broker'.inv = broker.inv /\ broker'.selected = broker.selected
          /\ peer' = peer /\ host' = host
          /\ broker'.at = IF Len(broker.images) + 1 = Len(broker.selected) THEN "write" ELSE "recheck"
      BY <1>1, <1>10 DEF After, Observations, others, link
    <2>3. /\ broker.selected = Select(want[peer], broker.inv.windows)
          /\ Len(broker.images) < Len(broker.selected)
          /\ Len(broker.images) \in Nat /\ Len(broker.selected) \in Nat
      BY <1>1, <1>10 DEF After, LoopOK, Observations
    <2> QED
      BY <1>2, <2>1, <2>2, <2>3 DEF LoopOK, Complete
  <1>11. CASE WriteReply
    BY <1>11 DEF WriteReply, Idle, At, LoopOK
  <1> QED
    BY <1>3, <1>4, <1>5, <1>6, <1>7, <1>8, <1>9, <1>10, <1>11, Untouched DEF Broker

(* The broker touches nothing of the command and the daemon but a          *)
(* manifest, which it writes last.                                         *)
LEMMA BrokerQuiet ==
    Broker => UNCHANGED <<want, cli, local, handler>> /\ (WriteReply \/ UNCHANGED reply)
  <1>1. Stop \/ Die \/ Accept => UNCHANGED <<want, cli, local, handler, reply>>
    BY Zenon DEF Stop, Die, BrokerEnds, Accept, command, daemon
  <1>2. FailObservation \/ Inventory \/ Recheck \/ Capture \/ After =>
            UNCHANGED <<want, cli, local, handler, reply>>
    BY Zenon DEF FailObservation, Inventory, Recheck, Capture, After, others, command, daemon
  <1>3. WriteReply => UNCHANGED <<want, cli, local, handler>>
    BY Zenon DEF WriteReply, command
  <1> QED
    BY <1>1, <1>2, <1>3, Zenon DEF Broker

(* What a step makes of a manifest: nothing, a failure, none, or what the  *)
(* broker has finished for the stream its worker still reads.              *)
LEMMA ReplyMove ==
    ASSUME HostInv, [Next]_vars, NEW c \in Clients
    PROVE  \/ reply'[c] = reply[c]
           \/ reply'[c] \in {NoManifest, FailedManifest} /\ cli'[c] # "succeeded"
           \/ /\ WriteReply /\ peer = c /\ handler[c] = "receive"
              /\ reply'[c] = [status |-> IF broker.at = "write" THEN "succeeded" ELSE "failed",
                              inv |-> broker.inv, images |-> broker.images]
  <1> HostTypes /\ DeliveryOK
    BY DEF HostInv
  <1>1. CASE Rearrange \/ WindowsChange \/ UNCHANGED vars
    BY <1>1, Zenon DEF Rearrange, WindowsChange, daemon, vars
  <1>2. ASSUME NEW d \in Clients, Command(d)
        PROVE  \/ reply'[c] = reply[c]
               \/ reply'[c] = NoManifest /\ cli'[c] # "succeeded"
    <2> USE DEF HostTypes, command, daemon, link, others
    <2>1. CASE GiveUp(d)
      BY <2>1 DEF GiveUp, Dropped, CliStep
    <2>2. CASE Ask(d) \/ ReadResponse(d) \/ Download(d) \/ Verify(d)
      BY <2>2 DEF Ask, ReadResponse, Download, Verify
    <2> QED
      BY <1>2, <2>1, <2>2 DEF Command
  <1>3. ASSUME NEW d \in Clients, Daemon(d)
        PROVE  \/ reply'[c] = reply[c]
               \/ reply'[c] \in {NoManifest, FailedManifest} /\ cli'[c] # "succeeded"
    <2> USE DEF HostTypes, command, daemon, link, others
    <2>1. \/ reply' = reply
          \/ /\ handler[d] # "answered" /\ cli' = cli
             /\ \E m \in {NoManifest, FailedManifest} : reply' = [reply EXCEPT ![d] = m]
      BY <1>3 DEF Daemon, Admit, ReadBody, Connect, Receive, Publish, Collect, Dropped, Handle
    <2> QED
      BY <2>1 DEF DeliveryOK
  <1>4. CASE Broker /\ ~WriteReply
    <2>1. reply' = reply
      BY <1>4, BrokerQuiet, Zenon
    <2> QED
      BY <2>1
  <1>5. CASE WriteReply
    <2>1. reply \in [Clients -> Manifests]
      BY DEF HostTypes
    <2>2. conn[peer] = "serving" /\ peer = c => handler[c] = "receive"
      BY DEF DeliveryOK
    <2> QED
      BY <1>5, <2>1, <2>2, Zenon DEF WriteReply
  <1> QED
    BY <1>1, <1>2, <1>3, <1>4, <1>5 DEF Next

(* Manifests stay complete or empty.                                       *)
LEMMA ReplyStep ==
    ASSUME HostInv, [Next]_vars
    PROVE  ReplyOK'
  <1> SUFFICES ASSUME NEW c \in Clients
               PROVE  /\ reply'[c].status = "succeeded" =>
                              Complete(reply'[c].images, want[c], reply'[c].inv)
                      /\ reply'[c].status # "succeeded" => reply'[c].images = <<>>
    BY Untouched DEF ReplyOK
  <1>1. CASE reply'[c] = reply[c]
    BY <1>1 DEF HostInv, ReplyOK
  <1>2. CASE reply'[c] \in {NoManifest, FailedManifest}
    BY <1>2 DEF NoManifest, FailedManifest
  <1>3. CASE /\ WriteReply /\ peer = c
             /\ reply'[c] = [status |-> IF broker.at = "write" THEN "succeeded" ELSE "failed",
                             inv |-> broker.inv, images |-> broker.images]
    BY <1>3 DEF HostInv, LoopOK, WriteReply
  <1> QED
    BY <1>1, <1>2, <1>3, ReplyMove

(* A stream that may be written to is still read from, by every step.      *)
LEMMA StreamStep ==
    ASSUME HostInv, [Next]_vars, NEW c \in Clients
    PROVE  conn'[c] \in {"queued", "serving"} => handler'[c] = "receive"
  <1> HostTypes /\ DeliveryOK
    BY DEF HostInv
  <1> USE DEF HostTypes, command, daemon, link, others, vars, DeliveryOK
  <1>1. CASE Rearrange \/ WindowsChange \/ UNCHANGED vars
    BY <1>1 DEF Rearrange, WindowsChange
  <1>2. ASSUME NEW d \in Clients, Command(d)
        PROVE  conn'[c] \in {"queued", "serving"} => handler'[c] = "receive"
    BY <1>2 DEF Command, Ask, GiveUp, ReadResponse, Download, Verify, CliStep
  <1>3. ASSUME NEW d \in Clients, Daemon(d)
        PROVE  conn'[c] \in {"queued", "serving"} => handler'[c] = "receive"
    <2>1. CASE Admit(d) \/ ReadBody(d) \/ Connect(d)
      BY <2>1 DEF Admit, ReadBody, Connect, Handle
    <2>2. CASE Receive(d)
      BY <2>2 DEF Receive, Handle, Hangup
    <2>3. CASE Publish(d) \/ Collect(d)
      BY <2>3 DEF Publish, Collect, Handle
    <2> QED
      BY <1>3, <2>1, <2>2, <2>3, Zenon DEF Daemon
  <1>4. CASE Stop \/ Die
    BY <1>4 DEF Stop, Die, BrokerEnds, AfterClose
  <1>5. CASE Accept
    BY <1>5 DEF Accept
  <1>6. CASE FailObservation \/ Inventory \/ Recheck \/ Capture \/ After
    BY <1>6 DEF FailObservation, Inventory, Recheck, Capture, After
  <1>7. CASE WriteReply
    BY <1>7 DEF WriteReply
  <1> QED
    BY <1>1, <1>2, <1>3, <1>4, <1>5, <1>6, <1>7 DEF Next, Broker

(* Where a command is and where the daemon is with its request.            *)
LEMMA ProgressStep ==
    ASSUME HostInv, [Next]_vars, NEW c \in Clients
    PROVE  /\ cli'[c] \in {"download", "verify", "succeeded"} => handler'[c] = "answered"
           /\ cli'[c] = "start" => handler'[c] = "none"
  <1> HostTypes /\ DeliveryOK
    BY DEF HostInv
  <1> USE DEF HostTypes, command, daemon, link, others, vars, DeliveryOK
  <1>1. CASE Rearrange \/ WindowsChange \/ UNCHANGED vars
    BY <1>1 DEF Rearrange, WindowsChange
  <1>2. ASSUME NEW d \in Clients, Command(d)
        PROVE  /\ cli'[c] \in {"download", "verify", "succeeded"} => handler'[c] = "answered"
               /\ cli'[c] = "start" => handler'[c] = "none"
    BY <1>2 DEF Command, Ask, GiveUp, ReadResponse, Download, Verify, CliStep
  <1>3. ASSUME NEW d \in Clients, Daemon(d)
        PROVE  /\ cli'[c] \in {"download", "verify", "succeeded"} => handler'[c] = "answered"
               /\ cli'[c] = "start" => handler'[c] = "none"
    BY <1>3 DEF Daemon, Admit, ReadBody, Connect, Receive, Publish, Collect, Handle
  <1>4. CASE Broker
    BY <1>4, BrokerQuiet
  <1> QED
    BY <1>1, <1>2, <1>3, <1>4 DEF Next

(* A command that succeeded has what its manifest lists.                   *)
LEMMA SuccessStep ==
    ASSUME HostInv, [Next]_vars, NEW c \in Clients, cli'[c] = "succeeded"
    PROVE  /\ reply'[c].status = "succeeded"
           /\ local'[c] = reply'[c].images
           /\ want[c] # "list" => local'[c] # <<>>
  <1> HostTypes /\ DeliveryOK
    BY DEF HostInv
  <1>1. \/ cli[c] = "succeeded" /\ local'[c] = local[c]
        \/ Verify(c)
    <2> USE DEF HostTypes, command, daemon, link, others, vars
    <2>1. CASE Rearrange \/ WindowsChange \/ UNCHANGED vars
      BY <2>1 DEF Rearrange, WindowsChange
    <2>2. ASSUME NEW d \in Clients, Command(d)
          PROVE  (cli[c] = "succeeded" /\ local'[c] = local[c]) \/ Verify(c)
      BY <2>2 DEF Command, Ask, GiveUp, ReadResponse, Download, Verify, CliStep
    <2>3. ASSUME NEW d \in Clients, Daemon(d)
          PROVE  cli[c] = "succeeded" /\ local'[c] = local[c]
      BY <2>3 DEF Daemon, Admit, ReadBody, Connect, Receive, Publish, Collect
    <2>4. CASE Broker
      BY <2>4, BrokerQuiet
    <2> QED
      BY <2>1, <2>2, <2>3, <2>4 DEF Next
  <1>2. CASE Verify(c)
    BY <1>2 DEF Verify, daemon
  <1>3. CASE cli[c] = "succeeded" /\ local'[c] = local[c]
    <2>1. reply'[c] = reply[c]
      BY <1>3, ReplyMove DEF DeliveryOK
    <2> QED
      BY <1>3, <2>1 DEF DeliveryOK
  <1> QED
    BY <1>1, <1>2, <1>3

(* HostInv is inductive.                                                   *)
LEMMA HostStep == HostInv /\ [Next]_vars => HostInv'
  <1> SUFFICES ASSUME HostInv, [Next]_vars PROVE HostInv'
    OBVIOUS
  <1>1. HostTypes'
    <2>1. CASE UNCHANGED vars
      BY <2>1 DEF HostInv, HostTypes, vars, command, daemon, link
    <2> QED
      BY <2>1, CallerTypes, BrokerTypes DEF Next
  <1>2. WatchOK' /\ LoopOK'
    BY <1>1, WatchStep, LoopStep
  <1>3. ReplyOK'
    BY ReplyStep
  <1>4. DeliveryOK'
    BY StreamStep, ProgressStep, SuccessStep, Untouched DEF DeliveryOK
  <1> QED
    BY <1>1, <1>2, <1>3, <1>4 DEF HostInv

(* A manifest that succeeded and is complete says what was asked for.      *)
LEMMA CompleteIsAsNamed == HostInv => CapturedAsNamed
  <1> SUFFICES ASSUME HostInv, NEW c \in Clients, cli[c] = "succeeded"
               PROVE  LET shown == [i \in DOMAIN local[c] |-> local[c][i].of]
                      IN  /\ want[c] = "list" => shown = <<>>
                          /\ want[c] = "window" => shown = <<Named>>
                          /\ want[c] = "application" => shown = reply[c].inv.windows
                          /\ want[c] = "desktop" => shown = Displays
                          /\ \A i \in DOMAIN shown :
                                local[c][i].right \/ local[c][i].missed >= Unseen(want[c])
    BY DEF HostInv, ReplyOK, CapturedAsNamed
  <1> DEFINE inv == reply[c].inv
             shown == [i \in DOMAIN local[c] |-> local[c][i].of]
             selected == Select(want[c], inv.windows)
  <1>1. /\ local[c] \in Seq(Images) /\ inv \in Inventories /\ want[c] \in Targets
        /\ Complete(local[c], want[c], inv)
        /\ want[c] # "list" => local[c] # <<>>
    BY DEF HostInv, HostTypes, ReplyOK, DeliveryOK, Manifests
  <1>2. selected \in Seq(DisplayIds \cup WindowIds)
    BY <1>1, SelectType DEF Inventories
  <1>3. shown = selected
    <2>1. DOMAIN local[c] = 1 .. Len(local[c]) /\ DOMAIN selected = 1 .. Len(local[c])
      BY <1>1, <1>2 DEF Complete
    <2>2. \A i \in DOMAIN local[c] : local[c][i].of = selected[i]
      BY <1>1 DEF Complete, Labelled
    <2>3. selected = [i \in 1 .. Len(local[c]) |-> selected[i]]
      BY <1>2, <2>1
    <2> HIDE DEF selected
    <2> QED
      BY <2>1, <2>2, <2>3
  <1>4. want[c] # "list" => selected # <<>>
    BY <1>1, <1>2 DEF Complete
  <1>5. \A i \in DOMAIN shown : local[c][i].right \/ local[c][i].missed >= Unseen(want[c])
    BY <1>1 DEF Complete, Labelled
  <1>6. /\ want[c] = "list" => selected = <<>>
        /\ want[c] = "window" => selected = <<Named>>
        /\ want[c] = "application" => selected = inv.windows
        /\ want[c] = "desktop" => selected = Displays
    BY <1>4 DEF Select
  <1> HIDE DEF selected
  <1> QED
    BY <1>3, <1>5, <1>6

(* What build_observation, the daemon and the command together promise: a  *)
(* capture that is reported as succeeded is complete, and labelled as it   *)
(* was taken but for the changes that no check can see.                    *)
THEOREM HostCapturedAsNamed == Spec => []CapturedAsNamed
  BY HostInit, HostStep, CompleteIsAsNamed, PTL DEF Spec

=============================================================================
