# IcomGateway: models, checks and proofs

IcomGateway is the gateway of an Icom D-STAR repeater. This directory holds TLA+
modules of its core, the TLC configurations that check them on small instances
and TLAPS proofs of their main safety properties for all instances. Every module
is translated from the C++ source; `PROJECT.json` names the lines each
definition stands for.

Check a module with `tlc -config MCx.cfg MCx`, its proofs with `tlapm X_proof.tla`.

## 1. Inventory

Three processes run on a gateway host and talk over Unix datagram sockets.

| Component | State it keeps | Operations | Hard parts |
|---|---|---|---|
| **ircDDB connection** (`ircddb/IRCClient`, `IRCProtocol`, `IRCReceiver`, `IRCMessageQueue`, `IRCDDB::close`) | state of the connection and of the IRC login, timers, two queues allocated for every session, the pointer `sendQ` it publishes | the cases of `IRCClient::Entry` and of `processQueues`, the receiver's loop, puts by the gateway's threads | two threads and several foreign ones on objects that are deleted at the end of each session, without locks; silent servers; close at any time |
| **ircDDB application** (`ircddb/IRCDDBApp`, replies of `IRCDDB`) | `state`, `timer`, `currentServer`, `initReady`, `replyQ`, table downloads | the cases of `IRCDDBApp::Entry`; the callbacks `userJoin`, `userLeave`, `msgQuery`, `msgChannel`, `setSendQ`, `userListReset` of the client thread | both threads write `state`, `timer` and `currentServer` with no lock; answers may be late, early or lost |
| **Routing cache** (`CacheManager`, `get_yrcall_rptr`) | user → repeater → gateway → address, nick of a gateway | updates from ircDDB and from local headers, erasures when a nick leaves | the maps are updated one by one and erased by other events than they are written by |
| **Gateway** (`QnetGateway`) | per module: the stream from a remote gateway, from the local module and its echo; the timeouts; playback, beacon and APRS threads | `ProcessG2*`, `ProcessIcom`, `ProcessTimeouts`, `Process` | lost, late and repeated packets, ends that never come, playbacks that stop the loop while time passes |
| **Reflector links** (`QnetLink`) | `to_remote_g2` (one entry a module), rows of `LINKSTATUS` | `g2link`, the users' commands, `ProcessXRF/DCS/REF`, `send_heartbeat` | three protocols that share one table; modules that share a reflector's login; lost answers, silent reflectors, addresses compared without ports |
| **Streams over the links** (`QnetLink`) | `in_streamid`, `out_streamid`, `dcs_seq` of each module, the stored callsigns for DCS frames, `brd_from_xrf`, `brd_from_rptr` | headers, frames and ends of three protocols and of the local radios | links made and ended in the middle of a stream, ends that never come, streams that talk over one another through one slot |
| **Dongles** (`QnetLink`) | `inbound_list`, `max_dongles`, rows of `CLIENTS` | login, logout, the countdown of `send_heartbeat`, the local commands D0 and D1 | the walk over the list erases under its own iterator; crashes and restarts; a limit that changes |
| **Announcements** (`QnetLink`, `QnetGateway`) | `notify_msg`, `tracing`, the voice file, `playNotInCache` | notices left by the handlers of links, acknowledgements, the file that `QnetGateway` writes and the loop plays and removes | a link that changes while its user talks, lost last frames, two processes and one file |
| Icom stack (`QnetIcomStack`) | packet counter, sequence numbers of acknowledgements | `IcomInit`, `Run` | 16-bit counters |
| APRS client (`aprs`, `Location`) | slow-data assembly per module, TCP connection | `ProcessText`, `SelectBand`, beacon | assembly across lost frames |
| Pure or external parts (`DStarDecode`, `DPlusAuthenticator`, `QnetDB`, sockets, configuration, `QnetRemote`, `QnetVoice`, dashboards, scripts) | none that another part depends on | | |

How they interact: `QnetGateway` owns the ircDDB objects: the client thread calls
back into the application, which writes the routing cache, which the gateway's
main thread reads when a local user calls someone. `QnetGateway` and `QnetLink`
exchange voice packets, and `QnetLink` writes the rows of the database the
dashboards show. `QnetIcomStack` sits between the gateway and the radio.

What makes each component correct:

- *connection*: no thread uses a queue after its session, a session inherits
  nothing from the one before, no state of the login is waited in for ever,
  `close` ends both threads;
- *application*: the cache is open to updates exactly while the application is
  operational, the server it talks to belongs to this connection, downloads and
  lost connections are left in bounded time;
- *cache*: what is found for a user is what the last update said, and is gone
  when the gateway is, while who is there is found;
- *links*: one module of a reflector is linked to one of ours, the modules on one
  reflector agree about the login, no unlink of one breaks another's link, a
  dead reflector is noticed, the dashboard's rows are true;
- *gateway*: a module carries one stream at a time, and each stream ends;
- *streams*: no frame without its header or callsign goes out on a link or to the
  gateway, and a slot of an earlier link is never used on the next;
- *dongles*: the list keeps to its limit and its rows, only silent users are removed, and
  all of them are;
- *announcements*: what a radio heard of its link is so, notices are played, to those who listen, and a file is
  played before it is removed (which the code does not keep).

Every hazard found is listed at its line under `hazards` in `PROJECT.json`.

## 2. Modules

### IrcClient

The client thread, the receiver and the threads that use the published queue.
`client` is the place in `IRCClient::Entry`: `connect` and `start` are cases 0 and
4; `poll`, `drain`, `step`, `send` are case 5 (look at the receiver's end of file;
take one message of the receive queue; one step of the protocol's switch; write
the send queue); `off`, `reset`, `stop`, `join`, `free` are the statements of case 6,
apart because other threads run between them. `proto`, `timer` are
`IRCProtocol::state` and its timer. A queue object is a number of `1..MaxQ`,
reused, and `alive` tells whether it exists. A user of `getSendQ()` fetches the
pointer and puts the message in two steps (`FetchQueue`, `PutMessage`); `sendPing` looks
the nick up and then uses `sendQ` without a test (`FindNick`, `PutPing`).

One thing is taken from the clock: between `setSendQ(NULL)` and the deletion the
client thread sleeps two seconds. `FreeQueues` therefore waits until no thread
holds the pointer, as a put that takes less than two seconds would. The mutant
`FreeAtOnce` is the code without that sleep.

### IrcDDBApp

The worker thread of the application and the callbacks of the client thread. The two write
`state`, `timer`, `currentServer` and `initReady` with no lock, and so each statement that writes one of them, and each
test between two of them, is a step: `seen` is the place of the worker (`Idle`, `Ticked`, the state the
switch has read, or a place inside a case: `Choosing`, `Chosen`, `Counted`, `AfterPut`, `Opening`, `Opened`,
`Closing`, `Stopped`) and `callback` the place of the client thread in `userLeave` (`Cleared`, `Chooses`, `Timed`) or in `msgQuery`
(`GoOn`, between the test for state 5 and the next state). The program is built without optimisation (Makefile:31), so
the fields change in the order of the statements. The connection changes by the steps of
`Uplink`; users join and leave, and messages are handled, from the login on, while `sendQ` is still NULL. The client
waits 15 seconds before it connects again, the worker looks every
second: `LogIn` requires the worker to be back in state 0. That is the only step taken from the clock.

`ChooseServer` takes any server user of the cache, since `findServerUser` takes the first of a hash table; the records of a
table are members of a set. `told` are the records of a table that were sent, `cached` those that were stored.

`Uplink` is the abstract specification of what the application sees of a connection:
`net` is "down", "login" (a session, `sendQ` still NULL), "up" or "reset" (`setSendQ(NULL)` done,
`userListReset` not yet), and `users` who is on the channel. `IrcClient` implements it (`IsUplink`,
where `connection` is computed from the client's place and `sendQ`), and `IrcDDBApp` builds on it.

### LinkTable

The table `to_remote_g2`. An entry has the callsign (`cs`), address and port, remote
module (`to`), `is_connected` (`up`) and `countdown` (`left`) of the code's struct;
`status` is LINKSTATUS, whose key is the address; every link is made with a new look-up of the name, which may come to any
address of `Hosts`, fail (`Unresolved`), or find no such system in the hosts file (`Unlisted`; the file is read again by "F"). A
system keeps its protocol. `session` is the set of addresses of REF
reflectors that hold our login, the part of the reflector a DISCONNECT changes.
`from_mod` follows from the index; the stream ids are in `LinkStreams`. There is one
action for each handler: the users' commands (`UserLink`, `UserUnlink`), the packets of the
three protocols (`Xrf...`, `Dcs...`, `Ref...`; voice only renews a countdown), and the walk of `send_heartbeat`,
one step for each module (`Skip`, `CountDown`, `Expire`, `Inactive`), during which no packet is
handled (`beat` > 0). `G2Link` is `g2link` with its early returns, whose two ways to leave an
entry unlinked differ: `Free` (`to_mod = ' '`) and `GaveUp` (`to_mod = '\0'`).

The process is one thread, so a handler is one step. The environment sends any
packet the protocols allow; systems at an address may stop for good
(`FallsSilent`). Links at startup are `UserLink` steps; shutdown is not modelled.

`Links` is the abstract specification of what a voice stream sees of this table: the system, its address, the remote
module and `is_connected` of each module, and five ways they change (a repeater may take an entry over
in its own name). `LinkTable` implements it with `View` (an entry
without a callsign is free) and `LinkStreams` builds on it. `IsLinks` is the refinement.

### GatewayStreams

The voice streams of `QnetGateway`, module by module. `rptr`, `band`, `route`, `recd` and
`vm` are the streamid and `last_time` of `toRptr`, `band_txt`, `to_remote_g2`, `recd` and
`vm`; `last_time` is a countdown, since only its distance to a timeout matters (0: not
running, 1: timed out; the `...Wait` constants are the configured timeouts plus one). `index`
is `Index >= 0`; `echoFile` and `vmFile` tell a file with frames from one with only a
header, which `PlayFileThread` refuses. `onAir` is what the radio of a module was told:
the streams whose header it got and not their end.

Headers from outside are `G2Header` and, put together from slow data, `G2SlowHeader`, which
starts a stream under a streamid of its own (`Stray`: no code sets `sdheader.streamid`); frames are
`G2Frame`. A header of a local radio is one action for each branch of `ProcessIcom`
(`Talk`, `ZoneRoute`, `CallRoute`, `CallNotFound`, `CallLocal`, `ZoneLocal`, `EchoStart`, `Voicemail...`), all
of which begin with `Keyed`; a frame is `FrameRouted`, `FrameEchoed`, `FrameStored` or
`FrameCrossed`, the alternatives of the loop that looks for its taker. Any stream's
header, frame or end may come at any time, so loss, delay and repetition need no
channel. A local header that comes again is handled like any other (`TalkerIs`): it takes `Index` back, and a zone route,
which is not looked up while the module has one, leaves it so. `again` marks the modules whose talker had
his route already when his header came.

`std::async` is called for a playback and its future thrown away; the destructor waits. So
a playback is part of the handler that starts it, and takes one to `Longest` seconds by which
all countdowns age (`PlayTime`, `Aged`). `ProcessTimeouts` is one step for each module (`at`),
during which no packet is read. The playback's own frames are not in `onAir`: `RadioChannel`
speaks of the streams the gateway relays.

`RadioChannel` is the abstract specification: for each module a set of open streams,
which `Open` fills with one when it is empty and `Close` empties. `GatewayStreams` implements it
with `channel` as `onAir` without the local (cross-banded) streams (`Radio`, `OneAtATime`).

### RoutingCache and Directory

The four maps of `CCacheManager`, once for each ircDDB network, as `userJoin`, `userLeave`, `userListReset`
and `doUpdate` write them and as `get_yrcall_rptr` reads them. A base is a callsign of a
gateway without its last letter, a nick a base with a digit; `AddrOf` is the address under which a
nick is on the channel. `chan` is who is there, as the client was told; `ready` is `initReady`, set in `IrcDDBApp`. `ghost` marks a base of
which one nick left while another may have stayed: `userLeave` erases by base, whichever digit
leaves. A call goes through three maps of different ages (`Behind`) on two networks (`First`: the first
network that has an address).

`Directory` is what a cache is for: users have a last repeater, repeaters a gateway (their own unless a
record says otherwise), gateways an address or none. A record that names the repeater's own gateway (`Alike`: equal in the
six characters that `doUpdate` compares, `IRCDDBApp.cpp`:495) is not stored and changes nothing. `said` is the gateway
that the last record named. `IsDirectory` is the refinement, with `zone` as what `findRptrGate` answers.

### LinkStreams

Who gets the voice that `QnetLink` carries. A header puts its streamid into slots, and frames go where
a slot has it: `ins` and `outs` are `in_streamid` and `out_streamid` of `to_remote_g2`, `seq` is `dcs_seq`, `caller` says whose
callsign `rptr_2_dcs`, `ref_2_dcs` and `xrf_2_dcs` hold, `brdX` and `brdR` are the slots of copies for
the other modules on one XRF module. `open`, `atGate` and `copying` record what the receivers were told:
the streams whose header went over a module's *present* link, or to the gateway, and
whose end did not. Frames that are not the last change nothing and need no action, except those of DCS,
which have no header. A packet is known by its protocol and address (`Sender`, of all modules linked there) and by the
system it names (`Linked`): a system may be at another address by the next look-up, and an address may be that of
several systems. Links come and go at any time (`Linking`), by the steps of `Links`, of several modules at once where an
answer or an unlink concerns several; `hosted` are the modules that a repeater linked to.

### Dongles

`inbound_list` with the countdown of each user, `max_dongles` and the rows of `CLIENTS`. `quiet` counts the
heartbeats since a user was heard. `send_heartbeat` erases the element its iterator is at and then
advances the iterator: what follows is undefined, and `Heartbeat` leaves open which of the later users
are visited (`Walk`), while `HeartbeatDies` is the process's death, after which systemd starts it
again. Users are numbers in the order of the map's keys.

### Announcements

What a module's radio hears of its link. `note` is `notify_msg`, `talk` tells whether `tracing.streamid` is set, `told` is what
was last played or acknowledged, `unsaid` that the link changed last without a notice (`Dropped`,
`RequestsCross`: code that leaves none). `at` is the place in the loop of `Process`: heartbeat and clock, file,
packets of the reflectors, at most one packet of the gateway, notices. Announcements are
`std::async` calls whose future is discarded, so they are over before the loop goes on.
`file` is the file in /tmp by which `QnetGateway` asks for an announcement. A thread that greets a module (one for each network
of QuadNet) looks for the file (`LookBeforeWelcome`), opens it (`OpenWelcome`, which creates or empties it), and its text is there
when it closes it (`CloseWelcome`); the main thread opens and closes it (`GateEnd`, `CloseMiss`) without looking. The loop reads
what is there, plays it (`playing`) while the others go on, and removes what is there then; `held` are the
writers whose open file is the one at the path, so that what the others write is lost.

### Composition

`IrcClient`, `IrcDDBApp` and `RoutingCache` meet in three places, each of them modelled on all sides:
`sendQ` (a pointer in `IrcClient`, its being NULL in `IrcDDBApp`), the list of users
(`names`; `chan` and `nameNick` in `RoutingCache`) and the order of `setSendQ(NULL)` and `userListReset`
(`SwitchOff`/`ResetUserList`, `NetDown`/`ListReset`, `UserListReset`). `initReady` is decided in `IrcDDBApp` and
guards the records in `RoutingCache` (`SetReady`). `GatewayStreams` takes from the others
only whether a lookup found a network (the choice between `CallRoute`, `CallLocal` and
`CallNotFound`), and gives `QnetLink` copies of packets it does not wait for.

The connection is composed formally: every behaviour of `IrcClient` is one of `Uplink` (`UplinkCorrect`), and the actions
of `IrcDDBApp` that change the connection conjoin steps of `Uplink`, so the invariants of the application hold with the
callbacks that the client thread makes. Beyond `Uplink`, `IrcDDBApp` assumes of the client only the 15 seconds of `LogIn`.

`LinkTable`, `LinkStreams`, `Dongles` and `Announcements` are four views of one thread. `LinkTable` decides when links change;
in `LinkStreams` they change at any time by the steps of `Links`, which `LinkTable` implements (`LinksCorrect`), so what
holds of the streams holds with `LinkTable`'s changes. The refinement has no hypotheses: an answer is matched to entries by
address and a repeater's request by address and remote module, whatever callsign they were made under, and `Links` says the
same. What `LinkStreams` assumes besides is that the callsigns of DCS
reflectors begin with "DCS" (`Single`): of these, and of REF reflectors, a module is linked to one of ours at most. In
`Announcements` links change at any time.

## 3. Runs

| Run | Kind | Shows |
|---|---|---|
| `irc_safety` | pass | no queue is used outside its session, sessions start clean, the client implements `Uplink` |
| `irc_live` | pass | no protocol state is waited in for ever; close ends both threads |
| `irc_ping` | violation | `sendPing` follows a NULL `sendQ`: a nick is known before the queue is published and after it is retracted |
| `ddb_app` | pass | with the statements of both threads interleaved, the cache is not left open outside the operational state, no record of a running download is stored, the server is one of this connection; downloads end, losses are noticed, the repeater is announced |
| `cache` | pass | calls and PINGs reach gateways that are there, gateways that are there are found, the last record that puts a repeater behind another gateway counts, each cache implements `Directory` |
| `link_safety` | pass | exclusive modules; links to silent systems only run out; the table implements `Links`, with systems that move and repeaters that take entries over |
| `link_live` | pass | logins are kept, DCS rows are true; without auto_link a silent system is noticed by every module |
| `link_zombie` | violation | two auto_link modules on one dead REF reflector keep each other connected |
| `streams` | pass | no frame goes out on a link, or to the gateway, before the header or without the callsign it needs (on a link that a repeater made, those of the local user may) |
| `dongles` | pass | the list keeps to its limit and rows; only silent users are removed, and all of them are |
| `notices` | pass | what a radio heard of its link is so; notices are played, to who listens and with the truth; one waits for ever only where a last frame was lost and nobody talks again |
| `gate` | pass | the gateway implements `RadioChannel`; each slot accounts for what is on the air; the talker's frames follow his own lookup, while his header does not come again; recordings keep their files; silence ends everything |

The violations are disagreements between the code and what the repository
says of it; `findings` quotes the lines.

### Stated, and not kept by the code

These properties stand in the modules with the comment of the code they are taken from. Each of these configurations
ends in a counterexample; they are not among the runs, which are for what holds and for two of the
disagreements. Where a property of a run makes an exception, the row here is the property without it.

| Property | Configuration | Counterexample |
|---|---|---|
| `IrcDDBApp!PingAnswered` | `MCIrcDDBAppPing.cfg` | the reply to NOT_FOUND is put on a queue whose consumer takes only PINGs: every later PING stays behind it (`IRCDDBApp.cpp`:162) |
| `IrcDDBApp!OperationalHasServer` | `MCIrcDDBAppServer.cfg` | `state = 7` of case 6 overwrites the `state = 2` of a server that left: operational without a server (`IRCDDBApp.cpp`:777) |
| `RoutingCache!EveryPresentIsFound` | `MCRoutingCacheGhost.cfg` | a gateway whose program came back under a second nick is erased when the first leaves (`IRCDDBApp.cpp`:215); what is left is `PresentIsFound` |
| `RoutingCache!ZonesAsSaid` | `MCRoutingCacheBack.cfg` | a record that gives a repeater back to its own gateway is dropped (`IRCDDBApp.cpp`:495); what is left is `LastRecordCounts` |
| `LinkTable!LoggedInWhileUp` | `MCLinkTableMoved.cfg` | a REF system moved: g2link connects a second module at the new address, where we never logged in (`QnetLink.cpp`:908) |
| `LinkTable!SiblingsAgree` | `MCLinkTableApart.cfg` | two modules on one REF system at two addresses: OKRW is for those at its own (`QnetLink.cpp`:2198) |
| `LinkTable!HeartbeatCovers` | `MCLinkTableHeart.cfg` | an earlier module has the callsign at another address, and the later one is skipped (`QnetLink.cpp`:179); with `InPorts` an odd port, a repeater gets none either |
| `LinkTable!KeepsTrying` | `MCLinkTableGaveUp.cfg` | one failed look-up of the name ends auto_link (`QnetLink.cpp`:836), against OPERATING:81-83; what is left is `KeepsTryingIfFound` |
| `LinkStreams!EveryLinkAfterHeader` | `MCLinkStreamsHosted.cfg` | a repeater links in while the local user talks: the request leaves `out_streamid`, and the rest goes out with no header (`QnetLink.cpp`:1092) |
| `GatewayStreams!RepeatedHeaderForwards` | `MCGatewayStreamsAgain.cfg` | the header of a zone-routed talker comes again: `Index` is taken back (`QnetGateway.cpp`:1331), the route is found taken (1413), and his frames are no longer forwarded |
| `Announcements!WelcomeIsRead` | `MCAnnouncementsWelcome.cfg` | the loop reads the file before the greeting is in it, plays nothing, and removes it (`QnetLink.cpp`:2716) |
| `Announcements!NoNoticeWaits` | `MCAnnouncementsWaits.cfg` | the last frame is lost and nobody talks again: `tracing.streamid` has no timeout, and the notice is never played (`QnetLink.cpp`:3341) |
| `GatewayStreams!CrossBandEnds` | `MCGatewayStreamsCross.cfg` | a cross-banded transmission reaches the other module with its header only (`QnetGateway.cpp`:1731) |
| `GatewayStreams!EchoFileDeleted` | `MCGatewayStreamsEcho.cfg` | an echo test without frames leaves a file that makes all later ones fail (`QnetGateway.cpp`:2331) |
| `Announcements!MissToldToCaller` | `MCAnnouncementsMiss.cfg` | `playNotInCache` is one flag: whichever module's transmission ends first gets the announcement (`QnetGateway.cpp`:1571) |
| `LinkStreams!CopiesOfThisStream` | `MCLinkStreamsCopies.cfg` | a broadcast with one copy leaves in the second slot the copy of an earlier broadcast whose end was lost (`QnetLink.cpp`:1343) |
| `LinkStreams!ReflectorIsHeard` | `MCLinkStreamsHeard.cfg` | the search stops at an earlier module whose letter is that of the remote module (`memcmp` without `0==`, `QnetLink.cpp`:1211) |

More can be seen in the models:

- *links*: a module whose entry is `GaveUp` answers NAK to a repeater's link request, since
  `to_mod` is then not a blank; the DISCONNECT of a REF
  reflector leaves the module's row on the dashboard (`RefDisconnect` keeps `status`); a repeater's request may put its callsign
  into the entry of another system at its address (`XrfLinkRequest`).
- *ircDDB*: the records of a download are dropped because `initReady` is set after it (`ListRecord`;
  `StoredAfterDownloads` says so of every record); between two statements `initReady` is found on with state 6 or 2,
  and the client thread then stores what it gets (`ReadyIsOperational` says where).
- *gateway*: the frames of a stream that timed out go out without the header that `gateway_header_regen` would send
  again, because that code is reached only if no module matches the frame, and then looks
  for one by the same match (`G2Frame`).
- *streams*: one
  slot, `in_streamid`, serves both directions of a DCS link, and a second talker takes it from the first.
  A REF header is relayed only if its first flag is zero or 0x08 (0x28, with a second flag, is compared
  with `flag[7]` too, 2539).
- *dongles*: D0 and a crash leave rows in `CLIENTS` (`ClearCL` is never called); a login whose answer was lost is not
  answered again, since the address is known by then.
- *announcements*: a command is acknowledged as well as announced, because `your[3]` is initialised again with every packet
  (`QnetLink.cpp`:2795, in spite of the comment at 2822); a call that is not found writes over a greeting.

### Bounds and why they are enough

- *IrcClient*: one user, one pinger, one other gateway; `MaxQ = 2` queue objects,
  so that the queue of the next session is another one than that of the last;
  timers of one or two ticks (30, 10, 60 in the code), of which only "runs" and
  "out" are told apart; `Spare` = 2 unsolicited events and puts in a session:
  a kick and a message to race with it. The code's threads share nothing
  pairwise but the pointer, so more users repeat the same interleavings; the
  proofs are for any number. `CHECK_DEADLOCK FALSE`: the system stops after
  `close`, and when a pinger faults.
- *IrcDDBApp*: two servers (one to leave, one to be chosen next), one record,
  timers of two ticks, `MaxPending = 2` requests a server has not answered, so a late
  LIST_END of the table before can meet the next one; `Budget = 3` events in a connection,
  renewed with the next; `MaxReplies = 1` reply that waits (two for `PingAnswered`, which needs one behind another).
- *LinkTable*: two modules, two remote modules, two addresses; `Timeout = 1` (50 in the code): a countdown that runs and one that is
  over. `link_safety` has a REF reflector that may be at either address, an XRF reflector at the first and a repeater that links
  to us from there, by the port of XRF or an odd one, so that it may renew or take over what the other made; one module has
  auto_link, both an inactivity timer. `link_live` has two REF names of one host, a DCS name of it that moves to the address of
  a repeater, and no auto_link (`link_zombie` is why). The safety properties are proved for any number.
- *RoutingCache*: two networks, two gateways with two nicks each on one of them and one on the other, so that
  a second session may come before the first one leaves, on one network while the other is up, down or
  has other records; one user and one module, since their records are independent.
- *LinkStreams*: three modules, so that a broadcast has two copies, its limit; an XRF reflector that all three may be
  linked to, a repeater that links to us and a DCS reflector for the first; a stream of each, of a dongle and of the local
  radio, all of which may meet in the slots of module 1; the reflector may be found at the address of the repeater. The proofs are for any streams
  and addresses.
- *Dongles*: three users, two let in, a timeout of two heartbeats: the walk may pass by a user after each of two
  removals. `SilentAreRemoved` needs more heartbeats to a timeout (50) than users (10 at most).
- *Announcements*: two modules, one with links and users, both with calls at the gateway; a timer of one second; one thread that greets. A second
  network would write the same file in the same way, and no property of the run reads it.
- *GatewayStreams*: two modules. On module 1 two remote streams, the stray one that a
  slow-data header starts, and the cross-banded one from module 2 compete for the radio. On
  module 2 two local streams talk, one of which records (`Recorders`) and the other of which (`Callers`) is routed
  and cross-banded. So each stream may follow one whose end was lost. Every timeout is one
  second and a playback takes one, so that it may or may not outlast a stream. A
  remote stream and a talker on one module are left to the proofs, which are for any
  number and place of streams.

### Fairness

- *IrcClient*: weak fairness of the client and the receiver thread, and of a put
  that was begun: the scheduler runs every thread. Nothing of the server: it may
  stay silent for ever.
- *IrcDDBApp*: weak fairness of the worker, of the consumer of `replyQ`, and of the statements that end a callback of the
  client thread, with `userListReset`, which follows `setSendQ(NULL)`.
- *LinkTable*: weak fairness of `Heartbeat`: `Process` calls it every second,
  whatever arrives (the loop's select has a timeout of 20 ms). Remote systems owe nothing.
- *Dongles*: weak fairness of `Heartbeat`, as above; systemd restarts the process (`Restart=always`).
- *Announcements*: weak fairness of `Advance`, the loop that turns. No last frame is owed: `NoticeIsPlayed` speaks of modules
  whose user is found silent again and again.
- *RoutingCache*, *LinkStreams*: none, as they have safety properties only.
- *GatewayStreams*: weak fairness of `Passing`: the clock runs and the loop calls
  `ProcessTimeouts` at least every 20 ms. No packet is ever owed; `SilenceFreesAll` speaks of
  behaviours in which they stop.

## 4. Proofs

For each module `X`, `X_proof` proves with TLAPS, for all values of the constants
that satisfy the assumptions of the module, that the inductive invariant `IInv` holds
(`InitIInv`, a step lemma, `IInvHolds`) and the properties it implies. Every safety property that a
run checks is proved.

- **IrcClient**: `IInv` adds to the types that the queues exist from case 4 to the end of
  case 6 (`QueuesInSession`), that the receiver runs only before its join
  (`ReceiverInSession`), that case 6 has taken back, at each of its statements,
  what the statements before it take back (`TornDown`), and that every pointer published or
  held is that of the session (`PointersCurrent`). Without `TornDown` the next session could
  start with what this one left. Proved: `TypeOK`, `NoUseAfterFree`,
  `SessionStartsClean`, and `PublishedQueueIsLive`, on which they rest.
- **IrcDDBApp**: `ReadyIsOperational` is not inductive, because the state the worker
  has read and the one it is about to write differ: `ReadySeen`, `ChoiceSeen`, `WorkerPlace` and `CallbackPlace`
  say what the places of both threads and `state` may be together. Between the switch and the end of a case only a callback
  changes `state`, and a callback that found state 5 is not overtaken by the end of the downloads: that is what keeps a late
  write of the one thread from undoing what the other did. `LoginSeen` says what is left of an earlier connection
  when users of the next one come: no state that would use a choice made before. Proved: `TypeOK`,
  `ReadyIsOperational`, `ServerOfThisConnection`, `StoredAfterDownloads`.
- **LinkTable**: `IInv` adds `Shape`: an entry is whole or vacant, and only a repeater that linked to us is at another port than
  that of its protocol. Where a system is, it does not say: look-ups come to any address. The lemmas `Vacate`, `Renew` and `Enter`
  say what keeps the table sound; each action is one of the three. `LeastExists` and `LastExists` (the loops
  over the modules stop at the first or the last) come from the well-foundedness of strict inclusion.
  Proved: `TypeOK`, `ExclusiveModule`, `DcsRowBacked` (inductive on its own, with the table's shape), `LoginKept`, `KeepsTryingIfFound` (what
  is left of `KeepsTrying`: the look-up that fails is its exception), `SilentLinksRunOut` and the refinement `IsLinks`.
- **GatewayStreams**: `IInv` is the types and the three safety properties. `TrackedOnAir` carries the
  refinement: since all that is on the air from outside is the slot's own stream, a header let
  through finds the channel empty (`HeaderOpens`) and whatever ends the saved stream empties it
  (`EndCloses`). `FrameIInv` shows on the way that no frame of a local stream ever matches a saved
  header, which is why nothing follows the header of a cross-banded stream. `KeyedAlone` is a header that goes no further: it takes
  `Index` back, and either marks the talker in `again` or finds that his route is not his. Proved: `TypeOK`, `TrackedOnAir`,
  `TalkerIsForwarded`, `RecordingHasFile` and the refinement, `Spec => OneAtATime`.
- **RoutingCache**: `KnownByNick` ties the two maps of gateways together: a base has a name and an address or neither, the
  name is that of a nick on the channel and the address its own. It gives `CallsReachTheLiving`, since
  `RouteIsBehind` finds a repeater of some network for each place a call may go to. For `IsDirectory` each callback
  is shown to be one step of its network's directory and none of the other's (`OthersUnseen`).
  Proved: `TypeOK`, `CallsReachTheLiving`, `PresentIsFound`, `LastRecordCounts`, `IsDirectory`.
- **LinkStreams**: `IInv` is stated module by module (`Good`), so a handler that touches one module keeps the others by
  `Untouched`. `HeardSlot` says more than the properties: a slot with a stream of the module's own system can only be
  one of DCS, at the gateway, from the module linked to; with `Exclusive` no other module hears that stream, so
  its end at the gateway takes nobody's header back. `SpokenSlot` has to speak of a module that waits for an answer
  too, or `Connect` would bring an old stream to the new link. `TwoOthers` counts the copies. Proved: `TypeOK`,
  `RelayedAfterHeader`, `OwnCallsign`, `GatewayAfterHeader`.
- **Dongles**: `Accounted`: what a user has left and the heartbeats he was silent make at least a timeout, whichever users the walk
  leaves out. Proved, for any finite set of users: `TypeOK`, `OnlyTheQuietAreRemoved`.
- **Announcements**: `NoticesAreSo`: a notice that waits is true, unless the link changed since without one. Proved: `TypeOK`,
  `RadioKnows`, `NoticesAreHeard`.

### Refinements

| Theorem | Says |
|---|---|
| `GatewayIsRadioChannel` | `GatewayStreams` implements `RadioChannel` |
| `CacheIsDirectory` | each network of `RoutingCache` implements `Directory`, which leaves out the records of a repeater's own gateway, as the code does |
| `UplinkCorrect` | `IrcClient` implements `Uplink` |
| `LinksCorrect` | `LinkTable` implements `Links` |

The refinements have the form of the invariants: initial states map to initial states, and each action to a step or
to none. In `LinksCorrect` a handler that goes by address is a step of `Links` on the set of modules it finds (`UnlinkSeen` and
the lemmas after it), since an answer may connect several modules at once. That a repeater's request is matched to an entry by
address and remote module alone is in `Links` too (`Known`): the streams are proved with links whose callsign another system
has put there. `IrcDDBApp` and `LinkStreams` take the steps of `Uplink` and `Links` by construction, as conjuncts of their actions.

### Safety halves of the liveness properties

That something happens in the end is out of the prover's reach, but that nothing puts it off is a
property of single steps. For each liveness property that a run checks on a small
instance (but for `link_zombie`, which refutes one), the step that brings the end nearer is proved for any
instance; fairness says that such a step is taken, and the measure it uses up is a natural number.

| Liveness | Safety half | What is used up |
|---|---|---|
| `IrcClient!NoSilentStall` | `WaitsRunOut` | the timer of a protocol state, which nothing that arrives sets again |
| `IrcClient!CloseEndsThreads` | `ClosingGoesDown` | the places between the client and its end (`Ahead`) |
| `IrcDDBApp!DownloadEnds` | `DownloadRunsOut` | the timer of state 5, which only a `userLeave` in progress sets again |
| `IrcDDBApp!LossIsNoticed` | `LossRunsOut` | the worker's steps to state 0 (`StepsLeft`), statement by statement; a callback that is not over takes it back |
| `IrcDDBApp!RepeaterAnnounced` | `AnnouncementDue` | `infoTimer`, which runs as long as the server was not told |
| `LinkTable!LossIsNoticed` | `SilentLinksRunOut` | the countdown; renewed by one case only, `Revives`, which is the disagreement of `link_zombie` and needs auto_link |
| `Dongles!SilentAreRemoved` | `SilentRunOut` | the user's countdown, or a user before him |
| `Announcements!NoticeIsPlayed` | `NoticesAreHeard` | the notices that nobody talks over, all played in each turn |
| `GatewayStreams!SilenceFreesAll` | `SilenceRunsOut` | the timers of the slots; with nobody talking none is set |

`NoticesAreHeard` and `SilentLinksRunOut` are in a run; the others were checked by TLC, with the constants of a passing run of
their module, before they were proved.

Only model-checked: the liveness properties themselves, since fairness and ENABLED are out of the
prover's reach. No theorem is by induction over
data, which the installed provers cannot do; no module of the project declares a RECURSIVE operator.

## 5. Not modelled

Whole parts:

- *Icom terminal and controller stack* (`QnetIcomStack`): one thread that copies each packet under
  the next number of a 16-bit counter that nobody else sees. Its one wait is `IcomInit`
  (`QnetIcomStack.cpp`:88-99): INIT is sent once and its answer waited for in a blocking `recvfrom`,
  so a lost INIT is waited for until the process is restarted.
- *APRS client* (`aprs`, `Location`): the text of a position is put together from slow data and
  sent to a server; no other part reads what it keeps.
- *Slow-data decoder* (`DStarDecode`): a pure function of one frame.
- *DPlus authentication*: one blocking request at start-up, whose result is the constant `Listed` of `LinkTable`.
- *Sockets, configuration, process base*: wrappers of system calls and a text file read at start-up. What
  the modules use of them (addresses compared without ports, short writes, end of file) is in those modules.
- *QnetRemote, QnetVoice, dashboards, scripts*: programs that run once, presentation and installation.

Of the modelled parts:

- text of messages, its parsing and formatting; logging; rows of `LASTHEARD`;
- *application*: the messages of the watchdog and the fields of UPDATE and FIND beyond those the caches keep;
- *links*: a system that changes its protocol between two readings of the hosts file, the unlinking of all
  modules at shutdown;
- *streams*: the list of users last heard (`dt_lh_list`, `old_sid`), the echo of urcall E, DTMF and GPS text;
- *announcements*: the packets that make one up. Only the radio sees them. A linked announcement without
  `speak.dat` never sends a last frame (`QnetLink.cpp`:3535), which the radio notices by its own timeout;
- *gateway*: the order and numbers of frames and the filling of gaps modulo 21 (`QnetGateway.cpp`:1169), DTMF, last-heard
  records, the beacon and ircDDB threads.

## 6. Plan

Done, in the order of their weight: the ircDDB connection, its application, the routing cache with
its abstract specification `Directory`, the link table, the gateway's streams with `RadioChannel`, the streams over the links, the
dongles, the announcements; proofs of the safety properties of each.

Left:

1. `FrameOrder`: the numbering of frames at the gateway, with lost, late and repeated ones, and the filling of gaps.
2. `QnetIcomStack`, for the answer of INIT that is lost.
