---------------------------- MODULE HostConnections ----------------------------
(***************************************************************************)
(* The connections of a session's host: the listener thread accepts them    *)
(* (SessionHostManager::AcceptNewConnection), the validator thread answers   *)
(* their hello and trusts them (ValidateUntrustedConnections), the frame     *)
(* thread destroys the ones that have terminated (SessionManager::           *)
(* ProcessPendingConnectionOperations), and StopHostingASession clears all.  *)
(* What hangs together - the entry of mConnections, the endpoint, its two    *)
(* channels and the two streams - is put together and taken apart in steps,  *)
(* under the two locks mConnectionsMutex and EndpointManager::mCommonMutex.  *)
(***************************************************************************)
EXTENDS Integers, FiniteSets

CONSTANTS
    MaxIds,             \* bound: identifiers that are generated
    MaxConnections      \* SessionManager::kMaxConnectionCount

ASSUME ConnectionsAssumption == MaxIds \in Nat /\ MaxConnections \in Nat

Conns == 1 .. MaxIds

None == 0

VARIABLES
    entry,              \* mConnections: "none", "untrusted", or "trusted" with a handshake
    endpoints,          \* mLogicalEndpoints
    inChannel,          \* endpoints with an incoming channel
    outChannel,
    inStreams,          \* mInStreams
    outStreams,
    socket,             \* "none", "open" or "shut"
    sent,               \* what the client's bytes hold: "nothing", "hello" or "other"
    welcomed,           \* connections a welcome was stored for
    due,                \* connections older than kRecommendedHandshakeTimeout
    lastId,             \* mConnectionIdentifierGen
    listener,           \* the next step of the listener thread
    accepted,           \* the connection it is setting up
    validator,          \* the next step of the validator thread
    unchecked,          \* untrustedConnections it has still to check
    wasDue,             \* which were due at its "now"
    accepts,            \* connections accepted after its "now"
    trust,              \* shouldTrust
    destroy,            \* shouldDestroy
    frame,              \* the next step of the frame thread
    valid,              \* its validConnections
    toDestroy,          \* its connectionsToDestroy
    writer,             \* who holds mConnectionsMutex to write
    swept,              \* streams a RemoveOrphanedStreams has extracted
    sweeping,           \* how far it is: it may have to "extract" more, with mCommonMutex
                        \* held, or to "terminate" what it has extracted
    hosting,            \* "yes", "stopping" or "no"
    asserted            \* an RF_ASSERT has failed

comm == <<endpoints, inChannel, outChannel, inStreams, outStreams>>
wire == <<socket, sent, welcomed, due>>
listening == <<lastId, listener, accepted>>
validation == <<validator, unchecked, wasDue, accepts, trust, destroy>>
frames == <<frame, valid, toDestroy>>
sweep == <<writer, swept, sweeping>>
vars == <<entry, comm, wire, listening, validation, frames, sweep, hosting, asserted>>

Known == {x \in Conns : entry[x] # "none"}

\* GetChannels finds both streams: the channels hold weak pointers to them
HasChannels(x) ==
    /\ x \in endpoints
    /\ x \in inChannel /\ x \in inStreams
    /\ x \in outChannel /\ x \in outStreams

Init ==
    /\ entry = [x \in Conns |-> "none"]
    /\ endpoints = {} /\ inChannel = {} /\ outChannel = {} /\ inStreams = {} /\ outStreams = {}
    /\ socket = [x \in Conns |-> "none"]
    /\ sent = [x \in Conns |-> "nothing"]
    /\ welcomed = {} /\ due = {}
    /\ lastId = 0 /\ listener = "wait" /\ accepted = None
    /\ validator = "sleep" /\ unchecked = {} /\ wasDue = {} /\ accepts = {}
    /\ trust = {} /\ destroy = {}
    /\ frame = "idle" /\ valid = {} /\ toDestroy = {}
    /\ writer = "nobody" /\ swept = {} /\ sweeping = "no"
    /\ hosting = "yes" /\ asserted = FALSE

------------------------------------------------------------------------------
(* Listener thread *)

\* WaitForNewClientConnection returns a socket
AcceptClient ==
    /\ listener = "wait" /\ hosting = "yes" /\ lastId < MaxIds
    /\ listener' = "enter"
    /\ UNCHANGED <<entry, comm, wire, lastId, accepted, validation, frames, sweep, hosting, asserted>>

EnterConnection ==
    /\ listener = "enter" /\ writer = "nobody"
    /\ IF Cardinality(Known) >= MaxConnections
       THEN /\ listener' = "wait"
            /\ UNCHANGED <<entry, socket, lastId, accepted, accepts>>
       ELSE /\ listener' = "addIn"
            /\ lastId' = lastId + 1
            /\ accepted' = lastId'
            /\ entry' = [entry EXCEPT ![lastId'] = "untrusted"]
            /\ socket' = [socket EXCEPT ![lastId'] = "open"]
            /\ accepts' = IF validator = "list" THEN accepts \cup {lastId'} ELSE accepts
    /\ UNCHANGED <<comm, sent, welcomed, due, validator, unchecked, wasDue, trust, destroy,
                   frames, sweep, hosting, asserted>>

\* CreateClientChannels, one locked step after the other
AddIncomingStream ==
    /\ listener = "addIn" /\ sweeping # "extract"
    /\ asserted' = (asserted \/ accepted \in endpoints)
    /\ inStreams' = inStreams \cup {accepted}
    /\ listener' = "addOut"
    /\ UNCHANGED <<endpoints, inChannel, outChannel, outStreams>>

AddOutgoingStream ==
    /\ listener = "addOut" /\ sweeping # "extract"
    /\ outStreams' = outStreams \cup {accepted}
    /\ listener' = "addEndpoint"
    /\ UNCHANGED <<endpoints, inChannel, outChannel, inStreams, asserted>>

AddEndpoint ==
    /\ listener = "addEndpoint" /\ sweeping # "extract"
    /\ endpoints' = endpoints \cup {accepted}
    /\ listener' = "addInChannel"
    /\ UNCHANGED <<inChannel, outChannel, inStreams, outStreams, asserted>>

\* The endpoint has a lock of its own
AddIncomingChannel ==
    /\ listener = "addInChannel"
    /\ inChannel' = inChannel \cup {accepted}
    /\ listener' = "addOutChannel"
    /\ UNCHANGED <<endpoints, outChannel, inStreams, outStreams, asserted>>

AddOutgoingChannel ==
    /\ listener = "addOutChannel"
    /\ outChannel' = outChannel \cup {accepted}
    /\ listener' = "wait"
    /\ UNCHANGED <<endpoints, inChannel, inStreams, outStreams, asserted>>

CreateClientChannels ==
    /\ \/ AddIncomingStream \/ AddOutgoingStream \/ AddEndpoint
       \/ AddIncomingChannel \/ AddOutgoingChannel
    /\ UNCHANGED <<entry, wire, lastId, accepted, validation, frames, sweep, hosting>>

------------------------------------------------------------------------------
(* Validator thread *)

\* What the pass knew is gone
Sleep == validator' = "sleep" /\ wasDue' = {} /\ accepts' = {}

TakeNow ==
    /\ validator = "sleep" /\ hosting = "yes"
    /\ validator' = "list"
    /\ wasDue' = due /\ accepts' = {}
    /\ UNCHANGED <<entry, comm, wire, listening, unchecked, trust, destroy, frames, sweep,
                   hosting, asserted>>

ListUntrusted ==
    /\ validator = "list" /\ writer = "nobody"
    /\ unchecked' = {x \in Conns : entry[x] = "untrusted"}
    /\ IF unchecked' = {} THEN Sleep ELSE validator' = "check" /\ UNCHANGED <<wasDue, accepts>>
    /\ UNCHANGED <<entry, comm, wire, listening, trust, destroy, frames, sweep, hosting, asserted>>

Terminate(x) == socket' = [socket EXCEPT ![x] = "shut"]

\* A mutant of CheckConnection that lets a silent client wait
CheckNoTimeout(x) ==
    IF socket[x] = "shut"
    THEN /\ destroy' = destroy \cup {x}
         /\ UNCHANGED <<wire, trust, asserted>>
    ELSE /\ asserted' = (asserted \/ x \in accepts)
         /\ \/ /\ sent[x] = "other"
               /\ Terminate(x)
               /\ UNCHANGED <<sent, welcomed, due, trust>>
            \/ /\ sent[x] = "nothing"
               /\ UNCHANGED <<wire, trust>>
            \/ /\ sent[x] = "hello"
               /\ sent' = [sent EXCEPT ![x] = "nothing"]
               /\ trust' = trust \cup {x}
               /\ \/ welcomed' = welcomed \cup {x} /\ UNCHANGED socket
                  \/ Terminate(x) /\ UNCHANGED welcomed
               /\ UNCHANGED due
         /\ UNCHANGED destroy

\* A mutant of CheckConnection that ignores a failure to answer
CheckUnanswered(x) ==
    IF socket[x] = "shut"
    THEN /\ destroy' = destroy \cup {x}
         /\ UNCHANGED <<wire, trust, asserted>>
    ELSE /\ asserted' = (asserted \/ x \in accepts)
         /\ \/ /\ x \in wasDue \/ sent[x] = "other"
               /\ Terminate(x)
               /\ UNCHANGED <<sent, welcomed, due, trust>>
            \/ /\ x \notin wasDue /\ sent[x] = "nothing"
               /\ UNCHANGED <<wire, trust>>
            \/ /\ x \notin wasDue /\ sent[x] = "hello"
               /\ sent' = [sent EXCEPT ![x] = "nothing"]
               /\ trust' = trust \cup {x}
               /\ \/ welcomed' = welcomed \cup {x} /\ UNCHANGED socket
                  \/ UNCHANGED <<socket, welcomed>>
               /\ UNCHANGED due
         /\ UNCHANGED destroy

\* The checks of one connection that has its channels
CheckConnection(x) ==
    IF socket[x] = "shut"
    THEN /\ destroy' = destroy \cup {x}
         /\ UNCHANGED <<wire, trust, asserted>>
    ELSE /\ asserted' = (asserted \/ x \in accepts)
         /\ \/ /\ x \in wasDue \/ sent[x] = "other"
               /\ Terminate(x)
               /\ UNCHANGED <<sent, welcomed, due, trust>>
            \/ /\ x \notin wasDue /\ sent[x] = "nothing"
               /\ UNCHANGED <<wire, trust>>
            \/ /\ x \notin wasDue /\ sent[x] = "hello"
               /\ sent' = [sent EXCEPT ![x] = "nothing"]
               /\ trust' = trust \cup {x}
               /\ \/ welcomed' = welcomed \cup {x} /\ UNCHANGED socket
                  \/ Terminate(x) /\ UNCHANGED welcomed
               /\ UNCHANGED due
         /\ UNCHANGED destroy

Validate(x) ==
    /\ validator = "check" /\ x \in unchecked /\ sweeping # "extract"
    /\ unchecked' = unchecked \ {x}
    /\ IF HasChannels(x) THEN CheckConnection(x)
       ELSE UNCHANGED <<wire, trust, destroy, asserted>>
    /\ IF unchecked' \cup trust' \cup destroy' = {}
       THEN Sleep
       ELSE /\ validator' = IF unchecked' = {} THEN "update" ELSE "check"
            /\ UNCHANGED <<wasDue, accepts>>
    /\ UNCHANGED <<entry, comm, listening, frames, sweep, hosting>>

RemoveEndpoints(removed) ==
    /\ endpoints' = endpoints \ removed
    /\ inChannel' = inChannel \ removed
    /\ outChannel' = outChannel \ removed
    /\ UNCHANGED <<inStreams, outStreams>>

\* A mutant of UpdateConnections that leaves the endpoints to be swept
UpdateEntries ==
    /\ validator = "update" /\ writer = "nobody"
    /\ writer' = "validator"
    /\ entry' = [x \in Conns |->
                    IF x \in destroy THEN "none"
                    ELSE IF x \in trust \cap Known /\ x \notin accepts THEN "trusted"
                    ELSE entry[x]]
    /\ UNCHANGED comm
    /\ asserted' = (asserted \/ trust \cap accepts # {})
    /\ trust' = {} /\ destroy' = {}
    /\ validator' = "sweep"
    /\ UNCHANGED <<wire, listening, unchecked, wasDue, accepts, frames, swept, sweeping, hosting>>

\* One that was accepted after "now" has no handshake by its times
UpdateConnections ==
    /\ validator = "update" /\ writer = "nobody"
    /\ writer' = "validator"
    /\ entry' = [x \in Conns |->
                    IF x \in destroy THEN "none"
                    ELSE IF x \in trust \cap Known /\ x \notin accepts THEN "trusted"
                    ELSE entry[x]]
    /\ RemoveEndpoints(destroy \cap Known)
    /\ asserted' = (asserted \/ trust \cap accepts # {})
    /\ trust' = {} /\ destroy' = {}
    /\ validator' = "sweep"
    /\ UNCHANGED <<wire, listening, unchecked, wasDue, accepts, frames, swept, sweeping, hosting>>

------------------------------------------------------------------------------
(* RemoveOrphanedStreams( true ) *)

\* Extracts the incoming streams no endpoint has
SweepIncoming(who) ==
    /\ writer = who /\ sweeping = "no"
    /\ sweeping' = "extract"
    /\ swept' = {x \in inStreams : ~(x \in endpoints /\ x \in inChannel)}
    /\ inStreams' = inStreams \ swept'
    /\ UNCHANGED <<endpoints, inChannel, outChannel, outStreams, entry, wire, listening,
                   validation, frames, writer, hosting, asserted>>

\* Then the outgoing ones, and mCommonMutex is free
SweepOutgoing(who) ==
    /\ writer = who /\ sweeping = "extract"
    /\ sweeping' = "terminate"
    /\ outStreams' = {x \in outStreams : x \in endpoints /\ x \in outChannel}
    /\ swept' = swept \cup (outStreams \ outStreams')
    /\ UNCHANGED <<endpoints, inChannel, outChannel, inStreams, entry, wire, listening,
                   validation, frames, writer, hosting, asserted>>

\* The locks are given up, and the pass is over
EndSweep(who) ==
    /\ sweeping' = "no" /\ swept' = {} /\ writer' = "nobody"
    /\ IF who = "validator" THEN Sleep /\ UNCHANGED frame
       ELSE frame' = "idle" /\ UNCHANGED <<validator, wasDue, accepts>>
    /\ UNCHANGED <<comm, entry, sent, welcomed, due, listening, unchecked, trust, destroy,
                   valid, toDestroy, hosting, asserted>>

\* A mutant of TerminateSwept that terminates nothing
SweepQuietly(who) ==
    /\ writer = who /\ sweeping = "terminate"
    /\ UNCHANGED socket
    /\ EndSweep(who)

TerminateSwept(who) ==
    /\ writer = who /\ sweeping = "terminate"
    /\ socket' = [x \in Conns |-> IF x \in swept THEN "shut" ELSE socket[x]]
    /\ EndSweep(who)

------------------------------------------------------------------------------
(* Frame thread *)

BeginPass ==
    /\ frame = "idle" /\ hosting = "yes" /\ writer = "nobody"
    /\ LET handshaken == {x \in Conns : entry[x] = "trusted"} IN
        /\ valid' = {x \in handshaken : HasChannels(x) /\ socket[x] = "open"}
        /\ toDestroy' = handshaken \ valid'
    /\ frame' = "pass"
    /\ UNCHANGED <<entry, comm, wire, listening, validation, sweep, hosting, asserted>>

\* Nothing to destroy; "failed" are those a transmission could not be stored for
EndPass ==
    /\ frame = "pass"
    /\ \E failed \in SUBSET valid :
        IF toDestroy \cup failed = {}
        THEN /\ frame' = "idle"
             /\ UNCHANGED <<entry, comm, writer>>
        ELSE /\ writer = "nobody"
             /\ writer' = "frame"
             /\ frame' = "sweep"
             /\ entry' = [x \in Conns |-> IF x \in toDestroy \cup failed THEN "none" ELSE entry[x]]
             /\ RemoveEndpoints(toDestroy \cup failed)
    /\ valid' = {} /\ toDestroy' = {}
    /\ UNCHANGED <<wire, listening, validation, swept, sweeping, hosting, asserted>>

\* StopHostingASession shuts the listener's socket, then joins the threads
StopHosting ==
    /\ frame = "idle" /\ hosting = "yes"
    /\ hosting' = "stopping"
    /\ UNCHANGED <<entry, comm, wire, listening, validation, frames, sweep, asserted>>

StopValidator ==
    /\ hosting = "stopping" /\ validator = "sleep"
    /\ validator' = "stopped"
    /\ UNCHANGED <<entry, comm, wire, listening, unchecked, wasDue, accepts, trust, destroy,
                   frames, sweep, hosting, asserted>>

StopListener ==
    /\ hosting = "stopping" /\ validator = "stopped" /\ listener = "wait"
    /\ listener' = "stopped"
    /\ UNCHANGED <<entry, comm, wire, lastId, accepted, validation, frames, sweep, hosting, asserted>>

\* A mutant of DestroyAll that does not wait for the listener thread
DestroyTooSoon ==
    /\ hosting = "stopping" /\ validator = "stopped"
    /\ hosting' = "no"
    /\ entry' = [x \in Conns |-> "none"]
    /\ endpoints' = endpoints \ Known
    /\ inChannel' = inChannel \ Known
    /\ outChannel' = outChannel \ Known
    /\ inStreams' = {x \in inStreams : x \in endpoints' /\ x \in inChannel'}
    /\ outStreams' = {x \in outStreams : x \in endpoints' /\ x \in outChannel'}
    /\ socket' = [x \in Conns |->
                    IF x \in (inStreams \cup outStreams) \ (inStreams' \cap outStreams')
                    THEN "shut" ELSE socket[x]]
    /\ UNCHANGED <<sent, welcomed, due, listening, validation, frames, sweep, asserted>>

\* No other thread is left
DestroyAll ==
    /\ hosting = "stopping" /\ listener = "stopped"
    /\ hosting' = "no"
    /\ entry' = [x \in Conns |-> "none"]
    /\ endpoints' = endpoints \ Known
    /\ inChannel' = inChannel \ Known
    /\ outChannel' = outChannel \ Known
    /\ inStreams' = {x \in inStreams : x \in endpoints' /\ x \in inChannel'}
    /\ outStreams' = {x \in outStreams : x \in endpoints' /\ x \in outChannel'}
    /\ socket' = [x \in Conns |->
                    IF x \in (inStreams \cup outStreams) \ (inStreams' \cap outStreams')
                    THEN "shut" ELSE socket[x]]
    /\ UNCHANGED <<sent, welcomed, due, listening, validation, frames, sweep, asserted>>

StartHosting ==
    /\ hosting = "no"
    /\ hosting' = "yes"
    /\ listener' = "wait" /\ validator' = "sleep"
    /\ asserted' = (asserted \/ Known # {} \/ endpoints # {})
    /\ UNCHANGED <<entry, comm, wire, lastId, accepted, unchecked, wasDue, accepts, trust,
                   destroy, frames, sweep>>

------------------------------------------------------------------------------
(* Clients and time *)

Send(x, what) ==
    /\ socket[x] = "open" /\ sent[x] = "nothing" /\ x \notin welcomed
    /\ sent' = [sent EXCEPT ![x] = what]
    /\ UNCHANGED <<entry, comm, socket, welcomed, due, listening, validation, frames, sweep,
                   hosting, asserted>>

\* A send or receive fails, whoever tries it
Fail(x) ==
    /\ socket[x] = "open"
    /\ Terminate(x)
    /\ UNCHANGED <<entry, comm, sent, welcomed, due, listening, validation, frames, sweep,
                   hosting, asserted>>

TimePasses(x) ==
    /\ entry[x] = "untrusted" /\ x \notin due
    /\ due' = due \cup {x}
    /\ UNCHANGED <<entry, comm, socket, sent, welcomed, listening, validation, frames, sweep,
                   hosting, asserted>>

------------------------------------------------------------------------------
Listener == AcceptClient \/ EnterConnection \/ CreateClientChannels
Validator ==
    \/ TakeNow \/ ListUntrusted \/ (\E x \in Conns : Validate(x)) \/ UpdateConnections
    \/ SweepIncoming("validator") \/ SweepOutgoing("validator") \/ TerminateSwept("validator")
Frame ==
    \/ BeginPass \/ EndPass
    \/ SweepIncoming("frame") \/ SweepOutgoing("frame") \/ TerminateSwept("frame")
Stop == StopValidator \/ StopListener \/ DestroyAll

Next ==
    \/ Listener \/ Validator \/ Frame
    \/ StopHosting \/ Stop \/ StartHosting
    \/ \E x \in Conns : (\E what \in {"hello", "other"} : Send(x, what)) \/ Fail(x) \/ TimePasses(x)

\* The threads go on (the validator at the latest by its safety wake-up), a stop
\* is completed, and time passes
Fairness ==
    /\ WF_vars(EnterConnection \/ CreateClientChannels)
    /\ WF_vars(Validator)
    /\ WF_vars(Frame)
    /\ WF_vars(Stop)
    /\ \A x \in Conns : WF_vars(TimePasses(x))

Spec == Init /\ [][Next]_vars
FairSpec == Spec /\ Fairness

------------------------------------------------------------------------------
(* Properties *)

TypeOK ==
    /\ entry \in [Conns -> {"none", "untrusted", "trusted"}]
    /\ {endpoints, inChannel, outChannel, inStreams, outStreams} \subseteq SUBSET Conns
    /\ socket \in [Conns -> {"none", "open", "shut"}]
    /\ sent \in [Conns -> {"nothing", "hello", "other"}]
    /\ {welcomed, due, unchecked, wasDue, accepts, trust, destroy, valid, toDestroy, swept}
            \subseteq SUBSET Conns
    /\ lastId \in 0 .. MaxIds /\ accepted \in 0 .. lastId
    /\ listener \in {"wait", "enter", "addIn", "addOut", "addEndpoint", "addInChannel",
                     "addOutChannel", "stopped"}
    /\ validator \in {"sleep", "list", "check", "update", "sweep", "stopped"}
    /\ frame \in {"idle", "pass", "sweep"}
    /\ writer \in {"nobody", "validator", "frame"}
    /\ sweeping \in {"no", "extract", "terminate"} /\ asserted \in BOOLEAN
    /\ hosting \in {"yes", "stopping", "no"}

(* Whenever mConnectionsMutex is free, what the endpoint manager holds belongs *)
(* to a connection: nothing is left behind by destroying one, whichever thread *)
(* does it while a third is setting up another.                                *)
NothingLeftBehind ==
    writer = "nobody" => endpoints \cup inStreams \cup outStreams \subseteq Known

(* A connection whose socket is open and that has been set up can be talked    *)
(* to, unless somebody is just about to terminate it: a stream is never taken  *)
(* away without that.                                                          *)
SettingUp == IF listener \in {"wait", "enter", "stopped"} THEN {} ELSE {accepted}

OpenMeansWhole ==
    \A x \in Known \ (SettingUp \cup swept) : socket[x] = "open" => HasChannels(x)

(* A connection has a handshake only when its welcome is on its way or its      *)
(* socket is shut: no client waits for an answer of a host that trusts it.      *)
TrustedAreWelcomed ==
    \A x \in Conns : entry[x] = "trusted" => x \in welcomed \/ socket[x] = "shut"

(* After StopHostingASession nothing is left that StartHostingASession would    *)
(* stumble over, wherever the threads were when it began.                       *)
StopClearsAll ==
    hosting = "no" => /\ Known = {} /\ endpoints = {} /\ inStreams = {} /\ outStreams = {}
                      /\ \A x \in Conns : socket[x] # "open"

(* A connection that has its channels is trusted or removed in the end, and one *)
(* that has terminated is removed: its place among kMaxConnectionCount comes    *)
(* back.                                                                        *)
Waits(x) == entry[x] = "untrusted" /\ HasChannels(x)
Lingers(x) == entry[x] = "trusted" /\ socket[x] = "shut"

PlacesComeBack ==
    \A x \in Conns : Waits(x) \/ Lingers(x) ~> ~Waits(x) /\ ~Lingers(x)

------------------------------------------------------------------------------
(* What comments and assertions of the code say and the code does not keep.     *)
(* No run checks these; section 6 of the README tells what happens.             *)

(* The same as PlacesComeBack for every connection the listener enters.         *)
EveryoneIsSettled == \A x \in Conns : entry[x] = "untrusted" ~> entry[x] # "untrusted"

(* A connection is never younger than the validator's clock                     *)
(* (RF_ASSERT( timePassed >= Clock::duration{ 0 } )).                           *)
ClocksAgree == ~asserted

================================================================================
