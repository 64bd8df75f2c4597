-------------------------- MODULE HostConnectionsProofs --------------------------
(***************************************************************************)
(* Proofs about HostConnections, for any number of connections.             *)
(***************************************************************************)
EXTENDS HostConnections, TLAPS

Ids == 1 .. lastId

Done == Known \ SettingUp

\* What has been generated; an identifier to come is used nowhere
Generated ==
    /\ Known \subseteq Ids
    /\ endpoints \cup inChannel \cup outChannel \cup inStreams \cup outStreams \cup swept \subseteq Ids
    /\ \A x \in Conns : x \in Ids <=> socket[x] # "none"
    /\ listener = "enter" => lastId < MaxIds

\* Whose turn it is
Turns ==
    /\ writer = "validator" <=> validator = "sweep"
    /\ writer = "frame" <=> frame = "sweep"
    /\ sweeping # "no" => writer # "nobody"
    /\ sweeping = "no" => swept = {}
    /\ frame # "idle" => hosting = "yes"
    /\ hosting = "yes" => validator # "stopped" /\ listener # "stopped"
    /\ validator = "stopped" => hosting # "yes"
    /\ listener = "stopped" => validator = "stopped"
    /\ hosting = "no" => listener = "stopped"

\* The connection the listener sets up is known, not trusted, and complete as far
\* as the listener has come
Setup ==
    SettingUp # {} =>
        /\ accepted \in Known /\ entry[accepted] = "untrusted"
        /\ accepted \notin outChannel
        /\ listener = "addIn" => accepted \notin outStreams
        /\ listener \in {"addIn", "addOut", "addEndpoint"} => accepted \notin endpoints
        /\ listener \in {"addInChannel", "addOutChannel"} => accepted \in endpoints
        /\ listener = "addOutChannel" => accepted \in inChannel
        /\ socket[accepted] = "open" =>
            /\ listener # "addIn" => accepted \in inStreams \cup swept
            /\ listener \notin {"addIn", "addOut"} => accepted \in outStreams \cup swept

\* Endpoints belong to connections, and so do streams outside a removal
Held ==
    /\ endpoints \subseteq Known
    /\ inChannel \cup outChannel \subseteq endpoints
    /\ writer = "nobody" \/ sweeping # "no" => inStreams \subseteq Known
    /\ writer = "nobody" \/ sweeping = "terminate" => outStreams \subseteq Known

\* Set up, a connection keeps its channels, and its streams until it is shut
Whole ==
    \A x \in Done : /\ x \in endpoints /\ x \in inChannel /\ x \in outChannel
                    /\ socket[x] = "open" => x \in inStreams \cup swept /\ x \in outStreams \cup swept

\* A connection that was removed for what could not be sent is swept and terminated
Removed ==
    \A x \in Conns : socket[x] = "open" /\ x \notin Known =>
        /\ writer # "nobody" /\ x \notin endpoints
        /\ x \in swept \/ (sweeping = "no" /\ x \in inStreams)

\* What the validator and the frame thread have noted of connections
Noted ==
    /\ validator \notin {"check", "update"} => trust = {} /\ destroy = {}
    /\ frame # "pass" => valid = {} /\ toDestroy = {}
    /\ \A x \in trust \cup destroy \cup valid \cup toDestroy : x \in Ids /\ x \notin SettingUp
    /\ \A x \in destroy \cup toDestroy : socket[x] = "shut"
    /\ \A x \in trust : x \in welcomed \/ socket[x] = "shut"

ConnInv ==
    /\ TypeOK /\ Generated /\ Turns /\ Setup /\ Held /\ Whole /\ Removed /\ Noted
    /\ TrustedAreWelcomed /\ StopClearsAll

USE ConnectionsAssumption DEF Conns, None, Known, Ids, Done, SettingUp, comm, wire, listening,
    validation, frames, sweep

LEMMA AcceptClientKeeps ==
    ASSUME ConnInv, AcceptClient
    PROVE  ConnInv'
<1>1. TypeOK'
  BY DEF ConnInv, TypeOK, AcceptClient
<1>2. Generated'
  BY DEF ConnInv, Generated, AcceptClient
<1>3. Turns'
  BY DEF ConnInv, Turns, AcceptClient
<1>4. Setup'
  BY DEF ConnInv, Setup, AcceptClient
<1>5. Held'
  BY DEF ConnInv, Held, AcceptClient
<1>6. Whole'
  BY DEF ConnInv, Whole, AcceptClient
<1>7. Noted'
  BY DEF ConnInv, Noted, AcceptClient
<1>8. TrustedAreWelcomed'
  BY DEF ConnInv, TrustedAreWelcomed, AcceptClient
<1>9. StopClearsAll'
  BY DEF ConnInv, StopClearsAll, AcceptClient
<1>10. Removed'
  BY DEF ConnInv, TypeOK, Turns, Removed, AcceptClient
<1> QED  BY <1>1, <1>2, <1>3, <1>4, <1>5, <1>6, <1>7, <1>8, <1>9, <1>10 DEF ConnInv

LEMMA EnterConnectionKeeps ==
    ASSUME ConnInv, EnterConnection
    PROVE  ConnInv'
<1>1. TypeOK'
  <2>1. lastId' \in 0 .. MaxIds /\ accepted' \in 0 .. lastId'
    BY DEF ConnInv, TypeOK, Generated, EnterConnection
  <2>2. CASE Cardinality(Known) >= MaxConnections
    BY <2>1, <2>2 DEF ConnInv, TypeOK, EnterConnection
  <2>3. CASE ~(Cardinality(Known) >= MaxConnections)
    <3>1. lastId' \in Conns
      BY <2>3 DEF ConnInv, TypeOK, Generated, EnterConnection
    <3>2. entry' \in [Conns -> {"none", "untrusted", "trusted"}]
      BY <2>3, <3>1 DEF ConnInv, TypeOK, EnterConnection
    <3>3. socket' \in [Conns -> {"none", "open", "shut"}]
      BY <2>3, <3>1 DEF ConnInv, TypeOK, EnterConnection
    <3>4. accepts' \in SUBSET Conns
      BY <2>3, <3>1 DEF ConnInv, TypeOK, EnterConnection
    <3> QED  BY <2>1, <2>3, <3>2, <3>3, <3>4 DEF ConnInv, TypeOK, EnterConnection
  <2> QED  BY <2>2, <2>3
<1>2. Generated'
  <2>1. CASE Cardinality(Known) >= MaxConnections
    BY <2>1 DEF ConnInv, Generated, EnterConnection
  <2>2. CASE ~(Cardinality(Known) >= MaxConnections)
    <3>1. lastId' = lastId + 1 /\ lastId' \in Conns /\ Ids \subseteq Ids' /\ lastId' \in Ids'
      BY <2>2 DEF ConnInv, TypeOK, Generated, EnterConnection
    <3>2. /\ endpoints \cup inChannel \cup outChannel \cup inStreams \cup outStreams \cup swept
                \subseteq Ids'
          /\ Known' \subseteq Ids'
      BY <2>2, <3>1 DEF ConnInv, TypeOK, Generated, EnterConnection
    <3>3. \A x \in Conns : x \in Ids' <=> socket'[x] # "none"
      BY <2>2, <3>1 DEF ConnInv, TypeOK, Generated, EnterConnection
    <3> QED  BY <2>2, <3>2, <3>3 DEF Generated, EnterConnection
  <2> QED  BY <2>1, <2>2
<1>3. Turns'
  BY DEF ConnInv, Turns, EnterConnection
<1>4. Setup'
  BY DEF ConnInv, TypeOK, Generated, Turns, Setup, EnterConnection
<1>5. Held'
  BY DEF ConnInv, TypeOK, Held, EnterConnection
<1>6. Whole'
  BY DEF ConnInv, TypeOK, Whole, EnterConnection
<1>7. Noted'
  BY DEF ConnInv, TypeOK, Noted, EnterConnection
<1>8. TrustedAreWelcomed'
  BY DEF ConnInv, TypeOK, TrustedAreWelcomed, EnterConnection
<1>9. StopClearsAll'
  BY DEF ConnInv, TypeOK, Turns, StopClearsAll, EnterConnection
<1>10. Removed'
  BY DEF ConnInv, TypeOK, Turns, Removed, EnterConnection
<1> QED  BY <1>1, <1>2, <1>3, <1>4, <1>5, <1>6, <1>7, <1>8, <1>9, <1>10 DEF ConnInv

LEMMA AddIncomingStreamKeeps ==
    ASSUME ConnInv, AddIncomingStream, UNCHANGED <<entry, wire, lastId, accepted, validation, frames, sweep, hosting>>
    PROVE  ConnInv'
<1>1. TypeOK'
  BY DEF ConnInv, TypeOK, Generated, Turns, Setup, AddIncomingStream
<1>2. Generated'
  BY DEF ConnInv, TypeOK, Generated, Turns, Setup, AddIncomingStream
<1>3. Turns'
  BY DEF ConnInv, Turns, AddIncomingStream
<1>4. Setup'
  BY DEF ConnInv, Setup, AddIncomingStream
<1>5. Held'
  BY DEF ConnInv, TypeOK, Generated, Turns, Setup, Held, AddIncomingStream
<1>6. Whole'
  BY DEF ConnInv, Whole, AddIncomingStream
<1>7. Noted'
  BY DEF ConnInv, Noted, AddIncomingStream
<1>8. TrustedAreWelcomed'
  BY DEF ConnInv, TrustedAreWelcomed, AddIncomingStream
<1>9. StopClearsAll'
  BY DEF ConnInv, TypeOK, Turns, StopClearsAll, AddIncomingStream
<1>10. Removed'
  BY DEF ConnInv, TypeOK, Turns, Removed, AddIncomingStream
<1> QED  BY <1>1, <1>2, <1>3, <1>4, <1>5, <1>6, <1>7, <1>8, <1>9, <1>10 DEF ConnInv

LEMMA AddOutgoingStreamKeeps ==
    ASSUME ConnInv, AddOutgoingStream, UNCHANGED <<entry, wire, lastId, accepted, validation, frames, sweep, hosting>>
    PROVE  ConnInv'
<1>1. TypeOK'
  BY DEF ConnInv, TypeOK, Generated, Turns, Setup, AddOutgoingStream
<1>2. Generated'
  BY DEF ConnInv, TypeOK, Generated, Turns, Setup, AddOutgoingStream
<1>3. Turns'
  BY DEF ConnInv, Turns, AddOutgoingStream
<1>4. Setup'
  BY DEF ConnInv, Setup, AddOutgoingStream
<1>5. Held'
  BY DEF ConnInv, TypeOK, Generated, Turns, Setup, Held, AddOutgoingStream
<1>6. Whole'
  BY DEF ConnInv, Whole, AddOutgoingStream
<1>7. Noted'
  BY DEF ConnInv, Noted, AddOutgoingStream
<1>8. TrustedAreWelcomed'
  BY DEF ConnInv, TrustedAreWelcomed, AddOutgoingStream
<1>9. StopClearsAll'
  BY DEF ConnInv, TypeOK, Turns, StopClearsAll, AddOutgoingStream
<1>10. Removed'
  BY DEF ConnInv, TypeOK, Turns, Removed, AddOutgoingStream
<1> QED  BY <1>1, <1>2, <1>3, <1>4, <1>5, <1>6, <1>7, <1>8, <1>9, <1>10 DEF ConnInv

LEMMA AddEndpointKeeps ==
    ASSUME ConnInv, AddEndpoint, UNCHANGED <<entry, wire, lastId, accepted, validation, frames, sweep, hosting>>
    PROVE  ConnInv'
<1>1. TypeOK'
  BY DEF ConnInv, TypeOK, Generated, Turns, Setup, AddEndpoint
<1>2. Generated'
  BY DEF ConnInv, TypeOK, Generated, Turns, Setup, AddEndpoint
<1>3. Turns'
  BY DEF ConnInv, Turns, AddEndpoint
<1>4. Setup'
  BY DEF ConnInv, Setup, AddEndpoint
<1>5. Held'
  BY DEF ConnInv, TypeOK, Generated, Turns, Setup, Held, AddEndpoint
<1>6. Whole'
  BY DEF ConnInv, Whole, AddEndpoint
<1>7. Noted'
  BY DEF ConnInv, Noted, AddEndpoint
<1>8. TrustedAreWelcomed'
  BY DEF ConnInv, TrustedAreWelcomed, AddEndpoint
<1>9. StopClearsAll'
  BY DEF ConnInv, TypeOK, Turns, StopClearsAll, AddEndpoint
<1>10. Removed'
  BY DEF ConnInv, TypeOK, Turns, Setup, Removed, AddEndpoint
<1> QED  BY <1>1, <1>2, <1>3, <1>4, <1>5, <1>6, <1>7, <1>8, <1>9, <1>10 DEF ConnInv

LEMMA AddIncomingChannelKeeps ==
    ASSUME ConnInv, AddIncomingChannel, UNCHANGED <<entry, wire, lastId, accepted, validation, frames, sweep, hosting>>
    PROVE  ConnInv'
<1>1. TypeOK'
  BY DEF ConnInv, TypeOK, Generated, Turns, Setup, AddIncomingChannel
<1>2. Generated'
  BY DEF ConnInv, TypeOK, Generated, Turns, Setup, AddIncomingChannel
<1>3. Turns'
  BY DEF ConnInv, Turns, AddIncomingChannel
<1>4. Setup'
  BY DEF ConnInv, Setup, AddIncomingChannel
<1>5. Held'
  BY DEF ConnInv, TypeOK, Generated, Turns, Setup, Held, AddIncomingChannel
<1>6. Whole'
  BY DEF ConnInv, Whole, AddIncomingChannel
<1>7. Noted'
  BY DEF ConnInv, Noted, AddIncomingChannel
<1>8. TrustedAreWelcomed'
  BY DEF ConnInv, TrustedAreWelcomed, AddIncomingChannel
<1>9. StopClearsAll'
  BY DEF ConnInv, StopClearsAll, AddIncomingChannel
<1>10. Removed'
  BY DEF ConnInv, TypeOK, Turns, Removed, AddIncomingChannel
<1> QED  BY <1>1, <1>2, <1>3, <1>4, <1>5, <1>6, <1>7, <1>8, <1>9, <1>10 DEF ConnInv

LEMMA AddOutgoingChannelKeeps ==
    ASSUME ConnInv, AddOutgoingChannel, UNCHANGED <<entry, wire, lastId, accepted, validation, frames, sweep, hosting>>
    PROVE  ConnInv'
<1>1. TypeOK'
  BY DEF ConnInv, TypeOK, Generated, Turns, Setup, AddOutgoingChannel
<1>2. Generated'
  BY DEF ConnInv, TypeOK, Generated, Turns, Setup, AddOutgoingChannel
<1>3. Turns'
  BY DEF ConnInv, Turns, AddOutgoingChannel
<1>4. Setup'
  BY DEF ConnInv, Setup, AddOutgoingChannel
<1>5. Held'
  BY DEF ConnInv, TypeOK, Generated, Turns, Setup, Held, AddOutgoingChannel
<1>6. Whole'
  BY DEF ConnInv, TypeOK, Generated, Turns, Setup, Whole, AddOutgoingChannel
<1>7. Noted'
  BY DEF ConnInv, Noted, AddOutgoingChannel
<1>8. TrustedAreWelcomed'
  BY DEF ConnInv, TrustedAreWelcomed, AddOutgoingChannel
<1>9. StopClearsAll'
  BY DEF ConnInv, StopClearsAll, AddOutgoingChannel
<1>10. Removed'
  BY DEF ConnInv, TypeOK, Turns, Removed, AddOutgoingChannel
<1> QED  BY <1>1, <1>2, <1>3, <1>4, <1>5, <1>6, <1>7, <1>8, <1>9, <1>10 DEF ConnInv

LEMMA TakeNowKeeps ==
    ASSUME ConnInv, TakeNow
    PROVE  ConnInv'
<1>1. TypeOK'
  BY DEF ConnInv, TypeOK, TakeNow
<1>2. Generated'
  BY DEF ConnInv, Generated, TakeNow
<1>3. Turns'
  BY DEF ConnInv, Turns, TakeNow
<1>4. Setup'
  BY DEF ConnInv, Setup, TakeNow
<1>5. Held'
  BY DEF ConnInv, Held, TakeNow
<1>6. Whole'
  BY DEF ConnInv, Whole, TakeNow
<1>7. Noted'
  BY DEF ConnInv, Noted, TakeNow
<1>8. TrustedAreWelcomed'
  BY DEF ConnInv, TrustedAreWelcomed, TakeNow
<1>9. StopClearsAll'
  BY DEF ConnInv, StopClearsAll, TakeNow
<1>10. Removed'
  BY DEF ConnInv, TypeOK, Turns, Removed, TakeNow
<1> QED  BY <1>1, <1>2, <1>3, <1>4, <1>5, <1>6, <1>7, <1>8, <1>9, <1>10 DEF ConnInv

LEMMA ListUntrustedKeeps ==
    ASSUME ConnInv, ListUntrusted
    PROVE  ConnInv'
<1>1. TypeOK'
  BY DEF ConnInv, TypeOK, ListUntrusted, Sleep
<1>2. Generated'
  BY DEF ConnInv, Generated, ListUntrusted, Sleep
<1>3. Turns'
  BY DEF ConnInv, Turns, ListUntrusted, Sleep
<1>4. Setup'
  BY DEF ConnInv, Setup, ListUntrusted, Sleep
<1>5. Held'
  BY DEF ConnInv, Held, ListUntrusted, Sleep
<1>6. Whole'
  BY DEF ConnInv, Whole, ListUntrusted, Sleep
<1>7. Noted'
  BY DEF ConnInv, Noted, ListUntrusted, Sleep
<1>8. TrustedAreWelcomed'
  BY DEF ConnInv, TrustedAreWelcomed, ListUntrusted, Sleep
<1>9. StopClearsAll'
  BY DEF ConnInv, StopClearsAll, ListUntrusted, Sleep
<1>10. Removed'
  BY DEF ConnInv, TypeOK, Turns, Removed, ListUntrusted, Sleep
<1> QED  BY <1>1, <1>2, <1>3, <1>4, <1>5, <1>6, <1>7, <1>8, <1>9, <1>10 DEF ConnInv

LEMMA ValidateKeeps ==
    ASSUME ConnInv, NEW x \in Conns, Validate(x)
    PROVE  ConnInv'
<1>1. TypeOK'
  <2>1. CASE HasChannels(x) /\ socket[x] # "shut"
    <3>1. /\ socket' \in [Conns -> {"none", "open", "shut"}]
          /\ sent' \in [Conns -> {"nothing", "hello", "other"}]
      BY <2>1 DEF ConnInv, TypeOK, Validate, CheckConnection, Terminate
    <3>2. /\ {welcomed', due', trust', destroy', unchecked'} \subseteq SUBSET Conns
          /\ asserted' \in BOOLEAN
      BY <2>1 DEF ConnInv, TypeOK, Validate, CheckConnection, Terminate
    <3>3. /\ validator' \in {"sleep", "check", "update"}
          /\ {wasDue', accepts'} \subseteq SUBSET Conns
      BY DEF ConnInv, TypeOK, Validate, Sleep
    <3> QED  BY <3>1, <3>2, <3>3 DEF ConnInv, TypeOK, Validate
  <2>2. CASE ~HasChannels(x) \/ socket[x] = "shut"
    <3>1. UNCHANGED <<socket, sent, welcomed, due, trust>> /\ asserted' \in BOOLEAN
      BY <2>2 DEF ConnInv, TypeOK, Validate, CheckConnection
    <3>2. {destroy', unchecked'} \subseteq SUBSET Conns
      BY <2>2 DEF ConnInv, TypeOK, Validate, CheckConnection
    <3>3. /\ validator' \in {"sleep", "check", "update"}
          /\ {wasDue', accepts'} \subseteq SUBSET Conns
      BY DEF ConnInv, TypeOK, Validate, Sleep
    <3> QED  BY <3>1, <3>2, <3>3 DEF ConnInv, TypeOK, Validate
  <2> QED  BY <2>1, <2>2
<1>2. Generated'
  BY DEF ConnInv, TypeOK, Generated, Validate, CheckConnection, Terminate, Sleep, HasChannels
<1>3. Turns'
  BY DEF ConnInv, Turns, Validate, CheckConnection, Terminate, Sleep, HasChannels
<1>4. Setup'
  BY DEF ConnInv, TypeOK, Setup, Validate, CheckConnection, Terminate, Sleep, HasChannels
<1>5. Held'
  BY DEF ConnInv, Held, Validate, CheckConnection, Terminate, Sleep, HasChannels
<1>6. Whole'
  BY DEF ConnInv, TypeOK, Whole, Validate, CheckConnection, Terminate, Sleep, HasChannels
<1>7. Noted'
  BY DEF ConnInv, TypeOK, Generated, Turns, Setup, Noted, Validate, CheckConnection,
         Terminate, Sleep, HasChannels
<1>8. TrustedAreWelcomed'
  BY DEF ConnInv, TypeOK, TrustedAreWelcomed, Validate, CheckConnection, Terminate, Sleep,
         HasChannels
<1>9. StopClearsAll'
  BY DEF ConnInv, StopClearsAll, Validate, CheckConnection, Terminate, Sleep, HasChannels
<1>10. Removed'
  BY DEF ConnInv, TypeOK, Turns, Removed, Validate, CheckConnection, Terminate, Sleep, HasChannels
<1> QED  BY <1>1, <1>2, <1>3, <1>4, <1>5, <1>6, <1>7, <1>8, <1>9, <1>10 DEF ConnInv

LEMMA UpdateConnectionsKeeps ==
    ASSUME ConnInv, UpdateConnections
    PROVE  ConnInv'
<1>1. TypeOK'
  BY DEF ConnInv, TypeOK, UpdateConnections, RemoveEndpoints
<1>2. Generated'
  BY DEF ConnInv, TypeOK, Generated, Turns, Setup, Noted, UpdateConnections, RemoveEndpoints
<1>3. Turns'
  BY DEF ConnInv, Turns, UpdateConnections, RemoveEndpoints
<1>4. Setup'
  BY DEF ConnInv, TypeOK, Generated, Turns, Setup, Noted, UpdateConnections, RemoveEndpoints
<1>5. Held'
  BY DEF ConnInv, TypeOK, Turns, Held, UpdateConnections, RemoveEndpoints
<1>6. Whole'
  <2> SUFFICES ASSUME NEW x \in Done'
               PROVE  /\ x \in endpoints' /\ x \in inChannel' /\ x \in outChannel'
                      /\ socket'[x] = "open" => x \in inStreams' \cup swept' /\ x \in outStreams' \cup swept'
    BY DEF Whole
  <2> HIDE DEF Known, SettingUp
  <2>a. x \in Conns /\ entry'[x] # "none" /\ x \notin SettingUp
    <3>1. x \in Known' /\ x \notin SettingUp'
      BY DEF Done
    <3>2. x \in Conns /\ entry'[x] # "none"
      BY <3>1 DEF Known
    <3>3. x \notin SettingUp
      BY <3>1 DEF UpdateConnections, SettingUp
    <3> QED  BY <3>2, <3>3
  <2>b. x \notin destroy
    BY <2>a DEF UpdateConnections
  <2>c. entry[x] # "none"
    BY <2>a, <2>b DEF UpdateConnections, Known
  <2>1. x \in Done /\ x \notin destroy
    BY <2>a, <2>b, <2>c DEF Done, Known
  <2>2. /\ x \in endpoints /\ x \in inChannel /\ x \in outChannel
        /\ socket[x] = "open" => x \in inStreams \cup swept /\ x \in outStreams \cup swept
    BY <2>1 DEF ConnInv, Whole
  <2> QED  BY <2>1, <2>2 DEF UpdateConnections, RemoveEndpoints
<1>7. Noted'
  BY DEF ConnInv, Noted, UpdateConnections, RemoveEndpoints
<1>8. TrustedAreWelcomed'
  BY DEF ConnInv, TypeOK, Generated, Turns, Setup, Noted, TrustedAreWelcomed,
         UpdateConnections, RemoveEndpoints
<1>9. StopClearsAll'
  BY DEF ConnInv, StopClearsAll, UpdateConnections, RemoveEndpoints
<1>10. Removed'
  BY DEF ConnInv, TypeOK, Generated, Turns, Setup, Held, Whole, Noted, Removed, UpdateConnections, RemoveEndpoints
<1> QED  BY <1>1, <1>2, <1>3, <1>4, <1>5, <1>6, <1>7, <1>8, <1>9, <1>10 DEF ConnInv

LEMMA SweepIncomingKeeps ==
    ASSUME ConnInv, NEW who \in {"validator", "frame"}, SweepIncoming(who)
    PROVE  ConnInv'
<1>1. TypeOK'
  BY DEF ConnInv, TypeOK, SweepIncoming
<1>2. Generated'
  BY DEF ConnInv, Generated, SweepIncoming
<1>3. Turns'
  BY DEF ConnInv, Turns, SweepIncoming
<1>4. Setup'
  BY DEF ConnInv, TypeOK, Turns, Setup, SweepIncoming
<1>5. Held'
  BY DEF ConnInv, Held, SweepIncoming
<1>6. Whole'
  BY DEF ConnInv, TypeOK, Turns, Whole, SweepIncoming
<1>7. Noted'
  BY DEF ConnInv, Noted, SweepIncoming
<1>8. TrustedAreWelcomed'
  BY DEF ConnInv, TrustedAreWelcomed, SweepIncoming
<1>9. StopClearsAll'
  BY DEF ConnInv, StopClearsAll, SweepIncoming
<1>10. Removed'
  BY DEF ConnInv, TypeOK, Turns, Removed, SweepIncoming
<1> QED  BY <1>1, <1>2, <1>3, <1>4, <1>5, <1>6, <1>7, <1>8, <1>9, <1>10 DEF ConnInv

LEMMA SweepOutgoingKeeps ==
    ASSUME ConnInv, NEW who \in {"validator", "frame"}, SweepOutgoing(who)
    PROVE  ConnInv'
<1>1. TypeOK'
  BY DEF ConnInv, TypeOK, SweepOutgoing
<1>2. Generated'
  BY DEF ConnInv, Generated, SweepOutgoing
<1>3. Turns'
  BY DEF ConnInv, Turns, SweepOutgoing
<1>4. Setup'
  BY DEF ConnInv, TypeOK, Turns, Setup, SweepOutgoing
<1>5. Held'
  BY DEF ConnInv, Held, SweepOutgoing
<1>6. Whole'
  BY DEF ConnInv, TypeOK, Turns, Whole, SweepOutgoing
<1>7. Noted'
  BY DEF ConnInv, Noted, SweepOutgoing
<1>8. TrustedAreWelcomed'
  BY DEF ConnInv, TrustedAreWelcomed, SweepOutgoing
<1>9. StopClearsAll'
  BY DEF ConnInv, StopClearsAll, SweepOutgoing
<1>10. Removed'
  BY DEF ConnInv, TypeOK, Turns, Removed, SweepOutgoing
<1> QED  BY <1>1, <1>2, <1>3, <1>4, <1>5, <1>6, <1>7, <1>8, <1>9, <1>10 DEF ConnInv

LEMMA TerminateSweptKeeps ==
    ASSUME ConnInv, NEW who \in {"validator", "frame"}, TerminateSwept(who)
    PROVE  ConnInv'
<1>1. TypeOK'
  <2>1. socket' \in [Conns -> {"none", "open", "shut"}]
    BY DEF ConnInv, TypeOK, TerminateSwept, EndSweep
  <2>2. outStreams' \in SUBSET Conns /\ swept' \in SUBSET Conns
    BY DEF ConnInv, TypeOK, TerminateSwept, EndSweep
  <2>3. /\ validator' \in {"sleep", validator} /\ frame' \in {"idle", frame}
        /\ {wasDue', accepts'} \subseteq SUBSET Conns
    BY DEF ConnInv, TypeOK, TerminateSwept, EndSweep, Sleep
  <2>4. /\ {endpoints', inChannel', outChannel', inStreams'} \subseteq SUBSET Conns
        /\ {welcomed', due', unchecked', trust', destroy', valid', toDestroy'} \subseteq SUBSET Conns
    BY DEF ConnInv, TypeOK, TerminateSwept, EndSweep
  <2>5. /\ UNCHANGED <<entry, sent, lastId, accepted, listener, hosting, asserted>>
        /\ writer' = "nobody" /\ sweeping' = "no"
    BY DEF TerminateSwept, EndSweep
  <2> QED  BY <2>1, <2>2, <2>3, <2>4, <2>5 DEF ConnInv, TypeOK
<1>2. Generated'
  <2>1. \A x \in Conns : socket'[x] = "none" <=> socket[x] = "none"
    BY DEF ConnInv, TypeOK, Generated, Turns, TerminateSwept, EndSweep
  <2>2. \A x \in Conns : socket'[x] = "open" => socket[x] = "open"
    BY DEF ConnInv, TypeOK, TerminateSwept, EndSweep
  <2>3. outStreams' \subseteq outStreams
    BY DEF TerminateSwept, EndSweep
  <2> QED  BY <2>1, <2>2, <2>3 DEF ConnInv, Generated, TerminateSwept, EndSweep, Sleep
<1>3. Turns'
  BY DEF ConnInv, Turns, TerminateSwept, EndSweep, Sleep
<1>4. Setup'
  BY DEF ConnInv, Setup, TerminateSwept, EndSweep, Sleep
<1>5. Held'
  BY DEF ConnInv, Held, TerminateSwept, EndSweep, Sleep
<1>6. Whole'
  BY DEF ConnInv, Whole, TerminateSwept, EndSweep, Sleep
<1>7. Noted'
  BY DEF ConnInv, TypeOK, Turns, Noted, TerminateSwept, EndSweep, Sleep
<1>8. TrustedAreWelcomed'
  BY DEF ConnInv, TrustedAreWelcomed, TerminateSwept, EndSweep, Sleep
<1>9. StopClearsAll'
  BY DEF ConnInv, StopClearsAll, TerminateSwept, EndSweep, Sleep
<1>10. Removed'
  BY DEF ConnInv, TypeOK, Turns, Removed, TerminateSwept, EndSweep, Sleep
<1> QED  BY <1>1, <1>2, <1>3, <1>4, <1>5, <1>6, <1>7, <1>8, <1>9, <1>10 DEF ConnInv

LEMMA BeginPassKeeps ==
    ASSUME ConnInv, BeginPass
    PROVE  ConnInv'
<1>1. TypeOK'
  BY DEF ConnInv, TypeOK, BeginPass, HasChannels
<1>2. Generated'
  BY DEF ConnInv, Generated, BeginPass, HasChannels
<1>3. Turns'
  BY DEF ConnInv, Turns, BeginPass, HasChannels
<1>4. Setup'
  BY DEF ConnInv, Setup, BeginPass, HasChannels
<1>5. Held'
  BY DEF ConnInv, Held, BeginPass, HasChannels
<1>6. Whole'
  BY DEF ConnInv, Whole, BeginPass, HasChannels
<1>7. Noted'
  BY DEF ConnInv, TypeOK, Generated, Turns, Setup, Held, Whole, Noted, BeginPass, HasChannels
<1>8. TrustedAreWelcomed'
  BY DEF ConnInv, TrustedAreWelcomed, BeginPass, HasChannels
<1>9. StopClearsAll'
  BY DEF ConnInv, StopClearsAll, BeginPass, HasChannels
<1>10. Removed'
  BY DEF ConnInv, TypeOK, Turns, Removed, BeginPass, HasChannels
<1> QED  BY <1>1, <1>2, <1>3, <1>4, <1>5, <1>6, <1>7, <1>8, <1>9, <1>10 DEF ConnInv

LEMMA EndPassKeeps ==
    ASSUME ConnInv, EndPass
    PROVE  ConnInv'
<1>1. TypeOK'
  BY DEF ConnInv, TypeOK, EndPass, RemoveEndpoints
<1>2. Generated'
  BY DEF ConnInv, TypeOK, Generated, Turns, Setup, Noted, EndPass, RemoveEndpoints
<1>3. Turns'
  BY DEF ConnInv, Turns, EndPass, RemoveEndpoints
<1>4. Setup'
  BY DEF ConnInv, TypeOK, Generated, Turns, Setup, Noted, EndPass, RemoveEndpoints
<1>5. Held'
  BY DEF ConnInv, TypeOK, Turns, Held, EndPass, RemoveEndpoints
<1>6. Whole'
  BY DEF ConnInv, Whole, EndPass, RemoveEndpoints
<1>7. Noted'
  BY DEF ConnInv, Noted, EndPass, RemoveEndpoints
<1>8. TrustedAreWelcomed'
  BY DEF ConnInv, TrustedAreWelcomed, EndPass, RemoveEndpoints
<1>9. StopClearsAll'
  BY DEF ConnInv, StopClearsAll, EndPass, RemoveEndpoints
<1>10. Removed'
  BY DEF ConnInv, TypeOK, Generated, Turns, Setup, Held, Whole, Noted, Removed, EndPass, RemoveEndpoints
<1> QED  BY <1>1, <1>2, <1>3, <1>4, <1>5, <1>6, <1>7, <1>8, <1>9, <1>10 DEF ConnInv

LEMMA StopHostingKeeps ==
    ASSUME ConnInv, StopHosting
    PROVE  ConnInv'
<1>1. TypeOK'
  BY DEF ConnInv, TypeOK, StopHosting
<1>2. Generated'
  BY DEF ConnInv, Generated, StopHosting
<1>3. Turns'
  BY DEF ConnInv, Turns, StopHosting
<1>4. Setup'
  BY DEF ConnInv, Setup, StopHosting
<1>5. Held'
  BY DEF ConnInv, Held, StopHosting
<1>6. Whole'
  BY DEF ConnInv, Whole, StopHosting
<1>7. Noted'
  BY DEF ConnInv, Noted, StopHosting
<1>8. TrustedAreWelcomed'
  BY DEF ConnInv, TrustedAreWelcomed, StopHosting
<1>9. StopClearsAll'
  BY DEF ConnInv, StopClearsAll, StopHosting
<1>10. Removed'
  BY DEF ConnInv, TypeOK, Turns, Removed, StopHosting
<1> QED  BY <1>1, <1>2, <1>3, <1>4, <1>5, <1>6, <1>7, <1>8, <1>9, <1>10 DEF ConnInv

LEMMA StopValidatorKeeps ==
    ASSUME ConnInv, StopValidator
    PROVE  ConnInv'
<1>1. TypeOK'
  BY DEF ConnInv, TypeOK, StopValidator
<1>2. Generated'
  BY DEF ConnInv, Generated, StopValidator
<1>3. Turns'
  BY DEF ConnInv, Turns, StopValidator
<1>4. Setup'
  BY DEF ConnInv, Setup, StopValidator
<1>5. Held'
  BY DEF ConnInv, Held, StopValidator
<1>6. Whole'
  BY DEF ConnInv, Whole, StopValidator
<1>7. Noted'
  BY DEF ConnInv, Noted, StopValidator
<1>8. TrustedAreWelcomed'
  BY DEF ConnInv, TrustedAreWelcomed, StopValidator
<1>9. StopClearsAll'
  BY DEF ConnInv, StopClearsAll, StopValidator
<1>10. Removed'
  BY DEF ConnInv, TypeOK, Turns, Removed, StopValidator
<1> QED  BY <1>1, <1>2, <1>3, <1>4, <1>5, <1>6, <1>7, <1>8, <1>9, <1>10 DEF ConnInv

LEMMA StopListenerKeeps ==
    ASSUME ConnInv, StopListener
    PROVE  ConnInv'
<1>1. TypeOK'
  BY DEF ConnInv, TypeOK, StopListener
<1>2. Generated'
  BY DEF ConnInv, Generated, StopListener
<1>3. Turns'
  BY DEF ConnInv, Turns, StopListener
<1>4. Setup'
  BY DEF ConnInv, Setup, StopListener
<1>5. Held'
  BY DEF ConnInv, Held, StopListener
<1>6. Whole'
  BY DEF ConnInv, Whole, StopListener
<1>7. Noted'
  BY DEF ConnInv, Noted, StopListener
<1>8. TrustedAreWelcomed'
  BY DEF ConnInv, TrustedAreWelcomed, StopListener
<1>9. StopClearsAll'
  BY DEF ConnInv, StopClearsAll, StopListener
<1>10. Removed'
  BY DEF ConnInv, TypeOK, Turns, Removed, StopListener
<1> QED  BY <1>1, <1>2, <1>3, <1>4, <1>5, <1>6, <1>7, <1>8, <1>9, <1>10 DEF ConnInv

LEMMA DestroyAllKeeps ==
    ASSUME ConnInv, DestroyAll
    PROVE  ConnInv'
<1>1. TypeOK'
  BY DEF ConnInv, TypeOK, DestroyAll
<1>2. Generated'
  BY DEF ConnInv, TypeOK, Generated, Turns, Setup, Held, Whole, DestroyAll
<1>3. Turns'
  BY DEF ConnInv, Turns, DestroyAll
<1>4. Setup'
  BY DEF ConnInv, Setup, DestroyAll
<1>5. Held'
  BY DEF ConnInv, Held, DestroyAll
<1>6. Whole'
  BY DEF ConnInv, Whole, DestroyAll
<1>7. Noted'
  BY DEF ConnInv, TypeOK, Noted, DestroyAll
<1>8. TrustedAreWelcomed'
  BY DEF ConnInv, TrustedAreWelcomed, DestroyAll
<1>9. StopClearsAll'
  BY DEF ConnInv, TypeOK, Generated, Turns, Setup, Held, Whole, Removed, StopClearsAll, DestroyAll
<1>10. Removed'
  BY DEF ConnInv, TypeOK, Generated, Turns, Setup, Held, Whole, Noted, Removed, DestroyAll
<1> QED  BY <1>1, <1>2, <1>3, <1>4, <1>5, <1>6, <1>7, <1>8, <1>9, <1>10 DEF ConnInv

LEMMA StartHostingKeeps ==
    ASSUME ConnInv, StartHosting
    PROVE  ConnInv'
<1>1. TypeOK'
  BY DEF ConnInv, TypeOK, StartHosting
<1>2. Generated'
  BY DEF ConnInv, Generated, StartHosting
<1>3. Turns'
  BY DEF ConnInv, Turns, StartHosting
<1>4. Setup'
  BY DEF ConnInv, Setup, StartHosting
<1>5. Held'
  BY DEF ConnInv, Held, StartHosting
<1>6. Whole'
  BY DEF ConnInv, TypeOK, Turns, Whole, StartHosting
<1>7. Noted'
  BY DEF ConnInv, TypeOK, Turns, Noted, StartHosting
<1>8. TrustedAreWelcomed'
  BY DEF ConnInv, TrustedAreWelcomed, StartHosting
<1>9. StopClearsAll'
  BY DEF ConnInv, StopClearsAll, StartHosting
<1>10. Removed'
  BY DEF ConnInv, TypeOK, Turns, Removed, StartHosting
<1> QED  BY <1>1, <1>2, <1>3, <1>4, <1>5, <1>6, <1>7, <1>8, <1>9, <1>10 DEF ConnInv

LEMMA SendKeeps ==
    ASSUME ConnInv, NEW x \in Conns, NEW what \in {"hello", "other"}, Send(x, what)
    PROVE  ConnInv'
<1>1. TypeOK'
  BY DEF ConnInv, TypeOK, Send
<1>2. Generated'
  BY DEF ConnInv, Generated, Send
<1>3. Turns'
  BY DEF ConnInv, Turns, Send
<1>4. Setup'
  BY DEF ConnInv, Setup, Send
<1>5. Held'
  BY DEF ConnInv, Held, Send
<1>6. Whole'
  BY DEF ConnInv, Whole, Send
<1>7. Noted'
  BY DEF ConnInv, Noted, Send
<1>8. TrustedAreWelcomed'
  BY DEF ConnInv, TrustedAreWelcomed, Send
<1>9. StopClearsAll'
  BY DEF ConnInv, StopClearsAll, Send
<1>10. Removed'
  BY DEF ConnInv, TypeOK, Turns, Removed, Send
<1> QED  BY <1>1, <1>2, <1>3, <1>4, <1>5, <1>6, <1>7, <1>8, <1>9, <1>10 DEF ConnInv

LEMMA FailKeeps ==
    ASSUME ConnInv, NEW x \in Conns, Fail(x)
    PROVE  ConnInv'
<1>1. TypeOK'
  BY DEF ConnInv, TypeOK, Fail, Terminate
<1>2. Generated'
  BY DEF ConnInv, Generated, Fail, Terminate
<1>3. Turns'
  BY DEF ConnInv, Turns, Fail, Terminate
<1>4. Setup'
  BY DEF ConnInv, Setup, Fail, Terminate
<1>5. Held'
  BY DEF ConnInv, Held, Fail, Terminate
<1>6. Whole'
  BY DEF ConnInv, Whole, Fail, Terminate
<1>7. Noted'
  BY DEF ConnInv, Noted, Fail, Terminate
<1>8. TrustedAreWelcomed'
  BY DEF ConnInv, TrustedAreWelcomed, Fail, Terminate
<1>9. StopClearsAll'
  BY DEF ConnInv, StopClearsAll, Fail, Terminate
<1>10. Removed'
  BY DEF ConnInv, TypeOK, Turns, Removed, Fail, Terminate
<1> QED  BY <1>1, <1>2, <1>3, <1>4, <1>5, <1>6, <1>7, <1>8, <1>9, <1>10 DEF ConnInv

LEMMA TimePassesKeeps ==
    ASSUME ConnInv, NEW x \in Conns, TimePasses(x)
    PROVE  ConnInv'
<1>1. TypeOK'
  BY DEF ConnInv, TypeOK, TimePasses
<1>2. Generated'
  BY DEF ConnInv, Generated, TimePasses
<1>3. Turns'
  BY DEF ConnInv, Turns, TimePasses
<1>4. Setup'
  BY DEF ConnInv, Setup, TimePasses
<1>5. Held'
  BY DEF ConnInv, Held, TimePasses
<1>6. Whole'
  BY DEF ConnInv, Whole, TimePasses
<1>7. Noted'
  BY DEF ConnInv, Noted, TimePasses
<1>8. TrustedAreWelcomed'
  BY DEF ConnInv, TrustedAreWelcomed, TimePasses
<1>9. StopClearsAll'
  BY DEF ConnInv, StopClearsAll, TimePasses
<1>10. Removed'
  BY DEF ConnInv, TypeOK, Turns, Removed, TimePasses
<1> QED  BY <1>1, <1>2, <1>3, <1>4, <1>5, <1>6, <1>7, <1>8, <1>9, <1>10 DEF ConnInv

LEMMA ConnStart == Init => ConnInv
<1> SUFFICES ASSUME Init  PROVE ConnInv
  OBVIOUS
<1>1. TypeOK
  <2>1. /\ entry \in [Conns -> {"none", "untrusted", "trusted"}]
        /\ socket \in [Conns -> {"none", "open", "shut"}]
        /\ sent \in [Conns -> {"nothing", "hello", "other"}]
    BY DEF Init
  <2>2. lastId \in 0 .. MaxIds /\ accepted \in 0 .. lastId
    BY DEF Init
  <2> QED  BY <2>1, <2>2 DEF Init, TypeOK
<1>2. Known = {} /\ SettingUp = {} /\ Ids = {}
  <2>1. Known = {}
    BY DEF Init
  <2>2. SettingUp = {}
    BY DEF Init
  <2>3. Ids = {}
    BY DEF Init
  <2> QED  BY <2>1, <2>2, <2>3
<1>3. Generated /\ Turns /\ Held /\ Removed
  BY <1>2 DEF Init, Generated, Turns, Held, Removed
<1>4. Setup /\ Whole /\ Noted
  BY <1>2 DEF Init, Setup, Whole, Noted
<1>5. TrustedAreWelcomed /\ StopClearsAll
  BY <1>2 DEF Init, TrustedAreWelcomed, StopClearsAll
<1> QED  BY <1>1, <1>3, <1>4, <1>5 DEF ConnInv

LEMMA ConnStep == ConnInv /\ [Next]_vars => ConnInv'
<1> SUFFICES ASSUME ConnInv, [Next]_vars  PROVE ConnInv'
  OBVIOUS
<1>1. CASE Listener
  BY <1>1, AcceptClientKeeps, EnterConnectionKeeps, AddIncomingStreamKeeps,
     AddOutgoingStreamKeeps, AddEndpointKeeps, AddIncomingChannelKeeps, AddOutgoingChannelKeeps
     DEF Listener, CreateClientChannels
<1>2. CASE Validator
  BY <1>2, TakeNowKeeps, ListUntrustedKeeps, ValidateKeeps, UpdateConnectionsKeeps,
     SweepIncomingKeeps, SweepOutgoingKeeps, TerminateSweptKeeps DEF Validator
<1>3. CASE Frame
  BY <1>3, BeginPassKeeps, EndPassKeeps, SweepIncomingKeeps, SweepOutgoingKeeps, TerminateSweptKeeps DEF Frame
<1>4. CASE StopHosting \/ Stop \/ StartHosting
  BY <1>4, StopHostingKeeps, StopValidatorKeeps, StopListenerKeeps, DestroyAllKeeps,
     StartHostingKeeps DEF Stop
<1>5. CASE \E x \in Conns : (\E what \in {"hello", "other"} : Send(x, what)) \/ Fail(x) \/ TimePasses(x)
  BY <1>5, SendKeeps, FailKeeps, TimePassesKeeps
<1>6. CASE UNCHANGED vars
  BY <1>6 DEF vars, ConnInv, TypeOK, Generated, Turns, Setup, Held, Whole, Removed,
              Noted, TrustedAreWelcomed, StopClearsAll
<1> QED  BY <1>1, <1>2, <1>3, <1>4, <1>5, <1>6 DEF Next

(* The inductive invariant of the host's connections.                        *)
THEOREM ConnectionsInvariant == Spec => []ConnInv
<1>1. Init => ConnInv
  BY ConnStart
<1>2. ConnInv /\ [Next]_vars => ConnInv'
  BY ConnStep
<1> QED  BY <1>1, <1>2, PTL DEF Spec

(* Every variable keeps its type.                                            *)
THEOREM ConnectionsTypes == Spec => []TypeOK
<1>1. ConnInv => TypeOK
  BY DEF ConnInv
<1> QED  BY <1>1, ConnectionsInvariant, PTL

(* Destroying a connection - by the validator, the frame or a stop, while the *)
(* listener sets up another - leaves no endpoint and no stream without its    *)
(* entry in mConnections.                                                     *)
THEOREM RemovalIsComplete == Spec => []NothingLeftBehind
<1>1. ConnInv => NothingLeftBehind
  BY DEF ConnInv, Held, NothingLeftBehind
<1> QED  BY <1>1, ConnectionsInvariant, PTL

(* A connection that is set up, whose socket is open and that nobody is about *)
(* to terminate has both channels and both streams: RemoveOrphanedStreams      *)
(* takes none it does not terminate.                                           *)
THEOREM OpenConnectionsAreWhole == Spec => []OpenMeansWhole
<1>1. ConnInv => OpenMeansWhole
  <2> SUFFICES ASSUME ConnInv, NEW x \in Known \ (SettingUp \cup swept), socket[x] = "open"
               PROVE  HasChannels(x)
    BY DEF OpenMeansWhole
  <2>1. /\ x \in endpoints /\ x \in inChannel /\ x \in outChannel
        /\ x \in inStreams \cup swept /\ x \in outStreams \cup swept
    BY DEF ConnInv, Whole
  <2> QED  BY <2>1 DEF HasChannels
<1> QED  BY <1>1, ConnectionsInvariant, PTL

(* The host trusts no client it left without an answer.                       *)
THEOREM TrustMeansWelcome == Spec => []TrustedAreWelcomed
<1>1. ConnInv => TrustedAreWelcomed
  BY DEF ConnInv
<1> QED  BY <1>1, ConnectionsInvariant, PTL

(* StopHostingASession leaves nothing, wherever the threads were.             *)
THEOREM StoppingClearsAll == Spec => []StopClearsAll
<1>1. ConnInv => StopClearsAll
  BY DEF ConnInv
<1> QED  BY <1>1, ConnectionsInvariant, PTL

================================================================================
