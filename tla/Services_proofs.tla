--------------------------- MODULE Services_proofs ---------------------------
(***************************************************************************)
(* The parts at the edge of the engine, for any number of actors.           *)
(* WsSessions: a connection speaks for its instance alone and its session   *)
(* is cancelled when it goes, for every set of connections and instances    *)
(* and every number of messages.  ProjectHost: what the clients are shown   *)
(* once every request has been answered, and what becomes of the            *)
(* preferences, for any number of threads, files, requests, edits and       *)
(* crashes.  Scripts: an enabled script whose source changed finds out, and *)
(* the engine keeps what the script declared, for any texts, children,      *)
(* targets and levels.                                                      *)
(***************************************************************************)
EXTENDS WsSessions, ProjectHost, Scripts, InductionFacts, FiniteSetTheorems, SequenceTheorems

-----------------------------------------------------------------------------
(* WsSessions.                                                             *)


CommandKinds == {"register", "bind", "begin", "end", "batch", "unregister"}

CommandType ==
    {c \in [kind : CommandKinds, sock : Sockets, instance : Instances \cup {Nobody}] :
        c.kind = "bind" => c.instance \in Instances}

SessionType ==
    /\ conn \in [Sockets -> {"new", "open", "closing", "closed"}]
    /\ channel \in Seq(CommandType)
    /\ clients \in [Sockets -> Instances \cup {Nobody, Unknown}]
    /\ tabs \in [Instances -> Sockets \cup {Nobody}]
    /\ session \in [by : Sockets \cup {Nobody}, owner : Instances \cup {Nobody}]
    /\ session.owner # Nobody => session.by # Nobody
    /\ stranded \in BOOLEAN

\* Nothing of this connection has reached the engine or the hub's tabs.
Unheard(s) == session.by # s /\ \A i \in Instances : tabs[i] # s

\* A connection's Register is the first command the hub reads of it.
RegisterFirst ==
    /\ \A s \in Sockets : conn[s] = "new" => Unheard(s) /\ \A k \in 1..Len(channel) : channel[k].sock # s
    /\ \A k \in 1..Len(channel) : channel[k].kind = "register" =>
         /\ Unheard(channel[k].sock)
         /\ \A j \in 1..Len(channel) : channel[j].sock = channel[k].sock => k <= j

\* A tab's connection is bound to it, unless the hub has forgotten it.
TabsNameClients == \A i \in Instances : tabs[i] # Nobody => clients[tabs[i]] \in {i, Unknown}

SessionsInv ==
    SessionType /\ RegisterFirst /\ TabsNameClients /\ SessionsCanBeCancelled /\ OneConnectionPerInstance

-----------------------------------------------------------------------------
LEMMA SessionsInvInit == SessionsInit => SessionsInv
<1> SUFFICES ASSUME SessionsInit PROVE SessionsInv
  OBVIOUS
<1>b. stranded \in BOOLEAN
  BY DEF SessionsInit
<1> USE SessionsAssumption DEF SessionsInit, NoSession, Unknown
<1>1. SessionType
  <2>1. channel \in Seq(CommandType) /\ session \in [by : Sockets \cup {Nobody}, owner : Instances \cup {Nobody}]
    OBVIOUS
  <2>. QED
    BY <1>b, <2>1 DEF SessionType
<1>2. RegisterFirst /\ TabsNameClients
  BY DEF RegisterFirst, TabsNameClients, Unheard
<1>3. SessionsCanBeCancelled /\ OneConnectionPerInstance
  BY DEF SessionsCanBeCancelled, OneConnectionPerInstance
<1>. QED
  BY <1>1, <1>2, <1>3 DEF SessionsInv

\* A connection's thread sends a command.
LEMMA SendKeeps ==
    ASSUME SessionsInv, NEW c \in CommandType, channel' = Append(channel, c),
           conn[c.sock] # "new" \/ c.kind = "register",
           c.kind = "register" => conn[c.sock] = "new",
           conn' \in [Sockets -> {"new", "open", "closing", "closed"}],
           conn'[c.sock] # "new", \A r \in Sockets \ {c.sock} : conn'[r] = conn[r],
           UNCHANGED <<hubVars, session, stranded>>
    PROVE  SessionsInv'
<1> USE DEF SessionsInv
<1>1. channel \in Seq(CommandType) /\ channel' \in Seq(CommandType)
  BY DEF SessionType
<1>2. SessionType'
  BY <1>1 DEF SessionType, hubVars
<1> DEFINE n == Len(channel)
<1>3. /\ n \in Nat /\ Len(channel') = n + 1 /\ channel'[n + 1] = c
      /\ \A k \in 1..n : channel'[k] = channel[k] /\ k <= n + 1 /\ k # n + 1
      /\ \A k \in 1..(n + 1) : k \in 1..n \/ k = n + 1
  BY <1>1
<1> HIDE DEF n
<1>4. c.sock \in Sockets /\ \A k \in 1..n : channel[k].sock \in Sockets
  BY <1>1 DEF CommandType, n
<1>5. \A s : Unheard(s)' <=> Unheard(s)
  BY DEF Unheard, hubVars
<1>6. RegisterFirst'
  <2>1. ASSUME NEW s \in Sockets, conn'[s] = "new"
        PROVE  Unheard(s) /\ \A k \in 1..Len(channel') : channel'[k].sock # s
    <3>1. s # c.sock /\ conn[s] = "new"
      BY <2>1
    <3>2. Unheard(s) /\ \A k \in 1..n : channel[k].sock # s
      BY <3>1 DEF RegisterFirst, n
    <3>. QED
      BY <1>3, <3>1, <3>2
  <2>2. ASSUME NEW k \in 1..Len(channel'), channel'[k].kind = "register"
        PROVE  /\ Unheard(channel'[k].sock)
               /\ \A j \in 1..Len(channel') : channel'[j].sock = channel'[k].sock => k <= j
    <3>1. CASE k = n + 1
      <4>1. c.kind = "register" /\ conn[c.sock] = "new" /\ channel'[k].sock = c.sock
        BY <1>3, <2>2, <3>1
      <4>2. Unheard(c.sock) /\ \A j \in 1..n : channel[j].sock # c.sock
        BY <1>4, <4>1 DEF RegisterFirst, n
      <4>. QED
        BY <1>3, <3>1, <4>1, <4>2
    <3>2. CASE k \in 1..n
      <4>1. channel'[k] = channel[k] /\ channel[k].kind = "register"
        BY <1>3, <2>2, <3>2
      <4>2. /\ Unheard(channel[k].sock)
            /\ \A j \in 1..n : channel[j].sock = channel[k].sock => k <= j
        BY <3>2, <4>1 DEF RegisterFirst, n
      <4>. QED
        BY <1>3, <3>2, <4>1, <4>2
    <3>. QED
      BY <1>3, <3>1, <3>2
  <2>. QED
    BY <1>5, <2>1, <2>2 DEF RegisterFirst
<1>7. TabsNameClients' /\ SessionsCanBeCancelled' /\ OneConnectionPerInstance'
  BY DEF TabsNameClients, SessionsCanBeCancelled, OneConnectionPerInstance, hubVars
<1>. QED
  BY <1>2, <1>6, <1>7

\* What the hub knows of the command it reads.
LEMMA HeadFacts ==
    ASSUME SessionsInv, NEW kind, Takes(kind)
    PROVE  /\ Head(channel) \in CommandType /\ Head(channel).sock \in Sockets
           /\ Head(channel).kind = kind
           /\ kind = "register" => Unheard(Head(channel).sock)
           /\ kind = "bind" => Head(channel).instance \in Instances
           /\ channel' \in Seq(CommandType)
<1>1. channel \in Seq(CommandType) /\ channel # <<>> /\ channel' = Tail(channel) /\ Head(channel).kind = kind
  BY DEF SessionsInv, SessionType, Takes
<1>2. Head(channel) = channel[1] /\ 1 \in 1..Len(channel) /\ channel' \in Seq(CommandType)
  BY <1>1
<1>3. Head(channel) \in CommandType
  BY <1>1, <1>2
<1>. QED
  BY <1>1, <1>2, <1>3 DEF CommandType, SessionsInv, RegisterFirst

\* The hub hears of the connection whose command it reads, and of no other.
LEMMA HandleKeepsOrder ==
    ASSUME SessionsInv, NEW kind, Takes(kind), UNCHANGED conn,
           \A r \in Sockets \ {Head(channel).sock} : Unheard(r) => Unheard(r)'
    PROVE  RegisterFirst'
<1> USE DEF SessionsInv
<1> DEFINE s == Head(channel).sock  n == Len(channel)
<1>1. channel \in Seq(CommandType) /\ channel # <<>> /\ channel' = Tail(channel)
  BY DEF SessionType, Takes
<1>2. /\ n \in Nat /\ n >= 1 /\ Len(channel') = n - 1 /\ channel[1].sock = s
      /\ \A k \in 1..Len(channel') : channel'[k] = channel[k + 1] /\ k + 1 \in 1..n
      /\ \A k \in 1..n : channel[k].sock \in Sockets
  BY <1>1 DEF CommandType
<1> HIDE DEF s, n
<1>3. ASSUME NEW r \in Sockets, conn'[r] = "new"
      PROVE  Unheard(r)' /\ \A k \in 1..Len(channel') : channel'[k].sock # r
  <2>1. Unheard(r) /\ \A k \in 1..n : channel[k].sock # r
    BY <1>3 DEF RegisterFirst, n
  <2>2. r # s
    BY <1>2, <2>1
  <2>. QED
    BY <1>2, <2>1, <2>2 DEF s
<1>4. ASSUME NEW k \in 1..Len(channel'), channel'[k].kind = "register"
      PROVE  /\ \A r : r = channel'[k].sock => Unheard(r)'
             /\ \A j \in 1..Len(channel') : channel'[j].sock = channel'[k].sock => k <= j
  <2>1. channel'[k] = channel[k + 1] /\ k + 1 \in 1..n /\ channel[k + 1].sock \in Sockets
    BY <1>2
  <2>2. /\ Unheard(channel[k + 1].sock)
        /\ \A j \in 1..n : channel[j].sock = channel[k + 1].sock => k + 1 <= j
    BY <1>4, <2>1 DEF RegisterFirst, n
  <2>3. channel[k + 1].sock # s
    BY <1>2, <2>2
  <2>4. \A j \in 1..Len(channel') : channel'[j].sock = channel'[k].sock => k <= j
    BY SMTT(20), <1>2, <2>1, <2>2
  <2>. QED
    BY <2>1, <2>2, <2>3, <2>4 DEF s
<1>. QED
  BY <1>3, <1>4 DEF RegisterFirst, Unheard

\* What a step that forgets or keeps connections must show of the rest.
LEMMA HubKeeps ==
    ASSUME SessionsInv, NEW kind, Takes(kind), UNCHANGED conn, SessionType',
           \A r \in Sockets \ {Head(channel).sock} : Unheard(r) => Unheard(r)',
           TabsNameClients', SessionsCanBeCancelled', OneConnectionPerInstance'
    PROVE  SessionsInv'
BY HandleKeepsOrder DEF SessionsInv

\* Forgetting a connection keeps the table of tabs true.
LEMMA ForgetKeeps ==
    ASSUME SessionsInv, NEW s \in Sockets, clients' = [clients EXCEPT ![s] = Unknown],
           UNCHANGED tabs
    PROVE  TabsNameClients' /\ OneConnectionPerInstance'
<1> USE SessionsAssumption DEF SessionsInv, SessionType, Unknown
<1>1. TabsNameClients'
  BY DEF TabsNameClients
<1>2. OneConnectionPerInstance'
  BY DEF OneConnectionPerInstance
<1>. QED
  BY <1>1, <1>2

LEMMA RegisterStep ==
    ASSUME SessionsInv, HandleRegister
    PROVE  SessionsInv'
<1> DEFINE s == Head(channel).sock
<1>1. /\ Takes("register") /\ SendTo(s, [clients EXCEPT ![s] = Nobody])
      /\ UNCHANGED <<conn, tabs, session>>
  BY DEF HandleRegister, socketVars
<1>2. s \in Sockets /\ Unheard(s) /\ channel' \in Seq(CommandType)
  BY <1>1, HeadFacts
<1> HIDE DEF s
<1>3. \/ clients' = [clients EXCEPT ![s] = Nobody] /\ stranded' = stranded
      \/ /\ clients' = [clients EXCEPT ![s] = Unknown]
         /\ stranded' = (stranded \/ (session.by = s /\ session.owner # Nobody))
  BY <1>1, <1>2 DEF SendTo, Strands, SessionsInv, SessionType
<1> USE <1>1, <1>2, <1>3, SessionsAssumption DEF SessionsInv, SessionType, Unknown
<1>4. SessionType'
  OBVIOUS
<1>5. TabsNameClients' /\ OneConnectionPerInstance'
  BY DEF TabsNameClients, OneConnectionPerInstance, Unheard
<1>6. SessionsCanBeCancelled'
  BY DEF SessionsCanBeCancelled, Unheard
<1>. QED
  BY <1>4, <1>5, <1>6, HubKeeps DEF Unheard

LEMMA UnregisterStep ==
    ASSUME SessionsInv, HandleUnregister
    PROVE  SessionsInv'
<1> DEFINE s == Head(channel).sock  i == clients[s]
<1>1. /\ Takes("unregister") /\ clients' = [clients EXCEPT ![s] = Unknown] /\ conn' = conn
      /\ \/ /\ i \in Instances
            /\ tabs' = [tabs EXCEPT ![i] = IF tabs[i] = s THEN Nobody ELSE tabs[i]]
            /\ session' = Cancelled(i)
            /\ stranded' = (stranded /\ session' # NoSession)
         \/ i \notin Instances /\ UNCHANGED <<tabs, session, stranded>>
  BY DEF HandleUnregister, socketVars
<1>2. s \in Sockets /\ channel' \in Seq(CommandType)
  BY <1>1, HeadFacts
<1> HIDE DEF s
<1>3. session' \in {session, NoSession} /\ (i \in Instances => session' = Cancelled(i))
  BY <1>1 DEF Cancelled
<1>4. \A j \in Instances : tabs'[j] = tabs[j] \/ (tabs'[j] = Nobody /\ tabs[j] = s)
  BY <1>1 DEF SessionsInv, SessionType
<1> USE SessionsAssumption DEF SessionsInv, SessionType, Unknown
<1>5. SessionType'
  <2>1. tabs' \in [Instances -> Sockets \cup {Nobody}]
    BY <1>1
  <2>2. stranded' \in BOOLEAN
    BY <1>1
  <2>. QED
    BY <1>1, <1>2, <1>3, <2>1, <2>2 DEF NoSession
<1>6. TabsNameClients'
  BY <1>1, <1>2, <1>4 DEF TabsNameClients
<1>7. OneConnectionPerInstance'
  BY <1>1, <1>2, <1>4 DEF OneConnectionPerInstance
<1>8. SessionsCanBeCancelled'
  <2>1. CASE i \in Instances
    <3>1. session' = NoSession \/ (session' = session /\ session.owner # i)
      BY <1>3, <2>1 DEF Cancelled
    <3>2. session' # NoSession => (stranded' <=> stranded)
      BY <1>1, <2>1
    <3>. QED
      BY <1>1, <1>2, <2>1, <3>1, <3>2 DEF SessionsCanBeCancelled, NoSession
  <2>2. CASE i \notin Instances
    BY <1>1, <1>2, <2>2 DEF SessionsCanBeCancelled
  <2>. QED
    BY <2>1, <2>2
<1>9. \A r \in Sockets \ {s} : Unheard(r) => Unheard(r)'
  BY <1>2, <1>3, <1>4 DEF Unheard, NoSession
<1>. QED
  BY <1>1, <1>5, <1>6, <1>7, <1>8, <1>9, HubKeeps DEF s

LEMMA IntentStep ==
    ASSUME SessionsInv, HandleSessionIntent
    PROVE  SessionsInv'
<1> DEFINE m == Head(channel)  s == m.sock
           after == CASE m.kind = "begin" -> Begun(session, s)
                      [] m.kind = "end" -> Ended(session, s)
                      [] m.kind = "batch" -> session
           unreachable == clients[s] # Unknown /\ conn[s] = "closed"
<1>1. PICK kind \in {"begin", "end", "batch"} : Takes(kind)
  BY DEF HandleSessionIntent
<1>2. /\ session' = after /\ UNCHANGED <<conn, tabs>>
      /\ clients' = IF unreachable THEN [clients EXCEPT ![s] = Unknown] ELSE clients
      /\ stranded' = (after # NoSession /\ (stranded \/ (unreachable /\ after.by = s)))
  BY DEF HandleSessionIntent, socketVars
<1>3. s \in Sockets /\ channel' \in Seq(CommandType) /\ m.kind = kind
  BY <1>1, HeadFacts
<1> USE SessionsAssumption DEF SessionsInv, SessionType, Unknown
<1>4. \/ session' = session
      \/ session' = NoSession
      \/ session' = [by |-> s, owner |-> InstanceOf(s)]
  BY <1>1, <1>2, <1>3 DEF Begun, Ended
<1>o. InstanceOf(s) \in Instances \cup {Nobody} /\ (InstanceOf(s) # Nobody => clients[s] = InstanceOf(s))
  BY DEF InstanceOf
<1>5. /\ session' # NoSession => (stranded' <=> (stranded \/ (unreachable /\ session'.by = s)))
      /\ clients' = IF unreachable THEN [clients EXCEPT ![s] = Unknown] ELSE clients
  BY <1>2
<1> HIDE DEF m, s, after, unreachable
<1>6. SessionType'
  <2>1. session' \in [by : Sockets \cup {Nobody}, owner : Instances \cup {Nobody}]
    BY <1>3, <1>4, <1>o DEF NoSession
  <2>2. session'.owner # Nobody => session'.by # Nobody
    BY <1>3, <1>4 DEF NoSession
  <2>3. clients' \in [Sockets -> Instances \cup {Nobody, Unknown}]
    BY <1>3, <1>5
  <2>4. stranded' \in BOOLEAN
    BY <1>2 DEF after, unreachable
  <2>. QED
    BY <1>2, <1>3, <2>1, <2>2, <2>3, <2>4
<1>7. TabsNameClients' /\ OneConnectionPerInstance'
  BY <1>2, <1>3, <1>5, ForgetKeeps DEF TabsNameClients, OneConnectionPerInstance
<1>8. SessionsCanBeCancelled'
  <2> SUFFICES ASSUME session'.owner # Nobody, ~stranded'
               PROVE  clients'[session'.by] = session'.owner
    BY DEF SessionsCanBeCancelled
  <2>1. session' # NoSession
    BY DEF NoSession
  <2>3. ~stranded /\ ~(unreachable /\ session'.by = s)
    BY <1>5, <2>1
  <2>2. clients[session'.by] = session'.owner /\ session'.by \in Sockets
    BY <1>3, <1>4, <1>6, <1>o, <2>1, <2>3 DEF SessionsCanBeCancelled
  <2>. QED
    BY <1>3, <1>5, <2>2, <2>3
<1>9. \A r \in Sockets \ {s} : Unheard(r) => Unheard(r)'
  BY <1>2, <1>3, <1>4 DEF Unheard, NoSession
<1>. QED
  BY <1>1, <1>2, <1>6, <1>7, <1>8, <1>9, HubKeeps DEF s, m

\* A connection is bound to an instance, which may displace another.
LEMMA BindStep ==
    ASSUME SessionsInv, HandleBind
    PROVE  SessionsInv'
<1> DEFINE s == Head(channel).sock  i == Head(channel).instance
           unbound == Unbound(s)  previous == unbound[i]
           displaces == previous \notin {Nobody, s}
           known == [clients EXCEPT ![s] = i]
<1>1. Takes("bind") /\ conn' = conn
  BY DEF HandleBind, socketVars
<1>2. s \in Sockets /\ i \in Instances /\ channel' \in Seq(CommandType)
  BY <1>1, HeadFacts
<1>3. CASE clients[s] = Unknown
  <2>1. UNCHANGED <<clients, tabs, session, stranded>>
    BY <1>3 DEF HandleBind, hubVars
  <2>2. SessionType' /\ TabsNameClients' /\ SessionsCanBeCancelled' /\ OneConnectionPerInstance'
    BY <1>1, <1>2, <2>1 DEF SessionsInv, SessionType, TabsNameClients, SessionsCanBeCancelled,
       OneConnectionPerInstance
  <2>3. \A r \in Sockets : Unheard(r) => Unheard(r)'
    BY <2>1 DEF Unheard
  <2>. QED
    BY <1>1, <2>2, <2>3, HubKeeps
<1>4. CASE clients[s] # Unknown
  <2>1. /\ tabs' = [unbound EXCEPT ![i] = s]
        /\ clients' = IF displaces THEN [known EXCEPT ![previous] = Unknown] ELSE known
        /\ session' = IF displaces THEN Cancelled(i) ELSE session
        /\ stranded' = (session' # NoSession
                          /\ (stranded \/ (clients[s] # i /\ session.by = s /\ session.owner # Nobody)))
    BY <1>4 DEF HandleBind, Displaced
  <2>2. /\ unbound \in [Instances -> Sockets \cup {Nobody}]
        /\ \A j \in Instances :
              unbound[j] = IF j = clients[s] /\ tabs[j] = s THEN Nobody ELSE tabs[j]
    BY DEF Unbound, SessionsInv, SessionType
  <2> HIDE DEF s, i, unbound
  <2> USE SessionsAssumption, <1>2 DEF SessionsInv, SessionType, Unknown
  <2>3. previous \in Sockets \cup {Nobody} /\ (displaces => previous \in Sockets /\ tabs[i] = previous)
    BY <2>2
  <2>4. displaces => clients[previous] \in {i, Unknown}
    BY <2>3 DEF TabsNameClients
  <2>5. \A j \in Instances :
          tabs'[j] = IF j = i THEN s ELSE IF j = clients[s] /\ tabs[j] = s THEN Nobody ELSE tabs[j]
    BY <2>1, <2>2
  <2>6. \A r \in Sockets :
          clients'[r] = IF displaces /\ r = previous THEN Unknown ELSE IF r = s THEN i ELSE clients[r]
    BY <2>1, <2>3
  <2>7. session' \in {session, NoSession} /\ (displaces /\ session' # NoSession => session.owner # i)
    BY <2>1 DEF Cancelled
  <2> HIDE DEF previous, displaces, known
  <2>8. SessionType'
    <3>1. tabs' \in [Instances -> Sockets \cup {Nobody}]
      BY <2>1, <2>2
    <3>2. clients' \in [Sockets -> Instances \cup {Nobody, Unknown}]
      BY <2>1, <2>3 DEF known
    <3>3. stranded' \in BOOLEAN
      BY <2>1
    <3>. QED
      BY <1>1, <2>7, <3>1, <3>2, <3>3 DEF NoSession
  <2>9. TabsNameClients'
    <3> SUFFICES ASSUME NEW j \in Instances, tabs'[j] # Nobody
                 PROVE  clients'[tabs'[j]] \in {j, Unknown}
      BY DEF TabsNameClients
    <3>1. CASE j = i
      BY <2>5, <2>6, <3>1 DEF displaces
    <3>2. CASE j # i
      <4>1. tabs'[j] = tabs[j] /\ tabs[j] \in Sockets /\ ~(j = clients[s] /\ tabs[j] = s)
        BY <2>5, <3>2
      <4>2. clients[tabs[j]] \in {j, Unknown}
        BY <4>1 DEF TabsNameClients
      <4>3. tabs[j] # s
        BY <1>4, <4>1, <4>2
      <4>. QED
        BY <2>6, <4>1, <4>2, <4>3
    <3>. QED
      BY <3>1, <3>2
  <2>10. OneConnectionPerInstance'
    <3> SUFFICES ASSUME NEW r \in Sockets, clients'[r] \in Instances PROVE tabs'[clients'[r]] = r
      BY DEF OneConnectionPerInstance
    <3>1. CASE r = s
      BY <2>5, <2>6, <3>1
    <3>2. CASE r # s
      <4>1. clients'[r] = clients[r] /\ tabs[clients[r]] = r /\ ~(displaces /\ r = previous)
        BY <2>6, <3>2 DEF OneConnectionPerInstance
      <4>2. clients[r] # i
        <5>1. clients[r] = i => previous = r
          BY <2>2, <3>2, <4>1 DEF previous
        <5>. QED
          BY <3>2, <4>1, <5>1 DEF displaces
      <4>. QED
        BY <2>5, <3>2, <4>1, <4>2
    <3>. QED
      BY <3>1, <3>2
  <2>11. SessionsCanBeCancelled'
    <3> SUFFICES ASSUME session'.owner # Nobody, ~stranded'
                 PROVE  clients'[session'.by] = session'.owner
      BY DEF SessionsCanBeCancelled
    <3>1. session' # NoSession /\ session' = session
      BY <2>7 DEF NoSession
    <3>2. ~stranded /\ (session.by = s => clients[s] = i)
      BY <2>1, <3>1
    <3>3. clients[session.by] = session.owner /\ session.by \in Sockets /\ session.owner \in Instances
      BY <3>1, <3>2 DEF SessionsCanBeCancelled
    <3>4. displaces => session.by # previous
      BY <2>4, <2>7, <3>1, <3>3
    <3>. QED
      BY <2>6, <3>1, <3>2, <3>3, <3>4
  <2>12. \A r \in Sockets \ {s} : Unheard(r) => Unheard(r)'
    BY <2>5, <2>7 DEF Unheard, NoSession
  <2>. QED
    BY <1>1, <2>8, <2>9, <2>10, <2>11, <2>12, HubKeeps DEF s
<1>. QED
  BY <1>3, <1>4

\* The hub sends a batch and forgets a connection it cannot reach.
LEMMA SendBatchStep ==
    ASSUME SessionsInv, NEW s \in Sockets, SendBatch(s)
    PROVE  SessionsInv'
<1>1. /\ UNCHANGED <<conn, channel, tabs, session>>
      /\ \/ clients' = clients /\ stranded' = stranded
         \/ /\ clients' = [clients EXCEPT ![s] = Unknown]
            /\ stranded' = (stranded \/ (session.by = s /\ session.owner # Nobody))
  BY DEF SendBatch, SendTo, Strands, socketVars
<1>2. stranded' \in BOOLEAN
  BY <1>1 DEF SessionsInv, SessionType
<1> USE SessionsAssumption DEF SessionsInv
<1>3. SessionType'
  BY <1>1, <1>2 DEF SessionType
<1>4. RegisterFirst'
  BY <1>1 DEF RegisterFirst, Unheard
<1>5. TabsNameClients' /\ OneConnectionPerInstance'
  BY <1>1, ForgetKeeps DEF TabsNameClients, OneConnectionPerInstance
<1>6. SessionsCanBeCancelled'
  <2>1. CASE clients' = clients /\ stranded' = stranded
    BY <1>1, <2>1 DEF SessionsCanBeCancelled
  <2>2. CASE /\ clients' = [clients EXCEPT ![s] = Unknown]
             /\ stranded' = (stranded \/ (session.by = s /\ session.owner # Nobody))
    BY <1>1, <2>2 DEF SessionsCanBeCancelled, SessionType
  <2>. QED
    BY <1>1, <2>1, <2>2
<1>. QED
  BY <1>3, <1>4, <1>5, <1>6

\* Another thread ends the session.
LEMMA CancelStep ==
    ASSUME SessionsInv, session' = NoSession, stranded' = FALSE, UNCHANGED <<conn, channel, clients, tabs>>
    PROVE  SessionsInv'
<1> USE SessionsAssumption DEF SessionsInv, NoSession
<1>1. stranded' \in BOOLEAN
  OBVIOUS
<1>2. SessionType'
  BY <1>1 DEF SessionType
<1>3. RegisterFirst'
  <2>1. \A k \in 1..Len(channel) : channel[k].sock \in Sockets
    BY DEF SessionType, CommandType
  <2>2. \A s \in Sockets : Unheard(s) => Unheard(s)'
    BY DEF Unheard
  <2> HIDE DEF NoSession
  <2>. QED
    BY <2>1, <2>2 DEF RegisterFirst, Unheard
<1>4. TabsNameClients' /\ SessionsCanBeCancelled' /\ OneConnectionPerInstance'
  BY DEF TabsNameClients, SessionsCanBeCancelled, OneConnectionPerInstance
<1>. QED
  BY <1>2, <1>3, <1>4

LEMMA HangupStep ==
    ASSUME SessionsInv, NEW s \in Sockets, Hangup(s)
    PROVE  SessionsInv'
<1>1. /\ conn' = [conn EXCEPT ![s] = "closed"]
      /\ UNCHANGED <<channel, clients, tabs, session, stranded>>
  BY DEF Hangup, hubVars
<1> USE <1>1 DEF SessionsInv
<1>2. SessionType'
  BY DEF SessionType
<1>3. RegisterFirst'
  BY DEF RegisterFirst, Unheard, SessionType
<1>4. TabsNameClients' /\ SessionsCanBeCancelled' /\ OneConnectionPerInstance'
  BY DEF TabsNameClients, SessionsCanBeCancelled, OneConnectionPerInstance
<1>. QED
  BY <1>2, <1>3, <1>4

LEMMA SayStep ==
    ASSUME SessionsInv, NEW s \in Sockets, NEW kind \in CommandKinds \ {"register"},
           NEW i \in Instances \cup {Nobody}, kind = "bind" => i \in Instances,
           Say(s, Command(kind, s, i))
    PROVE  SessionsInv'
<1> DEFINE c == Command(kind, s, i)
<1>1. c \in CommandType /\ c.sock = s /\ c.kind # "register"
  BY DEF Command, CommandType
<1>2. /\ channel' = Append(channel, c) /\ conn[s] = "open" /\ conn' = conn
      /\ UNCHANGED <<hubVars, session, stranded>>
  BY DEF Say
<1> HIDE DEF c
<1>3. conn' \in [Sockets -> {"new", "open", "closing", "closed"}] /\ conn'[s] # "new"
  BY <1>2 DEF SessionsInv, SessionType
<1>. QED
  BY <1>1, <1>2, <1>3, SendKeeps

\* A connection opens or closes.
LEMMA ThreadStep ==
    ASSUME SessionsInv, NEW s \in Sockets, Connect(s) \/ Leave(s)
    PROVE  SessionsInv'
<1>1. CASE Connect(s)
  <2> DEFINE c == Command("register", s, Nobody)
  <2>1. c \in CommandType /\ c.sock = s /\ c.kind = "register"
    BY DEF Command, CommandType, CommandKinds
  <2>2. /\ channel' = Append(channel, c) /\ conn[s] = "new" /\ conn' = [conn EXCEPT ![s] = "open"]
        /\ UNCHANGED <<hubVars, session, stranded>>
    BY <1>1 DEF Connect
  <2> HIDE DEF c
  <2>3. /\ conn' \in [Sockets -> {"new", "open", "closing", "closed"}] /\ conn'[s] # "new"
        /\ \A r \in Sockets \ {s} : conn'[r] = conn[r]
    BY <2>2 DEF SessionsInv, SessionType
  <2>. QED
    BY <2>1, <2>2, <2>3, SendKeeps
<1>2. CASE Leave(s)
  <2> DEFINE c == Command("unregister", s, Nobody)
  <2>1. c \in CommandType /\ c.sock = s /\ c.kind # "register"
    BY DEF Command, CommandType, CommandKinds
  <2>2. /\ channel' = Append(channel, c) /\ conn[s] = "open" /\ conn' = [conn EXCEPT ![s] = "closing"]
        /\ UNCHANGED <<hubVars, session, stranded>>
    BY <1>2 DEF Leave
  <2> HIDE DEF c
  <2>3. /\ conn' \in [Sockets -> {"new", "open", "closing", "closed"}] /\ conn'[s] # "new"
        /\ \A r \in Sockets \ {s} : conn'[r] = conn[r]
    BY <2>2 DEF SessionsInv, SessionType
  <2>. QED
    BY <2>1, <2>2, <2>3, SendKeeps
<1>. QED
  BY <1>1, <1>2

LEMMA SessionsInvStep == SessionsInv /\ [SessionsNext]_sessionVars => SessionsInv'
<1> SUFFICES ASSUME SessionsInv, [SessionsNext]_sessionVars PROVE SessionsInv'
  OBVIOUS
<1>1. ASSUME NEW s \in Sockets, Connect(s) \/ Leave(s) PROVE SessionsInv'
  BY <1>1, ThreadStep
<1>2. ASSUME NEW s \in Sockets, Begin(s) \/ End(s) \/ BeginEditEnd(s) PROVE SessionsInv'
  BY <1>2, SayStep DEF Begin, End, BeginEditEnd, CommandKinds
<1>3. ASSUME NEW s \in Sockets, NEW i \in Instances, Hello(s, i) PROVE SessionsInv'
  BY <1>3, SayStep DEF Hello, CommandKinds
<1>4. ASSUME NEW s \in Sockets, Hangup(s) \/ SendBatch(s) PROVE SessionsInv'
  BY <1>4, HangupStep, SendBatchStep
<1>5. CASE HandleRegister \/ HandleBind \/ HandleUnregister \/ HandleSessionIntent
  BY <1>5, RegisterStep, BindStep, UnregisterStep, IntentStep
<1>6. ASSUME NEW i \in Instances, HttpCancel(i) PROVE SessionsInv'
  BY <1>6, CancelStep DEF HttpCancel, socketVars, hubVars
<1>7. CASE ReplaceProject
  BY <1>7, CancelStep DEF ReplaceProject, socketVars, hubVars
<1>8. CASE UNCHANGED sessionVars
  <2>1. UNCHANGED <<conn, channel, clients, tabs, session, stranded>>
    BY <1>8 DEF sessionVars, socketVars, hubVars
  <2>2. SessionType' /\ TabsNameClients' /\ SessionsCanBeCancelled' /\ OneConnectionPerInstance'
    BY <2>1 DEF SessionsInv, SessionType, TabsNameClients, SessionsCanBeCancelled, OneConnectionPerInstance
  <2>3. RegisterFirst'
    BY <2>1 DEF SessionsInv, RegisterFirst, Unheard
  <2>. QED
    BY <2>2, <2>3 DEF SessionsInv
<1>. QED
  BY <1>1, <1>2, <1>3, <1>4, <1>5, <1>6, <1>7, <1>8 DEF SessionsNext

\* Whatever order the hub reads its commands in, and however connections come
\* and go: a registered connection speaks for its instance alone, and the end
\* or the reconnect of an instance cancels the session it opened, unless the
\* hub lost track of it in one of the ways the property names.
THEOREM ConnectionsKeepTheirOwnCorrect == SessionsSpec => []ConnectionsKeepTheirOwn
<1>1. SessionsInv => ConnectionsKeepTheirOwn
  BY DEF SessionsInv, ConnectionsKeepTheirOwn
<1>. QED
  BY <1>1, SessionsInvInit, SessionsInvStep, PTL DEF SessionsSpec

-----------------------------------------------------------------------------
(* ProjectHost.                                                            *)


---------------------------------------------------------------------------
(* Types.                                                                  *)

OptPath == Paths \cup {NoPath}
Preferred == PrefValues \cup {Default}
Prefs == [value : Preferred, has : SUBSET Sections, from : SUBSET Sections]
Engines == [id : Nat \ {0}, prefs : Prefs, content : Nat, base : Nat, origin : OptPath]
Files == {Missing, Blank, Torn} \cup [is : {"whole"}, data : Nat]
PrefsFiles == {Missing, Blank, Torn} \cup [is : {"whole"}, data : [value : Preferred, has : SUBSET Sections]]
Steps == {"prefs", "read", "cut", "lock", "swap", "write", "name", "look", "show"}
Requests == [do : {"new", "load", "upload", "save"}, path : OptPath, recover : BOOLEAN, alone : BOOLEAN,
             step : Steps,
             content : Nat, ready : BOOLEAN, stale : BOOLEAN, prefs : Prefs, engine : Nat, sole : BOOLEAN,
             seen : OptPath]

HostTypeOK ==
    /\ running \in {Down} \cup Engines
    /\ engines \in Nat
    /\ files \in [Paths -> Files]
    /\ prefsFile \in PrefsFiles
    /\ locked \in BOOLEAN
    /\ path \in OptPath
    /\ shown \in [engine : Nat, path : OptPath]
    /\ req \in [Callers -> {Idle} \cup Requests]
    /\ {asks, hostEdits, crashes} \subseteq Nat
    /\ chosen \in Preferred
    /\ {lost, adrift, halfway} \subseteq BOOLEAN
    /\ spoilt \subseteq Paths

---------------------------------------------------------------------------
(* The inductive invariant.                                                *)

Active(r) == req[r] # Idle

\* The steps each kind of request takes, and the file it is about.
Routes ==
    \A r \in Callers : Active(r) =>
        /\ req[r].do # "new" => req[r].path \in Paths
        /\ req[r].step \in {"lock"} => req[r].do = "save"
        /\ req[r].step \in {"cut", "write"} => req[r].do \in {"save", "upload"}
        /\ req[r].step = "read" => req[r].do \in {"load", "upload"}
        /\ req[r].step \in {"prefs", "swap"} => req[r].do # "save"

\* No request and no lock outlives the process.
NothingWhenDown == ~Up => ~locked /\ \A r \in Callers : ~Active(r)

\* A request that is alone met no other.
AloneIsAlone ==
    \A r \in Callers : Active(r) /\ req[r].alone => \A s \in Callers \ {r} : ~Active(s)
AdriftCounts == ~adrift => \A r \in Callers : Active(r) => req[r].alone

\* The request has replaced the engine or written its file and has still to say so.
Telling(r) == Active(r) /\ req[r].step \in {"name", "look", "show"}

\* Clients are shown the live engine, or are going to be.
EngineShown ==
    Up /\ ~halfway =>
        shown.engine = running.id \/ \E r \in Callers : Telling(r) /\ req[r].do # "save"

Target(r) == IF req[r].do = "new" THEN NoPath ELSE req[r].path
Holds(r) == req[r].do # "new" => files[req[r].path] = Whole(req[r].content)

\* A replacement that is alone finds its file as it read it.
LoneReplacement ==
    \A r \in Callers : Active(r) /\ req[r].alone /\ req[r].do # "save" =>
        /\ req[r].step \in {"prefs", "swap"} \/ Telling(r) => Holds(r)
        /\ Telling(r) => running.origin = Target(r) /\ running.base = req[r].content
        /\ req[r].step \in {"look", "show"} => path = Target(r)
        /\ req[r].step = "show" => req[r].seen = path
        /\ req[r].step = "write" => req[r].path \in spoilt

\* A save that is alone saves the live project.
LoneSave ==
    \A r \in Callers : ~adrift /\ Active(r) /\ req[r].do = "save" =>
        /\ req[r].step # "lock" => req[r].engine = running.id
        /\ req[r].step = "write" => files[req[r].path] \in CutOff /\ req[r].path \in spoilt
        /\ Telling(r) => Holds(r)
        /\ req[r].step \in {"look", "show"} =>
              path = req[r].path /\ running.origin = path /\ running.base = req[r].content
        /\ req[r].step = "show" => req[r].seen = path

\* Between requests the path, the clients and the file agree with the live project.
PathTold ==
    Up /\ ~adrift /\ (\A r \in Callers : ~Telling(r)) =>
        /\ path = running.origin
        /\ shown.path = path
        /\ path # NoPath /\ path \notin spoilt => files[path] = Whole(running.base)

HostInv ==
    /\ Routes /\ NothingWhenDown /\ AloneIsAlone /\ AdriftCounts
    /\ EngineShown /\ LoneReplacement /\ LoneSave /\ PathTold

---------------------------------------------------------------------------
(* The preferences.                                                        *)

BegunFirst == Trimmed \cup {"startup", "saveLoad", "folder"}
Kept == {Trimmed, BegunFirst, Sections}
Complete(prefs) == prefs.from \in Kept /\ prefs.has = Completed(prefs.from)

\* What is written, live or about to be live is a whole tree.
PrefsComplete ==
    /\ prefsFile.is = "whole" => prefsFile.data.has \in Kept
    /\ Up => Complete(running.prefs)
    /\ \A r \in Callers : Active(r) => Complete(req[r].prefs)

\* While the process runs the preferences file is cut off only under the lock.
LockedWhileCutOff ==
    /\ Up /\ prefsFile.is # "whole" => locked
    /\ locked => Up /\ prefsFile \in CutOff

\* The preference last set is live, on disk and in every replacement that is about to go live.
ChoiceKept ==
    ~lost =>
        /\ Up => running.prefs.value = chosen
        /\ ~locked => prefsFile \notin CutOff /\ PrefsOf(prefsFile).value = chosen
        /\ \A r \in Callers : Step(r, "swap") /\ ~req[r].stale => req[r].prefs.value = chosen

PrefsInv == PrefsComplete /\ LockedWhileCutOff /\ ChoiceKept
---------------------------------------------------------------------------
(* Records.                                                                *)

LEMMA IdleIsNoRequest == Idle \notin Requests
BY DEF Idle, Requests

LEMMA DownIsNoEngine == Down \notin Engines
BY DEF Down, Engines

LEMMA ActiveTyped ==
    ASSUME HostTypeOK, NEW r \in Callers, Active(r)
    PROVE  req[r] \in Requests
BY DEF HostTypeOK, Active

LEMMA UpTyped ==
    ASSUME HostTypeOK, Up
    PROVE  running \in Engines
BY DEF HostTypeOK, Up

\* What a request is and what it asks for does not change.
Same(n, q) == n.do = q.do /\ n.path = q.path /\ n.recover = q.recover /\ n.alone = q.alone

\* A request that moved on, to a step n.
Moved(r, n) ==
    /\ req[r] \in Requests /\ n \in Requests /\ Same(n, req[r])
    /\ req' \in [Callers -> {Idle} \cup Requests]
    /\ req'[r] = n /\ \A s \in Callers \ {r} : req'[s] = req[s]

HasEnded(r) ==
    /\ req[r] \in Requests
    /\ req' \in [Callers -> {Idle} \cup Requests]
    /\ req'[r] = Idle /\ \A s \in Callers \ {r} : req'[s] = req[s]

LEMMA MovedTo ==
    ASSUME HostTypeOK, NEW r \in Callers, Active(r), NEW n \in Requests, Same(n, req[r]),
           req' = [req EXCEPT ![r] = n]
    PROVE  Moved(r, n)
BY ActiveTyped DEF Moved, HostTypeOK

LEMMA Ends ==
    ASSUME HostTypeOK, NEW r \in Callers, Active(r), Finished(r)
    PROVE  HasEnded(r)
BY ActiveTyped DEF HasEnded, HostTypeOK, Finished

LEMMA GoesOn ==
    ASSUME HostTypeOK, NEW r \in Callers, Active(r), NEW st \in Steps, Goes(r, st)
    PROVE  /\ Moved(r, req'[r])
           /\ req'[r].step = st
           /\ req'[r].content = req[r].content /\ req'[r].ready = req[r].ready
           /\ req'[r].stale = req[r].stale /\ req'[r].prefs = req[r].prefs
           /\ req'[r].engine = req[r].engine /\ req'[r].sole = req[r].sole
              /\ req'[r].seen = req[r].seen
<1> DEFINE n == [req[r] EXCEPT !.step = st]
<1>1. req[r] \in Requests
  BY ActiveTyped
<1>2. n \in Requests /\ Same(n, req[r])
  BY <1>1 DEF Requests, Same
<1>3. req' = [req EXCEPT ![r] = n]
  BY DEF Goes
<1>4. /\ n.step = st /\ n.content = req[r].content /\ n.ready = req[r].ready
      /\ n.stale = req[r].stale /\ n.prefs = req[r].prefs
      /\ n.engine = req[r].engine /\ n.sole = req[r].sole /\ n.seen = req[r].seen
  BY <1>1 DEF Requests
<1> HIDE DEF n
<1>5. Moved(r, n)
  BY <1>2, <1>3, MovedTo
<1>6. req'[r] = n
  BY <1>5 DEF Moved
<1>. QED
  BY <1>4, <1>5, <1>6 DEF n

\* A preferences file gives typed preferences.
LEMMA PrefsTyped ==
    ASSUME NEW stored \in PrefsFiles
    PROVE  PrefsOf(stored) \in Prefs
BY DEF PrefsOf, PrefsFiles, Prefs, Completed, Preferred, Sections, Missing, Blank, Torn

\* What an engine saves is a preferences file.
LEMMA SavedTyped ==
    ASSUME NEW e \in Engines
    PROVE  Saved(e) \in PrefsFiles
BY DEF Saved, Whole, Engines, PrefsFiles, Prefs

---------------------------------------------------------------------------
(* What each step of a request does to its record.                         *)

LEMMA ReadProjectMoves ==
    ASSUME HostTypeOK, Routes, NEW r \in Callers, ReadProject(r)
    PROVE  /\ Active(r) /\ req[r].step = "read"
           /\ \/ HasEnded(r)
              \/ /\ Moved(r, req'[r]) /\ req'[r].step = "prefs"
                 /\ files[req[r].path] = Whole(req'[r].content)
                 /\ req'[r].prefs = req[r].prefs
<1> DEFINE n == [req[r] EXCEPT !.step = "prefs", !.content = files[req[r].path].data]
<1>1. req[r] \in Requests /\ Active(r) /\ req[r].step = "read"
  BY ActiveTyped DEF ReadProject, Step, Active
<1>2. CASE Finished(r)
  BY <1>1, <1>2, Ends
<1>3. CASE files[req[r].path].is = "whole" /\ req' = [req EXCEPT ![r] = n]
  <2>1. req[r].path \in Paths
    BY <1>1 DEF Routes
  <2>2. files[req[r].path] \in [is : {"whole"}, data : Nat]
    BY <1>3, <2>1 DEF HostTypeOK, Files, Missing, Blank, Torn
  <2>3. files[req[r].path].data \in Nat /\ files[req[r].path] = Whole(files[req[r].path].data)
    BY <2>2 DEF Whole
  <2>4. n \in Requests /\ Same(n, req[r])
    BY <1>1, <2>3 DEF Requests, Same, Steps
  <2>5. n.step = "prefs" /\ n.content = files[req[r].path].data /\ n.prefs = req[r].prefs
    BY <1>1 DEF Requests
  <2> HIDE DEF n
  <2>6. Moved(r, n)
    BY <1>1, <1>3, <2>4, MovedTo
  <2>7. req'[r] = n
    BY <2>6 DEF Moved
  <2>. QED
    BY <1>1, <2>3, <2>5, <2>6, <2>7
<1>. QED
  BY <1>2, <1>3 DEF ReadProject

LEMMA ReadPrefsMoves ==
    ASSUME HostTypeOK, NEW r \in Callers, ReadPrefs(r)
    PROVE  /\ Active(r) /\ req[r].step = "prefs"
           /\ \/ HasEnded(r)
              \/ /\ Moved(r, req'[r]) /\ req'[r].step = "swap"
                 /\ req'[r].content = req[r].content
                 /\ prefsFile # Torn /\ req'[r].prefs = PrefsOf(prefsFile)
                 /\ req'[r].stale = (prefsFile \in CutOff)
<1> DEFINE ready == req[r].do = "new" /\ prefsFile.is = "whole"
           n == [req[r] EXCEPT !.step = "swap", !.prefs = PrefsOf(prefsFile), !.stale = (prefsFile \in CutOff),
                               !.ready = ready]
<1>1. req[r] \in Requests /\ Active(r) /\ req[r].step = "prefs"
  BY ActiveTyped DEF ReadPrefs, Step, Active
<1>2. CASE Finished(r)
  BY <1>1, <1>2, Ends
<1>3. CASE prefsFile # Torn /\ req' = [req EXCEPT ![r] = n]
  <2>1. PrefsOf(prefsFile) \in Prefs /\ ready \in BOOLEAN /\ (prefsFile \in CutOff) \in BOOLEAN
    BY PrefsTyped DEF HostTypeOK
  <2> HIDE DEF ready
  <2>4. n \in Requests /\ Same(n, req[r])
    BY <1>1, <2>1 DEF Requests, Same, Steps
  <2>5. n.step = "swap" /\ n.content = req[r].content /\ n.prefs = PrefsOf(prefsFile)
        /\ n.stale = (prefsFile \in CutOff)
    BY <1>1 DEF Requests
  <2> HIDE DEF n
  <2>6. Moved(r, n)
    BY <1>1, <1>3, <2>4, MovedTo
  <2>7. req'[r] = n
    BY <2>6 DEF Moved
  <2>. QED
    BY <1>1, <1>3, <2>5, <2>6, <2>7
<1>. QED
  BY <1>2, <1>3 DEF ReadPrefs

LEMMA ReplacementTyped ==
    ASSUME HostTypeOK, NEW r \in Callers, Active(r)
    PROVE  /\ Replacement(r) \in Engines
           /\ Replacement(r).id = engines + 1 /\ Replacement(r).prefs = req[r].prefs
           /\ Replacement(r).base = req[r].content
           /\ Replacement(r).origin = Target(r)
BY ActiveTyped DEF Replacement, Target, HostTypeOK, Engines, Requests, OptPath

LEMMA SwapMoves ==
    ASSUME HostTypeOK, NEW r \in Callers, Swap(r)
    PROVE  /\ Active(r) /\ req[r].step = "swap"
           /\ \/ HasEnded(r)
              \/ /\ Moved(r, req'[r]) /\ req'[r].step = "name"
                 /\ req'[r].content = req[r].content /\ req'[r].prefs = req[r].prefs
<1> DEFINE n == [req[r] EXCEPT !.step = "name", !.ready = FALSE]
<1>1. req[r] \in Requests /\ Active(r) /\ req[r].step = "swap"
  BY ActiveTyped DEF Swap, Step, Active
<1>2. CASE Finished(r)
  BY <1>1, <1>2, Ends
<1>3. CASE req' = [req EXCEPT ![r] = n]
  <2>4. n \in Requests /\ Same(n, req[r])
    BY <1>1 DEF Requests, Same, Steps
  <2>5. n.step = "name" /\ n.content = req[r].content /\ n.prefs = req[r].prefs
    BY <1>1 DEF Requests
  <2> HIDE DEF n
  <2>6. Moved(r, n)
    BY <1>1, <1>3, <2>4, MovedTo
  <2>7. req'[r] = n
    BY <2>6 DEF Moved
  <2>. QED
    BY <1>1, <1>3, <2>5, <2>6, <2>7
<1>. QED
  BY <1>2, <1>3 DEF Swap

LEMMA SerializeMoves ==
    ASSUME HostTypeOK, Routes, NothingWhenDown, NEW r \in Callers, Serialize(r)
    PROVE  /\ Active(r) /\ req[r].step = "lock" /\ Up
           /\ Moved(r, req'[r]) /\ req'[r].step = "cut"
           /\ req'[r].engine = running.id /\ req'[r].prefs = req[r].prefs
<1> DEFINE n == [req[r] EXCEPT !.step = "cut", !.content = running.content, !.engine = running.id]
<1>1. req[r] \in Requests /\ Active(r) /\ req[r].step = "lock"
  BY ActiveTyped DEF Serialize, Step, Active
<1>2. Up
  BY <1>1 DEF NothingWhenDown
<1>3. running.content \in Nat /\ running.id \in Nat
  BY <1>2, UpTyped DEF Engines
<1>4. n \in Requests /\ Same(n, req[r])
  BY <1>1, <1>3 DEF Requests, Same, Steps
<1>5. n.step = "cut" /\ n.engine = running.id /\ n.prefs = req[r].prefs
  BY <1>1 DEF Requests
<1>6. req' = [req EXCEPT ![r] = n]
  BY DEF Serialize
<1> HIDE DEF n
<1>7. Moved(r, n)
  BY <1>1, <1>4, <1>6, MovedTo
<1>8. req'[r] = n
  BY <1>7 DEF Moved
<1>. QED
  BY <1>1, <1>2, <1>5, <1>7, <1>8

LEMMA LookMoves ==
    ASSUME HostTypeOK, NEW r \in Callers, Look(r)
    PROVE  /\ Active(r) /\ req[r].step = "look"
           /\ Moved(r, req'[r]) /\ req'[r].step = "show"
           /\ req'[r].content = req[r].content /\ req'[r].engine = req[r].engine
           /\ req'[r].seen = path /\ req'[r].prefs = req[r].prefs
<1> DEFINE n == [req[r] EXCEPT !.seen = path, !.step = "show"]
<1>1. req[r] \in Requests /\ Active(r) /\ req[r].step = "look"
  BY ActiveTyped DEF Look, Step, Active
<1>3. path \in OptPath
  BY DEF HostTypeOK
<1>4. n \in Requests /\ Same(n, req[r])
  BY <1>1, <1>3 DEF Requests, Same, Steps
<1>5. n.step = "show" /\ n.content = req[r].content /\ n.engine = req[r].engine /\ n.seen = path
      /\ n.prefs = req[r].prefs
  BY <1>1 DEF Requests
<1>6. req' = [req EXCEPT ![r] = n]
  BY DEF Look
<1> HIDE DEF n
<1>7. Moved(r, n)
  BY <1>1, <1>4, <1>6, MovedTo
<1>8. req'[r] = n
  BY <1>7 DEF Moved
<1>. QED
  BY <1>1, <1>5, <1>7, <1>8

\* What others do to a request is of no account here: it stays at its step.
Unmoved(s) ==
    /\ Active(s) <=> req'[s] # Idle
    /\ Active(s) => /\ req[s] \in Requests /\ req'[s] \in Requests
                    /\ Same(req'[s], req[s]) /\ req'[s].step = req[s].step
                    /\ req'[s].content = req[s].content /\ req'[s].engine = req[s].engine
                    /\ req'[s].seen = req[s].seen /\ req'[s].prefs = req[s].prefs

LEMMA TruncateMoves ==
    ASSUME HostTypeOK, NEW r \in Callers, Truncate(r)
    PROVE  /\ Active(r) /\ req[r].step = "cut" /\ req[r] \in Requests
           /\ req' \in [Callers -> {Idle} \cup Requests] /\ req'[r] \in Requests
           /\ Same(req'[r], req[r]) /\ req'[r].step = "write"
           /\ req'[r].content = req[r].content /\ req'[r].engine = req[r].engine
           /\ req'[r].prefs = req[r].prefs
           /\ \A s \in Callers \ {r} : Unmoved(s) /\ (Active(s) => req'[s].stale = req[s].stale)
<1> DEFINE sole == Writers(req[r].path) = {}
           n == [req[r] EXCEPT !.step = "write", !.sole = sole]
           o(s) == [req[s] EXCEPT !.sole = FALSE]
<1>1. req[r] \in Requests /\ Active(r) /\ req[r].step = "cut"
  BY ActiveTyped DEF Truncate, Step, Active
<1>2. sole \in BOOLEAN
  OBVIOUS
<1>3. \A s \in Callers : Active(s) => req[s] \in Requests
  BY ActiveTyped
<1>4. \A s \in Writers(req[r].path) : s \in Callers /\ Active(s)
  BY DEF Writers, Active
<1> HIDE DEF sole
<1>5. n \in Requests /\ Same(n, req[r])
  BY <1>1, <1>2 DEF Requests, Same, Steps
<1>6. n.step = "write" /\ n.content = req[r].content /\ n.engine = req[r].engine /\ n.prefs = req[r].prefs
  BY <1>1 DEF Requests
<1>7. ASSUME NEW s \in Callers, Active(s)
      PROVE  /\ o(s) \in Requests /\ Same(o(s), req[s]) /\ o(s).step = req[s].step
             /\ o(s).content = req[s].content /\ o(s).engine = req[s].engine
             /\ o(s).seen = req[s].seen /\ o(s).prefs = req[s].prefs /\ o(s).stale = req[s].stale
  BY <1>3, <1>7 DEF Requests, Same
<1>8. req' = [s \in Callers |-> CASE s = r -> n [] s \in Writers(req[r].path) -> o(s) [] OTHER -> req[s]]
  BY DEF Truncate, sole
<1> HIDE DEF n, o
<1>9. req'[r] = n /\ \A s \in Callers \ {r} : req'[s] = req[s] \/ (s \in Writers(req[r].path) /\ req'[s] = o(s))
  <2>1. req'[r] = n
    <3>1. r \notin Writers(req[r].path)
      BY <1>1 DEF Writers
    <3>. QED
      BY <1>8, <3>1
  <2>2. ASSUME NEW s \in Callers \ {r}, s \in Writers(req[r].path) PROVE req'[s] = o(s)
    BY <1>8, <2>2
  <2>3. ASSUME NEW s \in Callers \ {r}, s \notin Writers(req[r].path) PROVE req'[s] = req[s]
    BY <1>8, <2>3
  <2>. QED
    BY <2>1, <2>2, <2>3
<1>10. ASSUME NEW s \in Callers \ {r} PROVE Unmoved(s) /\ (Active(s) => req'[s].stale = req[s].stale)
  <2>1. CASE req'[s] = req[s]
    BY <2>1, <1>3 DEF Unmoved, Same, Active
  <2>2. CASE s \in Writers(req[r].path) /\ req'[s] = o(s)
    BY <2>2, <1>3, <1>4, <1>7, IdleIsNoRequest DEF Unmoved
  <2>. QED
    BY <1>9, <2>1, <2>2
<1>11. \A s \in Callers : req'[s] \in {Idle} \cup Requests
  BY <1>5, <1>9, <1>10 DEF Unmoved
<1>12. req' = [s \in Callers |-> req'[s]]
  BY <1>8
<1>. QED
  BY <1>1, <1>5, <1>6, <1>9, <1>10, <1>11, <1>12

RequestKinds == {"new", "load", "upload", "save"}
FirstStep(do) == CASE do = "new" -> "prefs" [] do = "load" -> "read" [] do = "upload" -> "cut" [] do = "save" -> "lock"

LEMMA AskForMoves ==
    ASSUME HostTypeOK, NEW r \in Callers, NEW do \in RequestKinds, NEW p \in OptPath, NEW recover \in BOOLEAN,
           AskFor(r, do, p, recover)
    PROVE  /\ ~Active(r) /\ req' \in [Callers -> {Idle} \cup Requests] /\ req'[r] \in Requests
           /\ req'[r].do = do /\ req'[r].path = p /\ req'[r].step = FirstStep(do)
           /\ req'[r].alone <=> \A s \in Callers \ {r} : ~Active(s)
           /\ Complete(req'[r].prefs)
           /\ \A s \in Callers \ {r} :
                 /\ Active(s) <=> req'[s] # Idle
                 /\ Active(s) => /\ req[s] \in Requests /\ req'[s] \in Requests
                                 /\ ~req'[s].alone
                                 /\ req'[s].do = req[s].do /\ req'[s].path = req[s].path
                                 /\ req'[s].step = req[s].step /\ req'[s].prefs = req[s].prefs
                                 /\ req'[s].stale = req[s].stale
<1> DEFINE alone == Others(r) = {}
           st == CASE do = "new" -> "prefs" [] do = "load" -> "read" [] do = "upload" -> "cut" [] do = "save" -> "lock"
           content == IF do = "upload" THEN Uploaded ELSE 0
           n == [do |-> do, path |-> p, recover |-> recover, alone |-> alone,
                 step |-> st, content |-> content, ready |-> FALSE, stale |-> FALSE,
                 prefs |-> PrefsOf(Missing), engine |-> 0, sole |-> FALSE, seen |-> NoPath]
           o(s) == [req[s] EXCEPT !.alone = FALSE]
<1>1. alone <=> \A s \in Callers \ {r} : ~Active(s)
  BY DEF Others, Active
<1>2. PrefsOf(Missing) \in Prefs
  BY PrefsTyped DEF PrefsFiles
<1>3. Complete(PrefsOf(Missing))
  BY DEF PrefsOf, Missing, Complete, Kept, Completed, Sections
<1>4. \A s \in Callers : Active(s) => req[s] \in Requests
  BY ActiveTyped
<1>5. Uploaded \in Nat
  BY HostAssumption DEF Uploaded
<1>6. req' = [s \in Callers |-> IF s = r THEN n ELSE IF req[s] = Idle THEN Idle ELSE o(s)]
  BY DEF AskFor
<1>7. alone \in BOOLEAN
  OBVIOUS
<1>0. st = FirstStep(do) /\ st \in Steps
  BY DEF FirstStep, RequestKinds, Steps
<1>c. content \in Nat
  BY <1>5
<1> HIDE DEF alone, st, content
<1>8. n \in Requests
  BY <1>0, <1>2, <1>c, <1>7 DEF Requests, OptPath, RequestKinds
<1>9. n.do = do /\ n.path = p /\ n.step = FirstStep(do) /\ n.alone = alone /\ n.prefs = PrefsOf(Missing)
  BY <1>0
<1>10. ASSUME NEW s \in Callers, Active(s)
       PROVE  /\ o(s) \in Requests /\ ~o(s).alone /\ o(s).do = req[s].do /\ o(s).path = req[s].path
              /\ o(s).step = req[s].step /\ o(s).prefs = req[s].prefs /\ o(s).stale = req[s].stale
  BY <1>4, <1>10 DEF Requests
<1> HIDE DEF n, o
<1>11. req'[r] = n /\ \A s \in Callers \ {r} : req'[s] = IF Active(s) THEN o(s) ELSE Idle
  BY <1>6 DEF Active
<1>12. \A s \in Callers : req'[s] \in {Idle} \cup Requests
  BY <1>8, <1>10, <1>11
<1>13. req' = [s \in Callers |-> req'[s]] /\ ~Active(r)
  BY <1>6 DEF AskFor, Active
<1>. QED
  BY <1>1, <1>3, <1>4, <1>8, <1>9, <1>10, <1>11, <1>12, <1>13, IdleIsNoRequest

LEMMA EditPreferencesMoves ==
    ASSUME HostTypeOK, NEW v \in PrefValues, EditPreferences(v)
    PROVE  /\ req' \in [Callers -> {Idle} \cup Requests]
           /\ \A s \in Callers : Unmoved(s) /\ (req'[s] # Idle
              /\ req'[s].step = "swap" => req'[s].stale)
           /\ Up /\ running \in Engines /\ running' \in Engines
           /\ running'.id = running.id /\ running'.base = running.base
              /\ running'.origin = running.origin
           /\ running'.prefs.value = v /\ running'.prefs.has = running.prefs.has
           /\ running'.prefs.from = running.prefs.from
<1> DEFINE o(s) == [req[s] EXCEPT !.stale = TRUE]
           e == [running EXCEPT !.prefs.value = v]
<1>1. \A s \in Callers : Active(s) => req[s] \in Requests
  BY ActiveTyped
<1>2. req' = [s \in Callers |-> IF Active(s) /\ req[s].step = "swap" THEN o(s) ELSE req[s]]
  BY DEF EditPreferences, Step, Active
<1>3. ASSUME NEW s \in Callers, Active(s)
      PROVE  /\ o(s) \in Requests /\ Same(o(s), req[s]) /\ o(s).step = req[s].step /\ o(s).stale
             /\ o(s).content = req[s].content /\ o(s).engine = req[s].engine
             /\ o(s).seen = req[s].seen /\ o(s).prefs = req[s].prefs
  BY <1>1, <1>3 DEF Requests, Same
<1>4. Up /\ running \in Engines /\ running' = e
  BY UpTyped DEF EditPreferences
<1>5. /\ e \in Engines /\ e.id = running.id /\ e.base = running.base /\ e.origin = running.origin
      /\ e.prefs.value = v /\ e.prefs.has = running.prefs.has /\ e.prefs.from = running.prefs.from
  BY <1>4 DEF Engines, Prefs, Preferred
<1> HIDE DEF o, e
<1>6. ASSUME NEW s \in Callers
      PROVE  Unmoved(s) /\ (req'[s] # Idle /\ req'[s].step = "swap" => req'[s].stale)
  <2>1. CASE Active(s) /\ req[s].step = "swap"
    BY <2>1, <1>1, <1>2, <1>3, IdleIsNoRequest DEF Unmoved
  <2>2. CASE ~(Active(s) /\ req[s].step = "swap")
    <3>1. req'[s] = req[s]
      BY <2>2, <1>2
    <3>. QED
      BY <2>2, <3>1, <1>1 DEF Unmoved, Same, Active
  <2>. QED
    BY <2>1, <2>2
<1>7. \A s \in Callers : req'[s] \in {Idle} \cup Requests
  BY <1>6 DEF Unmoved
<1>. QED
  BY <1>2, <1>4, <1>5, <1>6, <1>7

LEMMA EditProjectMoves ==
    ASSUME HostTypeOK, EditProject
    PROVE  /\ Up /\ running \in Engines /\ running' \in Engines
           /\ running'.id = running.id /\ running'.base = running.base
              /\ running'.origin = running.origin
           /\ running'.prefs = running.prefs
<1> DEFINE e == [running EXCEPT !.content = hostEdits + 1]
<1>1. Up /\ running \in Engines /\ running' = e /\ hostEdits + 1 \in Nat
  BY UpTyped DEF EditProject, HostTypeOK
<1>2. e \in Engines /\ e.id = running.id /\ e.base = running.base /\ e.origin = running.origin
      /\ e.prefs = running.prefs
  BY <1>1 DEF Engines
<1>. QED
  BY <1>1, <1>2

LEMMA NameMoves ==
    ASSUME HostTypeOK, Routes, NothingWhenDown, NEW r \in Callers, Name(r)
    PROVE  /\ Active(r) /\ req[r].step = "name" /\ Up /\ running \in Engines /\ running' \in Engines
           /\ running'.id = running.id /\ running'.prefs = running.prefs
           /\ req[r].do = "save" /\ req[r].engine = running.id =>
                 running'.origin = req[r].path /\ running'.base = req[r].content
           /\ req[r].do # "save" => running' = running
<1> DEFINE e == [running EXCEPT !.origin = req[r].path, !.base = req[r].content]
<1>1. req[r] \in Requests /\ Active(r) /\ req[r].step = "name"
  BY ActiveTyped DEF Name, Step, Active
<1>2. Up /\ running \in Engines
  BY <1>1, UpTyped DEF NothingWhenDown
<1>3. req[r].path \in OptPath /\ req[r].content \in Nat
  BY <1>1 DEF Requests
<1>4. /\ e \in Engines /\ e.id = running.id /\ e.prefs = running.prefs
      /\ e.origin = req[r].path /\ e.base = req[r].content
  BY <1>2, <1>3 DEF Engines
<1> HIDE DEF e
<1>5. running' = IF req[r].do = "save" /\ req[r].engine = running.id THEN e ELSE running
  BY DEF Name, e
<1>. QED
  BY <1>1, <1>2, <1>4, <1>5

---------------------------------------------------------------------------
(* Types are kept.                                                         *)

LEMMA HostTypeInit == HostInit => HostTypeOK
<1> SUFFICES ASSUME HostInit PROVE HostTypeOK
  OBVIOUS
<1>1. prefsFile \in PrefsFiles
  BY DEF HostInit, PrefsFiles, Whole, Preferred, Trimmed, Sections
<1>2. files \in [Paths -> Files]
  BY DEF HostInit, Files
<1>3. shown \in [engine : Nat, path : OptPath] /\ path \in OptPath /\ chosen \in Preferred
  BY DEF HostInit, OptPath, Preferred
<1>. QED
  BY <1>1, <1>2, <1>3 DEF HostInit, HostTypeOK

LEMMA HostTypeStep ==
    ASSUME HostTypeOK, Routes, NothingWhenDown, [HostNext]_hostVars
    PROVE  HostTypeOK'
<1> DEFINE ReqOK == req' \in [Callers -> {Idle} \cup Requests]
<1>0. \A r \in Callers : (HasEnded(r) => ReqOK) /\ (Moved(r, req'[r]) => ReqOK)
  BY DEF HasEnded, Moved
<1>1. CASE Start
  <2>1. PrefsOf(prefsFile) \in Prefs
    BY PrefsTyped DEF HostTypeOK
  <2> DEFINE e == [id |-> engines + 1, prefs |-> PrefsOf(prefsFile), content |-> 0, base |-> 0, origin |-> NoPath]
  <2>2. e \in Engines
    BY <2>1 DEF Engines, HostTypeOK, OptPath
  <2>3. Saved(e) \in PrefsFiles
    BY <2>2, SavedTyped
  <2>4. running' = e /\ prefsFile' = Saved(e) /\ engines' = e.id /\ shown' = [engine |-> e.id, path |-> NoPath]
    BY <1>1 DEF Start
  <2>5. e.id = engines + 1
    OBVIOUS
  <2> HIDE DEF e
  <2>6. engines' \in Nat /\ path' \in OptPath /\ shown' \in [engine : Nat, path : OptPath]
    BY <1>1, <2>4, <2>5 DEF Start, HostTypeOK, OptPath
  <2>. QED
    BY <1>1, <2>2, <2>3, <2>4, <2>6 DEF Start, HostTypeOK
<1>2. CASE Crash
  <2>1. ReqOK /\ {asks', hostEdits', crashes'} \subseteq Nat
    BY <1>2 DEF Crash, HostTypeOK
  <2>2. {lost', adrift', halfway'} \subseteq BOOLEAN
    BY <1>2 DEF Crash, HostTypeOK
  <2>. QED
    BY <1>2, <2>1, <2>2 DEF Crash, HostTypeOK
<1>3. CASE EditProject
  <2>1. prefsFile' \in PrefsFiles
    BY <1>3 DEF EditProject, CutOff, PrefsFiles
  <2>. QED
    BY <1>3, <2>1, EditProjectMoves DEF EditProject, HostTypeOK
<1>4. CASE SavePreferences
  <2>1. Up
    BY <1>4 DEF SavePreferences, NothingWhenDown
  <2>2. Saved(running) \in PrefsFiles
    BY <2>1, UpTyped, SavedTyped
  <2>. QED
    BY <1>4, <2>2 DEF SavePreferences, HostTypeOK
<1>5. ASSUME NEW v \in PrefValues, EditPreferences(v) PROVE HostTypeOK'
  <2>1. prefsFile' \in PrefsFiles
    BY <1>5 DEF EditPreferences, CutOff, PrefsFiles
  <2>2. ReqOK /\ running' \in Engines
    BY <1>5, EditPreferencesMoves
  <2>3. chosen' \in Preferred
    BY <1>5 DEF EditPreferences, Preferred
  <2>4. {asks', hostEdits', crashes'} \subseteq Nat
    BY <1>5 DEF EditPreferences, HostTypeOK
  <2>5. {lost', adrift', halfway'} \subseteq BOOLEAN
    BY <1>5 DEF EditPreferences, HostTypeOK
  <2>. QED
    BY <1>5, <2>1, <2>2, <2>3, <2>4, <2>5 DEF EditPreferences, HostTypeOK
<1>6. ASSUME NEW r \in Callers, NEW do \in RequestKinds, NEW p \in OptPath, NEW recover \in BOOLEAN,
             AskFor(r, do, p, recover)
      PROVE  HostTypeOK'
  <2>1. ReqOK
    BY <1>6, AskForMoves
  <2>2. {asks', hostEdits', crashes'} \subseteq Nat
    BY <1>6 DEF AskFor, HostTypeOK
  <2>3. {lost', adrift', halfway'} \subseteq BOOLEAN
    BY <1>6 DEF AskFor, HostTypeOK
  <2>. QED
    BY <1>6, <2>1, <2>2, <2>3 DEF AskFor, HostTypeOK
<1>7. ASSUME NEW r \in Callers, ReadProject(r) PROVE HostTypeOK'
  <2>1. ReqOK
    BY <1>7, <1>0, ReadProjectMoves
  <2>. QED
    BY <1>7, <2>1 DEF ReadProject, HostTypeOK
<1>8. ASSUME NEW r \in Callers, ReadPrefs(r) PROVE HostTypeOK'
  <2>1. ReqOK
    BY <1>8, <1>0, ReadPrefsMoves
  <2>. QED
    BY <1>8, <2>1 DEF ReadPrefs, HostTypeOK
<1>9. ASSUME NEW r \in Callers, Swap(r) PROVE HostTypeOK'
  <2>1. ReqOK /\ Active(r) /\ req[r] \in Requests
    BY <1>9, <1>0, SwapMoves, ActiveTyped
  <2>2. running' \in Engines /\ engines' \in Nat
    BY <1>9, <2>1, ReplacementTyped DEF Swap, HostTypeOK
  <2>3. {lost', adrift', halfway'} \subseteq BOOLEAN
    BY <1>9, <2>1 DEF Swap, HostTypeOK, Requests
  <2>. QED
    BY <1>9, <2>1, <2>2, <2>3 DEF Swap, HostTypeOK
<1>10. ASSUME NEW r \in Callers, Serialize(r) PROVE HostTypeOK'
  <2>1. ReqOK
    BY <1>10, <1>0, SerializeMoves
  <2>. QED
    BY <1>10, <2>1 DEF Serialize, HostTypeOK
<1>11. ASSUME NEW r \in Callers, Truncate(r) PROVE HostTypeOK'
  <2>1. ReqOK /\ Active(r) /\ req[r].step = "cut"
    BY <1>11, TruncateMoves
  <2>2. req[r].path \in Paths
    BY <2>1 DEF Routes
  <2>3. files' \in [Paths -> Files] /\ spoilt' \subseteq Paths
    BY <1>11, <2>2 DEF Truncate, HostTypeOK, Files, CutOff
  <2>. QED
    BY <1>11, <2>1, <2>3 DEF Truncate, HostTypeOK
<1>12. ASSUME NEW r \in Callers, Write(r) PROVE HostTypeOK'
  <2>1. Active(r) /\ req[r].step = "write" /\ req[r] \in Requests
    BY <1>12, ActiveTyped DEF Write, Step, Active
  <2>2. req[r].path \in Paths /\ req[r].content \in Nat
    BY <2>1 DEF Routes, Requests
  <2>3. Whole(req[r].content) \in Files /\ Torn \in Files
    BY <2>2 DEF Files, Whole
  <2>4. files' \in [Paths -> Files] /\ spoilt' \subseteq Paths
    BY <1>12, <2>2, <2>3 DEF Write, HostTypeOK
  <2>5. ReqOK
    <3>1. \E st \in Steps : Goes(r, st)
      BY <1>12 DEF Write, Steps
    <3>. QED
      BY <2>1, <3>1, GoesOn DEF Moved
  <2>. QED
    BY <1>12, <2>4, <2>5 DEF Write, HostTypeOK
<1>13. ASSUME NEW r \in Callers, Name(r) PROVE HostTypeOK'
  <2>1. Active(r) /\ req[r].step = "name" /\ running' \in Engines
    BY <1>13, NameMoves
  <2>2. ReqOK
    <3>1. Goes(r, "look") /\ "look" \in Steps
      BY <1>13 DEF Name, Steps
    <3>. QED
      BY <2>1, <3>1, GoesOn DEF Moved
  <2>3. req[r].path \in OptPath
    BY <2>1, ActiveTyped DEF Requests
  <2>4. path' \in OptPath /\ spoilt' \subseteq Paths
    BY <1>13, <2>3 DEF Name, HostTypeOK, OptPath
  <2>. QED
    BY <1>13, <2>1, <2>2, <2>4 DEF Name, HostTypeOK
<1>14. ASSUME NEW r \in Callers, Look(r) PROVE HostTypeOK'
  <2>1. ReqOK
    BY <1>14, <1>0, LookMoves
  <2>. QED
    BY <1>14, <2>1 DEF Look, HostTypeOK
<1>15. ASSUME NEW r \in Callers, Display(r) PROVE HostTypeOK'
  <2>1. Active(r)
    BY <1>15 DEF Display, Step, Active
  <2>2. Up /\ running.id \in Nat /\ req[r].seen \in OptPath
    BY <2>1, UpTyped, ActiveTyped DEF NothingWhenDown, Engines, Requests
  <2>3. ReqOK
    BY <1>15, <1>0, <2>1, Ends DEF Display
  <2>4. shown' \in [engine : Nat, path : OptPath]
    BY <1>15, <2>2 DEF Display, Displayed, HostTypeOK
  <2>5. {lost', adrift', halfway'} \subseteq BOOLEAN
    BY <1>15 DEF Display, HostTypeOK
  <2>. QED
    BY <1>15, <2>3, <2>4, <2>5 DEF Display, HostTypeOK
<1>16. CASE UNCHANGED hostVars
  BY <1>16 DEF hostVars, HostTypeOK
<1>. QED
  BY <1>1, <1>2, <1>3, <1>4, <1>5, <1>6, <1>7, <1>8, <1>9, <1>10, <1>11, <1>12, <1>13, <1>14,
     <1>15, <1>16
     DEF HostNext, OptPath, RequestKinds

---------------------------------------------------------------------------
(* What each step does to what the clients are told.                       *)

LEMMA StartKeeps ==
    ASSUME HostTypeOK, HostTypeOK', HostInv, Start
    PROVE  HostInv'
<1>m. /\ ~Up /\ Up' /\ running'.origin = NoPath /\ path' = NoPath
      /\ shown'.path = NoPath /\ shown'.engine = running'.id
      /\ \A s \in Callers : req'[s] = Idle
  <2> DEFINE e == [id |-> engines + 1, prefs |-> PrefsOf(prefsFile), content |-> 0, base |-> 0, origin |-> NoPath]
  <2>1. running' = e /\ shown' = [engine |-> e.id, path |-> NoPath] /\ path' = NoPath /\ ~Up
        /\ \A s \in Callers : req'[s] = Idle
    BY DEF Start, HostInv, NothingWhenDown, Active
  <2>2. e.id = engines + 1 /\ e.origin = NoPath
    OBVIOUS
  <2>3. e # Down
    <3>1. PrefsOf(prefsFile) \in Prefs
      BY PrefsTyped DEF HostTypeOK
    <3>2. e \in Engines
      BY <3>1 DEF Engines, HostTypeOK, OptPath
    <3>. QED
      BY <3>2, DownIsNoEngine
  <2> HIDE DEF e
  <2>. QED
    BY <2>1, <2>2, <2>3 DEF Up
<1>u. UNCHANGED <<files, locked, spoilt>>
  BY DEF Start
<1>h. HostInv
  OBVIOUS
<1>1. Routes'
  BY <1>m, <1>u, <1>h DEF HostInv, Routes, Active
<1>2. NothingWhenDown'
  BY <1>m, <1>u, <1>h DEF HostInv, NothingWhenDown, Active, Up
<1>3. AloneIsAlone'
  BY <1>m, <1>u, <1>h DEF HostInv, AloneIsAlone, Active
<1>4. AdriftCounts'
  BY <1>m, <1>u, <1>h DEF HostInv, AdriftCounts, Active, AloneIsAlone
<1>5. EngineShown'
  BY <1>m, <1>u, <1>h DEF HostInv, EngineShown, Active, Telling, Up
<1>6. LoneReplacement'
  BY <1>m, <1>u, <1>h DEF HostInv, LoneReplacement, Routes, AloneIsAlone, Active, Telling,
     Target, Holds
<1>7. LoneSave'
  BY <1>m, <1>u, <1>h DEF HostInv, LoneSave, Routes, AloneIsAlone, AdriftCounts, LoneReplacement,
     Active, Telling, Holds
<1>8. PathTold'
  BY <1>m, <1>u, <1>h DEF HostInv, PathTold, AloneIsAlone, AdriftCounts, LoneReplacement,
     LoneSave, Active, Telling, Target, Holds, Up
<1>. QED
  BY <1>1, <1>2, <1>3, <1>4, <1>5, <1>6, <1>7, <1>8 DEF HostInv

LEMMA CrashKeeps ==
    ASSUME HostTypeOK, HostTypeOK', HostInv, Crash
    PROVE  HostInv'
<1>m. /\ ~Up' /\ ~locked'
      /\ \A s \in Callers : req'[s] = Idle
  BY DEF Crash, Up
<1>u. UNCHANGED <<engines, files, prefsFile, path, shown, adrift, halfway, spoilt>>
  BY DEF Crash
<1>h. HostInv
  OBVIOUS
<1>1. Routes'
  BY <1>m, <1>u, <1>h DEF HostInv, Routes, Active
<1>2. NothingWhenDown'
  BY <1>m, <1>u, <1>h DEF HostInv, NothingWhenDown, Active, Up
<1>3. AloneIsAlone'
  BY <1>m, <1>u, <1>h DEF HostInv, AloneIsAlone, Active
<1>4. AdriftCounts'
  BY <1>m, <1>u, <1>h DEF HostInv, AdriftCounts, Active, AloneIsAlone
<1>5. EngineShown'
  BY <1>m, <1>u, <1>h DEF HostInv, EngineShown, Active, Telling, Up
<1>6. LoneReplacement'
  BY <1>m, <1>u, <1>h DEF HostInv, LoneReplacement, Routes, AloneIsAlone, Active, Telling,
     Target, Holds
<1>7. LoneSave'
  BY <1>m, <1>u, <1>h DEF HostInv, LoneSave, Routes, AloneIsAlone, AdriftCounts, LoneReplacement,
     Active, Telling, Holds
<1>8. PathTold'
  BY <1>m, <1>u, <1>h DEF HostInv, PathTold, AloneIsAlone, AdriftCounts, LoneReplacement,
     LoneSave, Active, Telling, Target, Holds, Up
<1>. QED
  BY <1>1, <1>2, <1>3, <1>4, <1>5, <1>6, <1>7, <1>8 DEF HostInv

LEMMA EditProjectKeeps ==
    ASSUME HostTypeOK, HostTypeOK', HostInv, EditProject
    PROVE  HostInv'
<1>m. /\ Up /\ Up' /\ running'.id = running.id /\ running'.base = running.base
      /\ running'.origin = running.origin
      /\ req' = req
  BY EditProjectMoves, DownIsNoEngine DEF EditProject, Up
<1>u. UNCHANGED <<engines, files, path, shown, adrift, halfway, spoilt>>
  BY DEF EditProject
<1>h. HostInv
  OBVIOUS
<1>1. Routes'
  BY <1>m, <1>u, <1>h DEF HostInv, Routes, Active
<1>2. NothingWhenDown'
  BY <1>m, <1>u, <1>h DEF HostInv, NothingWhenDown, Active, Up
<1>3. AloneIsAlone'
  BY <1>m, <1>u, <1>h DEF HostInv, AloneIsAlone, Active
<1>4. AdriftCounts'
  BY <1>m, <1>u, <1>h DEF HostInv, AdriftCounts, Active, AloneIsAlone
<1>5. EngineShown'
  BY <1>m, <1>u, <1>h DEF HostInv, EngineShown, Active, Telling, Up
<1>6. LoneReplacement'
  BY <1>m, <1>u, <1>h DEF HostInv, LoneReplacement, Routes, AloneIsAlone, Active, Telling,
     Target, Holds
<1>7. LoneSave'
  BY <1>m, <1>u, <1>h DEF HostInv, LoneSave, Routes, AloneIsAlone, AdriftCounts, LoneReplacement,
     Active, Telling, Holds
<1>8. PathTold'
  BY <1>m, <1>u, <1>h DEF HostInv, PathTold, AloneIsAlone, AdriftCounts, LoneReplacement,
     LoneSave, Active, Telling, Target, Holds, Up
<1>. QED
  BY <1>1, <1>2, <1>3, <1>4, <1>5, <1>6, <1>7, <1>8 DEF HostInv

LEMMA SavePreferencesKeeps ==
    ASSUME HostTypeOK, HostTypeOK', HostInv, SavePreferences
    PROVE  HostInv'
<1>m. /\ req' = req
      /\ Up /\ locked' = FALSE
  BY DEF SavePreferences, HostInv, NothingWhenDown
<1>u. UNCHANGED <<running, engines, files, path, shown, adrift, halfway, spoilt>>
  BY DEF SavePreferences
<1>h. HostInv
  OBVIOUS
<1>1. Routes'
  BY <1>m, <1>u, <1>h DEF HostInv, Routes, Active
<1>2. NothingWhenDown'
  BY <1>m, <1>u, <1>h DEF HostInv, NothingWhenDown, Active, Up
<1>3. AloneIsAlone'
  BY <1>m, <1>u, <1>h DEF HostInv, AloneIsAlone, Active
<1>4. AdriftCounts'
  BY <1>m, <1>u, <1>h DEF HostInv, AdriftCounts, Active, AloneIsAlone
<1>5. EngineShown'
  BY <1>m, <1>u, <1>h DEF HostInv, EngineShown, Active, Telling, Up
<1>6. LoneReplacement'
  BY <1>m, <1>u, <1>h DEF HostInv, LoneReplacement, Routes, AloneIsAlone, Active, Telling,
     Target, Holds
<1>7. LoneSave'
  BY <1>m, <1>u, <1>h DEF HostInv, LoneSave, Routes, AloneIsAlone, AdriftCounts, LoneReplacement,
     Active, Telling, Holds
<1>8. PathTold'
  BY <1>m, <1>u, <1>h DEF HostInv, PathTold, AloneIsAlone, AdriftCounts, LoneReplacement,
     LoneSave, Active, Telling, Target, Holds, Up
<1>. QED
  BY <1>1, <1>2, <1>3, <1>4, <1>5, <1>6, <1>7, <1>8 DEF HostInv

LEMMA EditPreferencesKeeps ==
    ASSUME HostTypeOK, HostTypeOK', HostInv, NEW v \in PrefValues, EditPreferences(v)
    PROVE  HostInv'
<1>m. /\ Up /\ Up' /\ running'.id = running.id /\ running'.base = running.base
      /\ running'.origin = running.origin
      /\ \A s \in Callers : /\ (req'[s] = Idle <=> req[s] = Idle)
                            /\ req'[s].do = req[s].do
                            /\ req'[s].path = req[s].path
                            /\ req'[s].alone = req[s].alone
                            /\ req'[s].step = req[s].step
                            /\ req'[s].content = req[s].content
                            /\ req'[s].engine = req[s].engine
                            /\ req'[s].seen = req[s].seen
  BY EditPreferencesMoves, DownIsNoEngine DEF Up, Unmoved, Same, Active
<1>u. UNCHANGED <<engines, files, path, shown, adrift, halfway, spoilt>>
  BY DEF EditPreferences
<1>h. HostInv
  OBVIOUS
<1>1. Routes'
  BY <1>m, <1>u, <1>h DEF HostInv, Routes, Active
<1>2. NothingWhenDown'
  BY <1>m, <1>u, <1>h DEF HostInv, NothingWhenDown, Active, Up
<1>3. AloneIsAlone'
  BY <1>m, <1>u, <1>h DEF HostInv, AloneIsAlone, Active
<1>4. AdriftCounts'
  BY <1>m, <1>u, <1>h DEF HostInv, AdriftCounts, Active, AloneIsAlone
<1>5. EngineShown'
  BY <1>m, <1>u, <1>h DEF HostInv, EngineShown, Active, Telling, Up
<1>6. LoneReplacement'
  BY <1>m, <1>u, <1>h DEF HostInv, LoneReplacement, Routes, AloneIsAlone, Active, Telling,
     Target, Holds
<1>7. LoneSave'
  BY <1>m, <1>u, <1>h DEF HostInv, LoneSave, Routes, AloneIsAlone, AdriftCounts, LoneReplacement,
     Active, Telling, Holds
<1>8. PathTold'
  BY <1>m, <1>u, <1>h DEF HostInv, PathTold, AloneIsAlone, AdriftCounts, LoneReplacement,
     LoneSave, Active, Telling, Target, Holds, Up
<1>. QED
  BY <1>1, <1>2, <1>3, <1>4, <1>5, <1>6, <1>7, <1>8 DEF HostInv

LEMMA AskForKeeps ==
    ASSUME HostTypeOK, HostTypeOK', HostInv, NEW r \in Callers, NEW do \in RequestKinds, NEW p \in OptPath, NEW recover \in BOOLEAN,
           do # "new" => p \in Paths, AskFor(r, do, p, recover)
    PROVE  HostInv'
<1>m. /\ ~Active(r) /\ Up
      /\ req'[r] # Idle /\ req'[r].do = do /\ req'[r].path = p
      /\ req'[r].alone <=> \A s \in Callers \ {r} : ~Active(s)
      /\ req'[r].step \in {"prefs", "read", "cut", "lock"}
      /\ req'[r].step = "lock" => do = "save"
      /\ req'[r].step = "cut" => do = "upload"
      /\ req'[r].step = "read" => do \in {"load", "upload"}
      /\ req'[r].step = "prefs" => do = "new"
      /\ \A s \in Callers \ {r} : /\ (req'[s] = Idle <=> req[s] = Idle)
                                  /\ req'[s].do = req[s].do
                                  /\ req'[s].path = req[s].path
                                  /\ req'[s].step = req[s].step
                                  /\ req[s] # Idle => ~req'[s].alone
      /\ adrift' <=> (adrift \/ \E s \in Callers \ {r} : Active(s))
  <2>1. req'[r].step = FirstStep(do) /\ do \in RequestKinds
    BY AskForMoves
  <2>2. /\ req'[r].step \in {"prefs", "read", "cut", "lock"}
        /\ req'[r].step = "lock" => do = "save"
        /\ req'[r].step = "cut" => do = "upload"
        /\ req'[r].step = "read" => do \in {"load", "upload"}
        /\ req'[r].step = "prefs" => do = "new"
    BY <2>1 DEF FirstStep, RequestKinds
  <2>3. Up /\ (adrift' <=> (adrift \/ \E s \in Callers \ {r} : Active(s)))
    BY DEF AskFor, Others, Active
  <2>. QED
    BY <2>2, <2>3, AskForMoves, IdleIsNoRequest DEF Active
<1>u. UNCHANGED <<running, engines, files, prefsFile, locked, path, shown, halfway, spoilt>>
  BY DEF AskFor
<1>h. HostInv
  OBVIOUS
<1>1. Routes'
  BY <1>m, <1>u, <1>h DEF HostInv, Routes, Active
<1>2. NothingWhenDown'
  BY <1>m, <1>u, <1>h DEF HostInv, NothingWhenDown, Active, Up
<1>3. AloneIsAlone'
  BY <1>m, <1>u, <1>h DEF HostInv, AloneIsAlone, Active
<1>4. AdriftCounts'
  BY <1>m, <1>u, <1>h DEF HostInv, AdriftCounts, Active, AloneIsAlone
<1>5. EngineShown'
  BY <1>m, <1>u, <1>h DEF HostInv, EngineShown, Active, Telling, Up
<1>6. LoneReplacement'
  BY <1>m, <1>u, <1>h DEF HostInv, LoneReplacement, Routes, AloneIsAlone, Active, Telling,
     Target, Holds
<1>7. LoneSave'
  <2>1. ASSUME NEW s \in Callers, ~adrift', Active(s)' PROVE s = r
    BY <1>m, <2>1 DEF Active
  <2>. QED
    BY <1>m, <2>1 DEF LoneSave, Active, Telling
<1>8. PathTold'
  BY <1>m, <1>u, <1>h DEF HostInv, PathTold, AloneIsAlone, AdriftCounts, LoneReplacement,
     LoneSave, Active, Telling, Target, Holds, Up
<1>. QED
  BY <1>1, <1>2, <1>3, <1>4, <1>5, <1>6, <1>7, <1>8 DEF HostInv

LEMMA ReadProjectKeeps ==
    ASSUME HostTypeOK, HostTypeOK', HostInv, NEW r \in Callers, ReadProject(r)
    PROVE  HostInv'
<1>m. /\ Active(r) /\ req[r].step = "read"
      /\ \A s \in Callers \ {r} : req'[s] = req[s]
      /\ req'[r] # Idle => req'[r].step = "prefs" /\ req'[r].do = req[r].do
         /\ req'[r].path = req[r].path /\ req'[r].alone = req[r].alone
            /\ files[req[r].path] = Whole(req'[r].content)
  BY ReadProjectMoves, IdleIsNoRequest DEF HostInv, Moved, HasEnded, Same
<1>u. UNCHANGED <<running, engines, files, prefsFile, locked, path, shown, adrift, halfway, spoilt>>
  BY DEF ReadProject
<1>h. HostInv
  OBVIOUS
<1>1. Routes'
  BY <1>m, <1>u, <1>h DEF HostInv, Routes, Active
<1>2. NothingWhenDown'
  BY <1>m, <1>u, <1>h DEF HostInv, NothingWhenDown, Active, Up
<1>3. AloneIsAlone'
  BY <1>m, <1>u, <1>h DEF HostInv, AloneIsAlone, Active
<1>4. AdriftCounts'
  BY <1>m, <1>u, <1>h DEF HostInv, AdriftCounts, Active, AloneIsAlone
<1>5. EngineShown'
  BY <1>m, <1>u, <1>h DEF HostInv, EngineShown, Active, Telling, Up
<1>6. LoneReplacement'
  BY <1>m, <1>u, <1>h DEF HostInv, LoneReplacement, Routes, AloneIsAlone, Active, Telling,
     Target, Holds
<1>7. LoneSave'
  BY <1>m, <1>u, <1>h DEF HostInv, LoneSave, Routes, AloneIsAlone, AdriftCounts, LoneReplacement,
     Active, Telling, Holds
<1>8. PathTold'
  BY <1>m, <1>u, <1>h DEF HostInv, PathTold, AloneIsAlone, AdriftCounts, LoneReplacement,
     LoneSave, Active, Telling, Target, Holds, Up
<1>. QED
  BY <1>1, <1>2, <1>3, <1>4, <1>5, <1>6, <1>7, <1>8 DEF HostInv

LEMMA ReadPrefsKeeps ==
    ASSUME HostTypeOK, HostTypeOK', HostInv, NEW r \in Callers, ReadPrefs(r)
    PROVE  HostInv'
<1>m. /\ Active(r) /\ req[r].step = "prefs"
      /\ \A s \in Callers \ {r} : req'[s] = req[s]
      /\ req'[r] # Idle => req'[r].step = "swap" /\ req'[r].do = req[r].do
         /\ req'[r].path = req[r].path /\ req'[r].alone = req[r].alone
            /\ req'[r].content = req[r].content
  BY ReadPrefsMoves, IdleIsNoRequest DEF Moved, HasEnded, Same
<1>u. UNCHANGED <<running, engines, files, prefsFile, locked, path, shown, adrift, halfway, spoilt>>
  BY DEF ReadPrefs
<1>h. HostInv
  OBVIOUS
<1>1. Routes'
  BY <1>m, <1>u, <1>h DEF HostInv, Routes, Active
<1>2. NothingWhenDown'
  BY <1>m, <1>u, <1>h DEF HostInv, NothingWhenDown, Active, Up
<1>3. AloneIsAlone'
  BY <1>m, <1>u, <1>h DEF HostInv, AloneIsAlone, Active
<1>4. AdriftCounts'
  BY <1>m, <1>u, <1>h DEF HostInv, AdriftCounts, Active, AloneIsAlone
<1>5. EngineShown'
  BY <1>m, <1>u, <1>h DEF HostInv, EngineShown, Active, Telling, Up
<1>6. LoneReplacement'
  BY <1>m, <1>u, <1>h DEF HostInv, LoneReplacement, Routes, AloneIsAlone, Active, Telling,
     Target, Holds
<1>7. LoneSave'
  BY <1>m, <1>u, <1>h DEF HostInv, LoneSave, Routes, AloneIsAlone, AdriftCounts, LoneReplacement,
     Active, Telling, Holds
<1>8. PathTold'
  BY <1>m, <1>u, <1>h DEF HostInv, PathTold, AloneIsAlone, AdriftCounts, LoneReplacement,
     LoneSave, Active, Telling, Target, Holds, Up
<1>. QED
  BY <1>1, <1>2, <1>3, <1>4, <1>5, <1>6, <1>7, <1>8 DEF HostInv

LEMMA SwapKeeps ==
    ASSUME HostTypeOK, HostTypeOK', HostInv, NEW r \in Callers, Swap(r)
    PROVE  HostInv'
<1>m. /\ Active(r) /\ req[r].step = "swap" /\ req[r].do # "save" /\ Up /\ Up'
      /\ \A s \in Callers \ {r} : req'[s] = req[s]
      /\ running'.origin = Target(r) /\ running'.base = req[r].content
      /\ \/ req'[r] = Idle /\ halfway' = TRUE /\ adrift' = TRUE
         \/ /\ req'[r] # Idle /\ req'[r].step = "name" /\ req'[r].do = req[r].do /\ req'[r].path = req[r].path /\ req'[r].alone = req[r].alone
            /\ req'[r].content = req[r].content /\ halfway' = FALSE /\ adrift' = adrift
  <2>1. Active(r) /\ req[r].step = "swap" /\ req[r].do # "save" /\ Up
    BY SwapMoves DEF HostInv, Routes, NothingWhenDown
  <2>2. running' = Replacement(r) /\ Replacement(r) \in Engines
        /\ Replacement(r).origin = Target(r) /\ Replacement(r).base = req[r].content
    BY <2>1, ReplacementTyped DEF Swap
  <2>3. Up'
    BY <2>2, DownIsNoEngine DEF Up
  <2>4. \/ req'[r] = Idle /\ halfway' = TRUE /\ adrift' = TRUE
        \/ req'[r] # Idle /\ halfway' = FALSE /\ adrift' = adrift
    <3>1. CASE Finished(r) /\ halfway' = TRUE /\ adrift' = TRUE
      BY <2>1, <3>1, Ends DEF HasEnded
    <3>2. CASE req' = [req EXCEPT ![r].step = "name", ![r].ready = FALSE] /\ halfway' = FALSE /\ UNCHANGED adrift
      <4>1. req[r] \in Requests /\ req \in [Callers -> {Idle} \cup Requests]
        BY <2>1, ActiveTyped DEF HostTypeOK
      <4>2. req'[r].step = "name"
        BY <3>2, <4>1 DEF Requests
      <4>3. req'[r] # Idle
        <5>1. req'[r] = [req[r] EXCEPT !.step = "name", !.ready = FALSE]
          BY <3>2, <4>1
        <5>2. req'[r] \in Requests
          BY <4>1, <5>1 DEF Requests, Steps
        <5>. QED
          BY <5>2, IdleIsNoRequest
      <4>. QED
        BY <3>2, <4>3
    <3>. QED
      BY <3>1, <3>2 DEF Swap
  <2>5. /\ \A s \in Callers \ {r} : req'[s] = req[s]
        /\ req'[r] # Idle => req'[r].step = "name" /\ req'[r].do = req[r].do
           /\ req'[r].path = req[r].path /\ req'[r].alone = req[r].alone
              /\ req'[r].content = req[r].content
    BY SwapMoves DEF Moved, HasEnded, Same
  <2>. QED
    BY <2>1, <2>2, <2>3, <2>4, <2>5
<1>u. UNCHANGED <<files, prefsFile, locked, path, shown, spoilt>>
  BY DEF Swap
<1>h. HostInv
  OBVIOUS
<1>1. Routes'
  BY <1>m, <1>u, <1>h DEF HostInv, Routes, Active
<1>2. NothingWhenDown'
  BY <1>m, <1>u, <1>h DEF HostInv, NothingWhenDown, Active, Up
<1>3. AloneIsAlone'
  BY <1>m, <1>u, <1>h DEF HostInv, AloneIsAlone, Active
<1>4. AdriftCounts'
  BY <1>m, <1>u, <1>h DEF HostInv, AdriftCounts, Active, AloneIsAlone
<1>5. EngineShown'
  BY <1>m, <1>u, <1>h DEF HostInv, EngineShown, Active, Telling, Up
<1>6. LoneReplacement'
  BY <1>m, <1>u, <1>h DEF HostInv, LoneReplacement, Routes, AloneIsAlone, Active, Telling,
     Target, Holds
<1>7. LoneSave'
  BY <1>m, <1>u, <1>h DEF HostInv, LoneSave, Routes, AloneIsAlone, AdriftCounts, LoneReplacement,
     Active, Telling, Holds
<1>8. PathTold'
  BY <1>m, <1>u, <1>h DEF HostInv, PathTold, AloneIsAlone, AdriftCounts, LoneReplacement,
     LoneSave, Active, Telling, Target, Holds, Up
<1>. QED
  BY <1>1, <1>2, <1>3, <1>4, <1>5, <1>6, <1>7, <1>8 DEF HostInv

LEMMA SerializeKeeps ==
    ASSUME HostTypeOK, HostTypeOK', HostInv, NEW r \in Callers, Serialize(r)
    PROVE  HostInv'
<1>m. /\ Active(r) /\ req[r].step = "lock"
      /\ \A s \in Callers \ {r} : req'[s] = req[s]
      /\ req'[r] # Idle /\ req'[r].step = "cut" /\ req'[r].do = req[r].do
         /\ req'[r].path = req[r].path /\ req'[r].alone = req[r].alone
      /\ req'[r].engine = running.id
  BY SerializeMoves, IdleIsNoRequest DEF HostInv, Moved, Same
<1>u. UNCHANGED <<running, engines, files, prefsFile, locked, path, shown, adrift, halfway, spoilt>>
  BY DEF Serialize
<1>h. HostInv
  OBVIOUS
<1>1. Routes'
  BY <1>m, <1>u, <1>h DEF HostInv, Routes, Active
<1>2. NothingWhenDown'
  BY <1>m, <1>u, <1>h DEF HostInv, NothingWhenDown, Active, Up
<1>3. AloneIsAlone'
  BY <1>m, <1>u, <1>h DEF HostInv, AloneIsAlone, Active
<1>4. AdriftCounts'
  BY <1>m, <1>u, <1>h DEF HostInv, AdriftCounts, Active, AloneIsAlone
<1>5. EngineShown'
  BY <1>m, <1>u, <1>h DEF HostInv, EngineShown, Active, Telling, Up
<1>6. LoneReplacement'
  BY <1>m, <1>u, <1>h DEF HostInv, LoneReplacement, Routes, AloneIsAlone, Active, Telling,
     Target, Holds
<1>7. LoneSave'
  BY <1>m, <1>u, <1>h DEF HostInv, LoneSave, Routes, AloneIsAlone, AdriftCounts, LoneReplacement,
     Active, Telling, Holds
<1>8. PathTold'
  BY <1>m, <1>u, <1>h DEF HostInv, PathTold, AloneIsAlone, AdriftCounts, LoneReplacement,
     LoneSave, Active, Telling, Target, Holds, Up
<1>. QED
  BY <1>1, <1>2, <1>3, <1>4, <1>5, <1>6, <1>7, <1>8 DEF HostInv

LEMMA TruncateKeeps ==
    ASSUME HostTypeOK, HostTypeOK', HostInv, NEW r \in Callers, Truncate(r)
    PROVE  HostInv'
<1>m. /\ Active(r) /\ req[r].step = "cut" /\ req[r].path \in Paths
      /\ req'[r] # Idle /\ req'[r].step = "write" /\ req'[r].do = req[r].do
         /\ req'[r].path = req[r].path /\ req'[r].alone = req[r].alone
      /\ req'[r].content = req[r].content /\ req'[r].engine = req[r].engine
      /\ \A s \in Callers \ {r} : /\ (req'[s] = Idle <=> req[s] = Idle)
                                  /\ req'[s].do = req[s].do
                                  /\ req'[s].path = req[s].path
                                  /\ req'[s].alone = req[s].alone
                                  /\ req'[s].step = req[s].step
                                  /\ req'[s].content = req[s].content
                                  /\ req'[s].engine = req[s].engine
                                  /\ req'[s].seen = req[s].seen
      /\ files'[req[r].path] \in CutOff /\ \A p \in Paths \ {req[r].path} : files'[p] = files[p]
      /\ spoilt' = spoilt \cup {req[r].path} /\ path \in Paths \cup {NoPath}
  <2>1. Active(r) /\ req[r].step = "cut" /\ req[r].path \in Paths
    BY TruncateMoves DEF HostInv, Routes
  <2>2. /\ files'[req[r].path] \in CutOff /\ \A p \in Paths \ {req[r].path} : files'[p] = files[p]
        /\ spoilt' = spoilt \cup {req[r].path}
        /\ path \in Paths \cup {NoPath}
    BY <2>1 DEF Truncate, HostTypeOK, OptPath
  <2>. QED
    BY <2>1, <2>2, TruncateMoves, IdleIsNoRequest DEF Same, Unmoved, Active
<1>u. UNCHANGED <<running, engines, prefsFile, locked, path, shown, adrift, halfway>>
  BY DEF Truncate
<1>h. HostInv
  OBVIOUS
<1>1. Routes'
  BY <1>m, <1>u, <1>h DEF HostInv, Routes, Active
<1>2. NothingWhenDown'
  BY <1>m, <1>u, <1>h DEF HostInv, NothingWhenDown, Active, Up
<1>3. AloneIsAlone'
  BY <1>m, <1>u, <1>h DEF HostInv, AloneIsAlone, Active
<1>4. AdriftCounts'
  BY <1>m, <1>u, <1>h DEF HostInv, AdriftCounts, Active, AloneIsAlone
<1>5. EngineShown'
  BY <1>m, <1>u, <1>h DEF HostInv, EngineShown, Active, Telling, Up
<1>6. LoneReplacement'
  BY <1>m, <1>u, <1>h DEF HostInv, LoneReplacement, Routes, AloneIsAlone, Active, Telling,
     Target, Holds
<1>7. LoneSave'
  BY <1>m, <1>u, <1>h DEF HostInv, LoneSave, Routes, AloneIsAlone, AdriftCounts, LoneReplacement,
     Active, Telling, Holds
<1>8. PathTold'
  BY <1>m, <1>u, <1>h DEF HostInv, PathTold, AloneIsAlone, AdriftCounts, LoneReplacement,
     LoneSave, Active, Telling, Target, Holds, Up
<1>. QED
  BY <1>1, <1>2, <1>3, <1>4, <1>5, <1>6, <1>7, <1>8 DEF HostInv

LEMMA WriteKeeps ==
    ASSUME HostTypeOK, HostTypeOK', HostInv, NEW r \in Callers, Write(r)
    PROVE  HostInv'
<1>m. /\ Active(r) /\ req[r].step = "write" /\ req[r].path \in Paths
      /\ \A s \in Callers \ {r} : req'[s] = req[s]
      /\ req'[r] # Idle /\ req'[r].step = IF req[r].do = "save" THEN "name" ELSE "read"
      /\ req'[r].do = req[r].do /\ req'[r].path = req[r].path /\ req'[r].alone = req[r].alone
      /\ req'[r].content = req[r].content /\ req'[r].engine = req[r].engine
      /\ \A p \in Paths \ {req[r].path} : files'[p] = files[p]
      /\ files[req[r].path] \in CutOff => files'[req[r].path] = Whole(req[r].content)
      /\ spoilt' = spoilt \/ (req[r].do = "save" /\ spoilt' = spoilt \ {req[r].path})
  <2>1. Active(r) /\ req[r].step = "write" /\ req[r].path \in Paths
    BY DEF Write, Step, Active, HostInv, Routes
  <2>2. /\ \A p \in Paths \ {req[r].path} : files'[p] = files[p]
        /\ files[req[r].path] \in CutOff => files'[req[r].path] = Whole(req[r].content)
    <3>1. files \in [Paths -> Files]
      BY DEF HostTypeOK
    <3>2. CASE files[req[r].path] \in CutOff
      BY <2>1, <3>1, <3>2 DEF Write
    <3>3. CASE files[req[r].path] \notin CutOff
      BY <2>1, <3>1, <3>3 DEF Write
    <3>. QED
      BY <3>2, <3>3
  <2>5. spoilt' = spoilt \/ (req[r].do = "save" /\ spoilt' = spoilt \ {req[r].path})
    BY DEF Write
  <2> DEFINE st == IF req[r].do = "save" THEN "name" ELSE "read"
  <2>3. st \in Steps /\ Goes(r, st)
    BY DEF Steps, Write
  <2> HIDE DEF st
  <2>4. /\ req'[r] # Idle /\ req'[r].step = st /\ req'[r].do = req[r].do /\ req'[r].path = req[r].path /\ req'[r].alone = req[r].alone
        /\ req'[r].content = req[r].content /\ req'[r].engine = req[r].engine
        /\ \A s \in Callers \ {r} : req'[s] = req[s]
    BY <2>1, <2>3, GoesOn, IdleIsNoRequest DEF Moved, Same
  <2>. QED
    BY <2>1, <2>2, <2>4, <2>5 DEF st
<1>u. UNCHANGED <<running, engines, prefsFile, locked, path, shown, adrift, halfway>>
  BY DEF Write
<1>h. HostInv
  OBVIOUS
<1>1. Routes'
  BY <1>m, <1>u, <1>h DEF HostInv, Routes, Active
<1>2. NothingWhenDown'
  BY <1>m, <1>u, <1>h DEF HostInv, NothingWhenDown, Active, Up
<1>3. AloneIsAlone'
  BY <1>m, <1>u, <1>h DEF HostInv, AloneIsAlone, Active
<1>4. AdriftCounts'
  BY <1>m, <1>u, <1>h DEF HostInv, AdriftCounts, Active, AloneIsAlone
<1>5. EngineShown'
  BY <1>m, <1>u, <1>h DEF HostInv, EngineShown, Active, Telling, Up
<1>6. LoneReplacement'
  BY <1>m, <1>u, <1>h DEF HostInv, LoneReplacement, Routes, AloneIsAlone, Active, Telling,
     Target, Holds
<1>7. LoneSave'
  BY <1>m, <1>u, <1>h DEF HostInv, LoneSave, Routes, AloneIsAlone, AdriftCounts, LoneReplacement,
     Active, Telling, Holds
<1>8. PathTold'
  <2>1. SUFFICES ASSUME (Up /\ ~adrift)', \A s \in Callers : ~Telling(s)'
                 PROVE  /\ path = running.origin /\ shown.path = path
                        /\ path # NoPath
                           /\ path \notin spoilt' => files'[path] = Whole(running.base)
    BY <1>u DEF PathTold
  <2>2. \A s \in Callers : ~Telling(s)
    BY <1>m, <2>1 DEF Telling, Active
  <2>3. req[r].do # "save" /\ spoilt' = spoilt
    BY <1>m, <2>1 DEF Telling, Active
  <2>4. req[r].path \in spoilt
    BY <1>m, <1>u, <2>1, <2>3 DEF HostInv, AdriftCounts, LoneReplacement
  <2>5. /\ path = running.origin /\ shown.path = path
        /\ path # NoPath /\ path \notin spoilt => files[path] = Whole(running.base)
    BY <1>u, <2>1, <2>2 DEF HostInv, PathTold, Up
  <2>6. path # NoPath => path \in Paths
    BY DEF HostTypeOK, OptPath
  <2>. QED
    BY <1>m, <2>3, <2>4, <2>5, <2>6
<1>. QED
  BY <1>1, <1>2, <1>3, <1>4, <1>5, <1>6, <1>7, <1>8 DEF HostInv

LEMMA NameKeeps ==
    ASSUME HostTypeOK, HostTypeOK', HostInv, NEW r \in Callers, Name(r)
    PROVE  HostInv'
<1>m. /\ Active(r) /\ req[r].step = "name" /\ Up /\ Up'
      /\ \A s \in Callers \ {r} : req'[s] = req[s]
      /\ req'[r] # Idle /\ req'[r].step = "look"
      /\ req'[r].do = req[r].do /\ req'[r].path = req[r].path /\ req'[r].alone = req[r].alone
      /\ req'[r].content = req[r].content /\ req'[r].engine = req[r].engine
      /\ path' = Target(r) /\ running'.id = running.id
      /\ req[r].do = "save" /\ req[r].engine = running.id => running'.origin = req[r].path
         /\ running'.base = req[r].content
      /\ req[r].do # "save" => running' = running
  <2>1. "look" \in Steps /\ Goes(r, "look") /\ Active(r)
    BY NameMoves DEF Steps, Name, HostInv
  <2>2. /\ req'[r] # Idle /\ req'[r].step = "look" /\ req'[r].do = req[r].do /\ req'[r].path = req[r].path /\ req'[r].alone = req[r].alone
        /\ req'[r].content = req[r].content /\ req'[r].engine = req[r].engine
        /\ \A s \in Callers \ {r} : req'[s] = req[s]
    BY <2>1, GoesOn, IdleIsNoRequest DEF Moved, Same
  <2>3. Up'
    BY NameMoves, DownIsNoEngine DEF Up, HostInv
  <2>4. path' = Target(r)
    BY DEF Name, Target
  <2>. QED
    BY <2>2, <2>3, <2>4, NameMoves DEF HostInv
<1>u. UNCHANGED <<engines, files, prefsFile, locked, shown, adrift, halfway>>
  BY DEF Name
<1>h. HostInv
  OBVIOUS
<1>1. Routes'
  BY <1>m, <1>u, <1>h DEF HostInv, Routes, Active
<1>2. NothingWhenDown'
  BY <1>m, <1>u, <1>h DEF HostInv, NothingWhenDown, Active, Up
<1>3. AloneIsAlone'
  BY <1>m, <1>u, <1>h DEF HostInv, AloneIsAlone, Active
<1>4. AdriftCounts'
  BY <1>m, <1>u, <1>h DEF HostInv, AdriftCounts, Active, AloneIsAlone
<1>5. EngineShown'
  BY <1>m, <1>u, <1>h DEF HostInv, EngineShown, Active, Telling, Up
<1>6. LoneReplacement'
  BY <1>m, <1>u, <1>h DEF HostInv, LoneReplacement, Routes, AloneIsAlone, Active, Telling,
     Target, Holds
<1>7. LoneSave'
  <2>1. ASSUME NEW s \in Callers, ~adrift, Active(s)' PROVE s = r
    BY <1>m, <2>1 DEF HostInv, AdriftCounts, AloneIsAlone, Active
  <2>2. ASSUME ~adrift, req[r].do = "save"
        PROVE  /\ req[r].engine = running.id
               /\ files[req[r].path] = Whole(req[r].content)
    BY <1>m, <2>2 DEF HostInv, LoneSave, Telling, Holds
  <2>3. ~adrift /\ req[r].do = "save" => path' = req[r].path /\ running'.origin = path' /\ running'.base = req[r].content
    BY <1>m, <2>2 DEF Target
  <2>. QED
    BY <1>m, <1>u, <2>1, <2>2, <2>3 DEF LoneSave, Telling, Holds, Active
<1>8. PathTold'
  BY <1>m DEF PathTold, Telling, Active
<1>. QED
  BY <1>1, <1>2, <1>3, <1>4, <1>5, <1>6, <1>7, <1>8 DEF HostInv

LEMMA LookKeeps ==
    ASSUME HostTypeOK, HostTypeOK', HostInv, NEW r \in Callers, Look(r)
    PROVE  HostInv'
<1>m. /\ Active(r) /\ req[r].step = "look"
      /\ \A s \in Callers \ {r} : req'[s] = req[s]
      /\ req'[r] # Idle /\ req'[r].step = "show" /\ req'[r].do = req[r].do
         /\ req'[r].path = req[r].path /\ req'[r].alone = req[r].alone
      /\ req'[r].content = req[r].content /\ req'[r].engine = req[r].engine /\ req'[r].seen = path
  BY LookMoves, IdleIsNoRequest DEF Moved, Same
<1>u. UNCHANGED <<running, engines, files, prefsFile, locked, path, shown, adrift, halfway, spoilt>>
  BY DEF Look
<1>h. HostInv
  OBVIOUS
<1>1. Routes'
  BY <1>m, <1>u, <1>h DEF HostInv, Routes, Active
<1>2. NothingWhenDown'
  BY <1>m, <1>u, <1>h DEF HostInv, NothingWhenDown, Active, Up
<1>3. AloneIsAlone'
  BY <1>m, <1>u, <1>h DEF HostInv, AloneIsAlone, Active
<1>4. AdriftCounts'
  BY <1>m, <1>u, <1>h DEF HostInv, AdriftCounts, Active, AloneIsAlone
<1>5. EngineShown'
  BY <1>m, <1>u, <1>h DEF HostInv, EngineShown, Active, Telling, Up
<1>6. LoneReplacement'
  BY <1>m, <1>u, <1>h DEF HostInv, LoneReplacement, Routes, AloneIsAlone, Active, Telling,
     Target, Holds
<1>7. LoneSave'
  BY <1>m, <1>u, <1>h DEF HostInv, LoneSave, Active, Telling, Holds
<1>8. PathTold'
  BY <1>m, <1>u, <1>h DEF HostInv, PathTold, AloneIsAlone, AdriftCounts, LoneReplacement,
     LoneSave, Active, Telling, Target, Holds, Up
<1>. QED
  BY <1>1, <1>2, <1>3, <1>4, <1>5, <1>6, <1>7, <1>8 DEF HostInv

LEMMA DisplayKeeps ==
    ASSUME HostTypeOK, HostTypeOK', HostInv, NEW r \in Callers, Display(r)
    PROVE  HostInv'
<1>m. /\ Active(r) /\ req[r].step = "show" /\ Up
      /\ \A s \in Callers \ {r} : req'[s] = req[s]
      /\ req'[r] = Idle
      /\ shown'.path = req[r].seen
         /\ shown'.engine = IF req[r].do = "save" THEN shown.engine ELSE running.id
      /\ adrift' <=> (adrift /\ (req[r].do = "save" \/ ~req[r].alone))
  <2>1. Active(r) /\ req[r].step = "show" /\ Up
    BY DEF Display, Step, Active, HostInv, NothingWhenDown
  <2>2. req'[r] = Idle /\ \A s \in Callers \ {r} : req'[s] = req[s]
    BY <2>1, Ends DEF Display, HasEnded
  <2>3. shown'.path = req[r].seen /\ shown'.engine = IF req[r].do = "save" THEN shown.engine ELSE running.id
    BY DEF Display, Displayed
  <2>4. adrift' <=> (adrift /\ (req[r].do = "save" \/ ~req[r].alone))
    BY DEF Display
  <2>. QED
    BY <2>1, <2>2, <2>3, <2>4
<1>u. UNCHANGED <<running, engines, files, prefsFile, locked, path, halfway, spoilt>>
  BY DEF Display
<1>h. HostInv
  OBVIOUS
<1>1. Routes'
  BY <1>m, <1>u, <1>h DEF HostInv, Routes, Active
<1>2. NothingWhenDown'
  BY <1>m, <1>u, <1>h DEF HostInv, NothingWhenDown, Active, Up
<1>3. AloneIsAlone'
  BY <1>m, <1>u, <1>h DEF HostInv, AloneIsAlone, Active
<1>4. AdriftCounts'
  BY <1>m, <1>u, <1>h DEF HostInv, AdriftCounts, Active, AloneIsAlone
<1>5. EngineShown'
  BY <1>m, <1>u, <1>h DEF HostInv, EngineShown, Active, Telling, Up
<1>6. LoneReplacement'
  BY <1>m, <1>u, <1>h DEF HostInv, LoneReplacement, Routes, AloneIsAlone, Active, Telling,
     Target, Holds
<1>7. LoneSave'
  BY <1>m, <1>u, <1>h DEF HostInv, LoneSave, Routes, AloneIsAlone, AdriftCounts, LoneReplacement,
     Active, Telling, Holds
<1>8. PathTold'
  BY <1>m, <1>u, <1>h DEF HostInv, PathTold, AloneIsAlone, AdriftCounts, LoneReplacement,
     LoneSave, Active, Telling, Target, Holds, Up
<1>. QED
  BY <1>1, <1>2, <1>3, <1>4, <1>5, <1>6, <1>7, <1>8 DEF HostInv

LEMMA HostInvInit == HostInit => HostInv
BY DownIsNoEngine DEF HostInit, HostInv, Routes, NothingWhenDown, AloneIsAlone, AdriftCounts,
   EngineShown,
   LoneReplacement, LoneSave, PathTold, Active, Telling, Up

LEMMA HostInvStep == HostTypeOK /\ HostTypeOK' /\ HostInv /\ [HostNext]_hostVars => HostInv'
<1> SUFFICES ASSUME HostTypeOK, HostTypeOK', HostInv, [HostNext]_hostVars
             PROVE  HostInv'
  OBVIOUS
<1>1. CASE Start
  BY <1>1, StartKeeps
<1>2. CASE Crash
  BY <1>2, CrashKeeps
<1>3. CASE EditProject
  BY <1>3, EditProjectKeeps
<1>4. CASE SavePreferences
  BY <1>4, SavePreferencesKeeps
<1>5. ASSUME NEW v \in PrefValues, EditPreferences(v) PROVE HostInv'
  BY <1>5, EditPreferencesKeeps
<1>6. ASSUME NEW r \in Callers, AskFor(r, "new", NoPath, FALSE) PROVE HostInv'
  BY <1>6, AskForKeeps DEF RequestKinds, OptPath
<1>7. ASSUME NEW r \in Callers, NEW p \in Paths, NEW recover \in BOOLEAN,
             NEW do \in {"save", "load", "upload"}, AskFor(r, do, p, recover)
      PROVE  HostInv'
  BY <1>7, AskForKeeps DEF RequestKinds, OptPath
<1>8. ASSUME NEW r \in Callers, ReadProject(r) PROVE HostInv'
  BY <1>8, ReadProjectKeeps
<1>9. ASSUME NEW r \in Callers, ReadPrefs(r) PROVE HostInv'
  BY <1>9, ReadPrefsKeeps
<1>10. ASSUME NEW r \in Callers, Swap(r) PROVE HostInv'
  BY <1>10, SwapKeeps
<1>11. ASSUME NEW r \in Callers, Serialize(r) PROVE HostInv'
  BY <1>11, SerializeKeeps
<1>12. ASSUME NEW r \in Callers, Truncate(r) PROVE HostInv'
  BY <1>12, TruncateKeeps
<1>13. ASSUME NEW r \in Callers, Write(r) PROVE HostInv'
  BY <1>13, WriteKeeps
<1>14. ASSUME NEW r \in Callers, Name(r) PROVE HostInv'
  BY <1>14, NameKeeps
<1>15. ASSUME NEW r \in Callers, Look(r) PROVE HostInv'
  BY <1>15, LookKeeps
<1>16. ASSUME NEW r \in Callers, Display(r) PROVE HostInv'
  BY <1>16, DisplayKeeps
<1>17. CASE UNCHANGED hostVars
  BY <1>17 DEF hostVars, HostInv, Routes, NothingWhenDown, AloneIsAlone, AdriftCounts, EngineShown,
     LoneReplacement, LoneSave, PathTold, Active, Telling, Up, Target, Holds
<1>. QED
  BY <1>1, <1>2, <1>3, <1>4, <1>5, <1>6, <1>7, <1>8, <1>9, <1>10, <1>11, <1>12, <1>13, <1>14,
     <1>15, <1>16,
     <1>17 DEF HostNext

\* With no request under way nothing is left to be told.
LEMMA SettledIsTold == HostInv => HostSettles
BY DEF HostInv, EngineShown, PathTold, HostSettles, Settled, Telling, Active

---------------------------------------------------------------------------
(* What each step does to the preferences.                                 *)

\* Completing a tree this program keeps gives one it keeps.
LEMMA CompletedIsKept == \A has \in Kept : Completed(has) \in Kept
BY DEF Kept, Completed, Trimmed, BegunFirst, Sections

LEMMA ReadIsComplete ==
    ASSUME NEW stored \in PrefsFiles, stored.is = "whole" => stored.data.has \in Kept
    PROVE  Complete(PrefsOf(stored))
BY CompletedIsKept DEF Complete, PrefsOf, Kept, Completed, Sections

\* Saving what was read, and reading it back, changes nothing.
LEMMA SavedIsKept ==
    ASSUME NEW e \in Engines, Complete(e.prefs)
    PROVE  /\ Saved(e).is = "whole" /\ Saved(e).data.has \in Kept /\ Saved(e).data.has = e.prefs.has
           /\ Saved(e).data.value = e.prefs.value
           /\ Saved(e) \notin CutOff /\ PrefsOf(Saved(e)).value = e.prefs.value
BY CompletedIsKept DEF Saved, Whole, Complete, CutOff, Blank, Torn, PrefsOf

LEMMA PrefsInvInit == HostInit => PrefsInv
<1> SUFFICES ASSUME HostInit PROVE PrefsInv
  OBVIOUS
<1>1. PrefsComplete /\ LockedWhileCutOff
  BY DEF HostInit, PrefsComplete, LockedWhileCutOff, Missing, Whole, Kept, Up, Active
<1>2. ChoiceKept
  BY DEF HostInit, ChoiceKept, Up, PrefsOf, Missing, Whole, CutOff, Blank, Torn, Step
<1>. QED
  BY <1>1, <1>2 DEF PrefsInv

\* A step of a request that reads no preferences and replaces no engine.
LEMMA QuietKeeps ==
    ASSUME PrefsInv, UNCHANGED <<prefsFile, locked, chosen, lost>>,
           Up' <=> Up, Up => running'.prefs = running.prefs,
           \A s \in Callers : req'[s] # Idle => Complete(req'[s].prefs),
           \A s \in Callers : req'[s] # Idle /\ req'[s].step = "swap" =>
              req[s] # Idle /\ req[s].step = "swap" /\ req'[s].prefs = req[s].prefs /\ req'[s].stale = req[s].stale
    PROVE  PrefsInv'
<1>1. PrefsComplete'
  BY DEF PrefsInv, PrefsComplete, Active, Up, Complete
<1>2. LockedWhileCutOff'
  BY DEF PrefsInv, LockedWhileCutOff, Up
<1>3. ChoiceKept'
  BY DEF PrefsInv, ChoiceKept, Up, Step
<1>. QED
  BY <1>1, <1>2, <1>3 DEF PrefsInv

LEMMA StartPrefs ==
    ASSUME HostTypeOK, HostTypeOK', HostInv, PrefsInv, Start
    PROVE  PrefsInv'
<1> DEFINE e == [id |-> engines + 1, prefs |-> PrefsOf(prefsFile), content |-> 0, base |-> 0, origin |-> NoPath]
<1>1. /\ running' = e /\ prefsFile' = Saved(e) /\ ~Up /\ ~locked /\ ~locked'
      /\ chosen' = chosen /\ lost' = lost /\ \A r \in Callers : req'[r] = Idle
  BY DEF Start, HostInv, NothingWhenDown, Active
<1>2. PrefsOf(prefsFile) \in Prefs
  BY PrefsTyped DEF HostTypeOK
<1>3. e \in Engines /\ e.prefs = PrefsOf(prefsFile)
  BY <1>2 DEF Engines, HostTypeOK, OptPath
<1>4. Complete(e.prefs)
  BY <1>3, ReadIsComplete DEF HostTypeOK, PrefsInv, PrefsComplete
<1>5. ~lost => e.prefs.value = chosen
  BY <1>1, <1>3 DEF PrefsInv, ChoiceKept
<1> HIDE DEF e
<1>6. /\ Saved(e).is = "whole" /\ Saved(e).data.has \in Kept
      /\ Saved(e) \notin CutOff /\ PrefsOf(Saved(e)).value = e.prefs.value
  BY <1>3, <1>4, SavedIsKept
<1>7. PrefsComplete'
  BY <1>1, <1>4, <1>6 DEF PrefsComplete, Active
<1>8. LockedWhileCutOff'
  BY <1>1, <1>6 DEF LockedWhileCutOff
<1>9. ChoiceKept'
  BY <1>1, <1>5, <1>6 DEF ChoiceKept, Step
<1>. QED
  BY <1>7, <1>8, <1>9 DEF PrefsInv

LEMMA CrashPrefs ==
    ASSUME PrefsInv, Crash
    PROVE  PrefsInv'
<1>1. ~Up' /\ ~locked' /\ lost' = (lost \/ locked) /\ (\A r \in Callers : req'[r] = Idle)
      /\ UNCHANGED <<prefsFile, chosen>>
  BY DEF Crash, Up
<1>2. PrefsComplete'
  BY <1>1 DEF PrefsInv, PrefsComplete, Active
<1>3. LockedWhileCutOff'
  BY <1>1 DEF LockedWhileCutOff
<1>4. ChoiceKept'
  BY <1>1 DEF PrefsInv, ChoiceKept, Step
<1>. QED
  BY <1>2, <1>3, <1>4 DEF PrefsInv

\* A file that was cut off is not whole.
LEMMA CutOffIsNotWhole == \A stored \in CutOff : stored.is # "whole"
BY DEF CutOff, Blank, Torn

LEMMA EditProjectPrefs ==
    ASSUME HostTypeOK, PrefsInv, EditProject
    PROVE  PrefsInv'
<1>1. /\ Up /\ Up' /\ running'.prefs = running.prefs /\ locked' = TRUE /\ prefsFile' \in CutOff
      /\ UNCHANGED <<req, chosen, lost>>
  BY EditProjectMoves, DownIsNoEngine DEF EditProject, Up
<1>2. prefsFile'.is # "whole"
  BY <1>1, CutOffIsNotWhole
<1>3. PrefsComplete'
  BY <1>1, <1>2 DEF PrefsInv, PrefsComplete, Active, Complete
<1>4. LockedWhileCutOff'
  BY <1>1 DEF LockedWhileCutOff
<1>5. ChoiceKept'
  BY <1>1 DEF PrefsInv, ChoiceKept, Step
<1>. QED
  BY <1>3, <1>4, <1>5 DEF PrefsInv

LEMMA EditPreferencesPrefs ==
    ASSUME HostTypeOK, PrefsInv, NEW v \in PrefValues, EditPreferences(v)
    PROVE  PrefsInv'
<1>1. /\ Up /\ Up' /\ locked' = TRUE /\ prefsFile' \in CutOff /\ chosen' = v
      /\ running'.prefs.value = v /\ running'.prefs.has = running.prefs.has
      /\ running'.prefs.from = running.prefs.from
  BY EditPreferencesMoves, DownIsNoEngine DEF EditPreferences, Up
<1>2. prefsFile'.is # "whole"
  BY <1>1, CutOffIsNotWhole
<1>3. \A s \in Callers : /\ req'[s] # Idle => req[s] # Idle /\ req'[s].prefs = req[s].prefs
                         /\ req'[s] # Idle /\ req'[s].step = "swap" => req'[s].stale
  BY EditPreferencesMoves DEF Unmoved, Active
<1>4. PrefsComplete'
  BY <1>1, <1>2, <1>3 DEF PrefsInv, PrefsComplete, Active, Complete
<1>5. LockedWhileCutOff'
  BY <1>1 DEF LockedWhileCutOff
<1>6. ChoiceKept'
  BY <1>1, <1>3 DEF ChoiceKept, Step
<1>. QED
  BY <1>4, <1>5, <1>6 DEF PrefsInv

LEMMA SavePreferencesPrefs ==
    ASSUME HostTypeOK, PrefsInv, SavePreferences
    PROVE  PrefsInv'
<1>1. /\ Up /\ locked /\ ~locked' /\ prefsFile' = Saved(running)
      /\ UNCHANGED <<running, req, chosen, lost>>
  BY DEF SavePreferences, PrefsInv, LockedWhileCutOff
<1>2. running \in Engines /\ Complete(running.prefs)
  BY <1>1, UpTyped DEF PrefsInv, PrefsComplete
<1>3. /\ prefsFile'.is = "whole" /\ prefsFile'.data.has \in Kept
      /\ prefsFile' \notin CutOff /\ PrefsOf(prefsFile').value = running.prefs.value
  BY <1>1, <1>2, SavedIsKept
<1>4. PrefsComplete'
  BY <1>1, <1>2, <1>3 DEF PrefsInv, PrefsComplete, Active, Up
<1>5. LockedWhileCutOff'
  BY <1>1, <1>3 DEF LockedWhileCutOff
<1>6. ChoiceKept'
  BY <1>1, <1>3 DEF PrefsInv, ChoiceKept, Step, Up
<1>. QED
  BY <1>4, <1>5, <1>6 DEF PrefsInv

LEMMA ReadPrefsPrefs ==
    ASSUME HostTypeOK, HostInv, PrefsInv, NEW r \in Callers, ReadPrefs(r)
    PROVE  PrefsInv'
<1>1. /\ Active(r) /\ \A s \in Callers \ {r} : req'[s] = req[s]
      /\ UNCHANGED <<running, prefsFile, locked, chosen, lost>>
      /\ req'[r] # Idle => /\ prefsFile # Torn /\ req'[r].prefs = PrefsOf(prefsFile)
                           /\ req'[r].stale <=> prefsFile \in CutOff
  BY ReadPrefsMoves DEF ReadPrefs, Moved, HasEnded
<1>2. Complete(PrefsOf(prefsFile))
  BY ReadIsComplete DEF HostTypeOK, PrefsInv, PrefsComplete
<1>3. PrefsComplete'
  BY <1>1, <1>2 DEF PrefsInv, PrefsComplete, Active, Up
<1>4. LockedWhileCutOff'
  BY <1>1 DEF PrefsInv, LockedWhileCutOff, Up
<1>5. ~lost /\ prefsFile \notin CutOff => PrefsOf(prefsFile).value = chosen
  BY DEF PrefsInv, ChoiceKept, LockedWhileCutOff
<1>6. ChoiceKept'
  BY <1>1, <1>5 DEF PrefsInv, ChoiceKept, Up, Step
<1>. QED
  BY <1>3, <1>4, <1>6 DEF PrefsInv

LEMMA SwapPrefs ==
    ASSUME HostTypeOK, HostInv, PrefsInv, NEW r \in Callers, Swap(r)
    PROVE  PrefsInv'
<1>1. /\ Active(r) /\ req[r].step = "swap" /\ Up /\ \A s \in Callers \ {r} : req'[s] = req[s]
      /\ req'[r] # Idle => req'[r].step = "name" /\ req'[r].prefs = req[r].prefs
  BY SwapMoves DEF HostInv, NothingWhenDown, Moved, HasEnded
<1>2. running'.prefs = req[r].prefs /\ Up'
  BY <1>1, ReplacementTyped, DownIsNoEngine DEF Swap, Up
<1>3. ~locked /\ lost' = (lost \/ req[r].stale) /\ UNCHANGED <<prefsFile, locked, chosen>>
  BY DEF Swap
<1>4. PrefsComplete'
  BY <1>1, <1>2, <1>3 DEF PrefsInv, PrefsComplete, Active, Complete
<1>5. LockedWhileCutOff'
  BY <1>1, <1>2, <1>3 DEF PrefsInv, LockedWhileCutOff
<1>6. ChoiceKept'
  BY <1>1, <1>2, <1>3 DEF PrefsInv, ChoiceKept, Step, Active
<1>. QED
  BY <1>4, <1>5, <1>6 DEF PrefsInv

LEMMA AskForPrefs ==
    ASSUME HostTypeOK, PrefsInv, NEW r \in Callers, NEW do \in RequestKinds, NEW p \in OptPath,
           NEW recover \in BOOLEAN, AskFor(r, do, p, recover)
    PROVE  PrefsInv'
<1>1. req'[r].step # "swap" /\ Complete(req'[r].prefs)
  BY AskForMoves DEF FirstStep, RequestKinds
<1>2. \A s \in Callers \ {r} : req'[s] # Idle =>
         /\ req[s] # Idle /\ req'[s].step = req[s].step /\ req'[s].prefs = req[s].prefs
         /\ req'[s].stale = req[s].stale
  BY AskForMoves DEF Active
<1>3. Up' <=> Up
  BY DEF AskFor, Up
<1>4. \A s \in Callers : req'[s] # Idle => Complete(req'[s].prefs)
  BY <1>1, <1>2 DEF PrefsInv, PrefsComplete, Active
<1>. QED
  BY <1>1, <1>2, <1>3, <1>4, QuietKeeps DEF AskFor

\* A request that moves on with the preferences it had, to a step other than the swap.
LEMMA MoveKeeps ==
    ASSUME PrefsInv, UNCHANGED <<prefsFile, locked, chosen, lost>>,
           Up' <=> Up, Up => running'.prefs = running.prefs, NEW r \in Callers, Active(r),
           req'[r] # Idle => req'[r].prefs = req[r].prefs /\ req'[r].step # "swap",
           \A s \in Callers \ {r} : req'[s] = req[s]
    PROVE  PrefsInv'
<1>1. \A s \in Callers : req'[s] # Idle => Complete(req'[s].prefs)
  BY DEF PrefsInv, PrefsComplete, Active
<1>. QED
  BY <1>1, QuietKeeps

LEMMA ReadProjectPrefs ==
    ASSUME HostTypeOK, HostInv, PrefsInv, NEW r \in Callers, ReadProject(r)
    PROVE  PrefsInv'
<1>1. /\ Active(r) /\ \A s \in Callers \ {r} : req'[s] = req[s]
      /\ req'[r] # Idle => req'[r].prefs = req[r].prefs /\ req'[r].step # "swap"
  BY ReadProjectMoves DEF HostInv, Moved, HasEnded
<1>. QED
  BY <1>1, MoveKeeps DEF ReadProject, Up

LEMMA SerializePrefs ==
    ASSUME HostTypeOK, HostInv, PrefsInv, NEW r \in Callers, Serialize(r)
    PROVE  PrefsInv'
<1>1. /\ Active(r) /\ \A s \in Callers \ {r} : req'[s] = req[s]
      /\ req'[r].prefs = req[r].prefs /\ req'[r].step # "swap"
  BY SerializeMoves DEF HostInv, Moved
<1>. QED
  BY <1>1, MoveKeeps DEF Serialize, Up

LEMMA TruncatePrefs ==
    ASSUME HostTypeOK, PrefsInv, NEW r \in Callers, Truncate(r)
    PROVE  PrefsInv'
<1>1. Active(r) /\ req'[r].prefs = req[r].prefs /\ req'[r].step # "swap"
  BY TruncateMoves
<1>2. \A s \in Callers \ {r} : req'[s] # Idle =>
         /\ req[s] # Idle /\ req'[s].step = req[s].step /\ req'[s].prefs = req[s].prefs
         /\ req'[s].stale = req[s].stale
  BY TruncateMoves DEF Unmoved, Active
<1>3. \A s \in Callers : req'[s] # Idle => Complete(req'[s].prefs)
  BY <1>1, <1>2 DEF PrefsInv, PrefsComplete, Active
<1>. QED
  BY <1>1, <1>2, <1>3, QuietKeeps DEF Truncate, Up

LEMMA WritePrefs ==
    ASSUME HostTypeOK, PrefsInv, NEW r \in Callers, Write(r)
    PROVE  PrefsInv'
<1> DEFINE st == IF req[r].do = "save" THEN "name" ELSE "read"
<1>1. Active(r) /\ st \in Steps /\ st # "swap" /\ Goes(r, st)
  BY DEF Steps, Write, Step, Active
<1> HIDE DEF st
<1>2. req'[r].prefs = req[r].prefs /\ req'[r].step # "swap" /\ \A s \in Callers \ {r} : req'[s] = req[s]
  BY <1>1, GoesOn DEF Moved
<1>. QED
  BY <1>1, <1>2, MoveKeeps DEF Write, Up

LEMMA NamePrefs ==
    ASSUME HostTypeOK, HostInv, PrefsInv, NEW r \in Callers, Name(r)
    PROVE  PrefsInv'
<1>1. Active(r) /\ "look" \in Steps /\ Goes(r, "look")
  BY DEF Steps, Name, Step, Active
<1>2. req'[r].prefs = req[r].prefs /\ req'[r].step # "swap" /\ \A s \in Callers \ {r} : req'[s] = req[s]
  BY <1>1, GoesOn DEF Moved
<1>3. Up /\ Up' /\ running'.prefs = running.prefs
  BY NameMoves, DownIsNoEngine DEF Up, HostInv
<1>. QED
  BY <1>1, <1>2, <1>3, MoveKeeps DEF Name

LEMMA LookPrefs ==
    ASSUME HostTypeOK, PrefsInv, NEW r \in Callers, Look(r)
    PROVE  PrefsInv'
<1>1. /\ Active(r) /\ \A s \in Callers \ {r} : req'[s] = req[s]
      /\ req'[r].prefs = req[r].prefs /\ req'[r].step # "swap"
  BY LookMoves DEF Moved
<1>. QED
  BY <1>1, MoveKeeps DEF Look, Up

LEMMA DisplayPrefs ==
    ASSUME HostTypeOK, PrefsInv, NEW r \in Callers, Display(r)
    PROVE  PrefsInv'
<1>1. Active(r)
  BY DEF Display, Step, Active
<1>2. req'[r] = Idle /\ \A s \in Callers \ {r} : req'[s] = req[s]
  BY <1>1, Ends DEF Display, HasEnded
<1>. QED
  BY <1>1, <1>2, MoveKeeps DEF Display, Up

LEMMA PrefsInvStep ==
    ASSUME HostTypeOK, HostTypeOK', HostInv, PrefsInv, [HostNext]_hostVars
    PROVE  PrefsInv'
<1>1. CASE Start
  BY <1>1, StartPrefs
<1>2. CASE Crash
  BY <1>2, CrashPrefs
<1>3. CASE EditProject
  BY <1>3, EditProjectPrefs
<1>4. CASE SavePreferences
  BY <1>4, SavePreferencesPrefs
<1>5. ASSUME NEW v \in PrefValues, EditPreferences(v) PROVE PrefsInv'
  BY <1>5, EditPreferencesPrefs
<1>6. ASSUME NEW r \in Callers, AskFor(r, "new", NoPath, FALSE) PROVE PrefsInv'
  BY <1>6, AskForPrefs DEF RequestKinds, OptPath
<1>7. ASSUME NEW r \in Callers, NEW p \in Paths, NEW recover \in BOOLEAN,
             NEW do \in {"save", "load", "upload"}, AskFor(r, do, p, recover)
      PROVE  PrefsInv'
  BY <1>7, AskForPrefs DEF RequestKinds, OptPath
<1>8. ASSUME NEW r \in Callers, ReadProject(r) PROVE PrefsInv'
  BY <1>8, ReadProjectPrefs
<1>9. ASSUME NEW r \in Callers, ReadPrefs(r) PROVE PrefsInv'
  BY <1>9, ReadPrefsPrefs
<1>10. ASSUME NEW r \in Callers, Swap(r) PROVE PrefsInv'
  BY <1>10, SwapPrefs
<1>11. ASSUME NEW r \in Callers, Serialize(r) PROVE PrefsInv'
  BY <1>11, SerializePrefs
<1>12. ASSUME NEW r \in Callers, Truncate(r) PROVE PrefsInv'
  BY <1>12, TruncatePrefs
<1>13. ASSUME NEW r \in Callers, Write(r) PROVE PrefsInv'
  BY <1>13, WritePrefs
<1>14. ASSUME NEW r \in Callers, Name(r) PROVE PrefsInv'
  BY <1>14, NamePrefs
<1>15. ASSUME NEW r \in Callers, Look(r) PROVE PrefsInv'
  BY <1>15, LookPrefs
<1>16. ASSUME NEW r \in Callers, Display(r) PROVE PrefsInv'
  BY <1>16, DisplayPrefs
<1>17. CASE UNCHANGED hostVars
  BY <1>17, QuietKeeps DEF hostVars, PrefsInv, PrefsComplete, Up, Active
<1>. QED
  BY <1>1, <1>2, <1>3, <1>4, <1>5, <1>6, <1>7, <1>8, <1>9, <1>10, <1>11, <1>12, <1>13, <1>14,
     <1>15, <1>16,
     <1>17 DEF HostNext

\* Once the lock is free the file is whole and says what was chosen.
LEMMA SettledIsKept == HostTypeOK /\ PrefsInv => PreferencesKept
<1> SUFFICES ASSUME HostTypeOK, PrefsInv, Settled PROVE PreferencesKept
  BY DEF PreferencesKept
<1>1. Up /\ ~locked /\ prefsFile.is = "whole" /\ running \in Engines
  BY UpTyped DEF Settled, PrefsInv, LockedWhileCutOff
<1>2. prefsFile \in [is : {"whole"}, data : [value : Preferred, has : SUBSET Sections]]
  BY <1>1 DEF HostTypeOK, PrefsFiles, Missing, Blank, Torn
<1>3. prefsFile = Whole([value |-> prefsFile.data.value, has |-> prefsFile.data.has])
  BY <1>2 DEF Whole
<1>4. ASSUME ~lost PROVE running.prefs.value = chosen /\ prefsFile.data.value = chosen
  BY <1>1, <1>4 DEF PrefsInv, ChoiceKept, PrefsOf
<1> DEFINE e == [running EXCEPT !.prefs.has = prefsFile.data.has]
<1>5. e.prefs.value = running.prefs.value /\ e.prefs.has = prefsFile.data.has
  BY <1>1 DEF Engines, Prefs
<1> HIDE DEF e
<1>6. Saved(e) = Whole([value |-> running.prefs.value, has |-> prefsFile.data.has])
  BY <1>5 DEF Saved
<1>7. ~lost => prefsFile = Saved(e)
  BY <1>3, <1>4, <1>6
<1>8. running.prefs.from # Trimmed => running.prefs.has = Sections
  BY <1>1 DEF PrefsInv, PrefsComplete, Complete, Kept, BegunFirst, Completed, Trimmed, Sections
<1>. QED
  BY <1>4, <1>7, <1>8 DEF PreferencesKept, e

---------------------------------------------------------------------------

(* Every reachable state is typed, and every request follows the route its   *)
(* kind takes, with no request and no lock in a process that is down.        *)
THEOREM HostTyped == HostSpec => [](HostTypeOK /\ HostInv)
<1>1. HostInit => HostTypeOK /\ HostInv
  BY HostTypeInit, HostInvInit
<1>2. HostTypeOK /\ HostInv /\ [HostNext]_hostVars => (HostTypeOK /\ HostInv)'
  BY HostTypeStep, HostInvStep DEF HostInv
<1>. QED
  BY <1>1, <1>2, PTL DEF HostSpec

(* When every request has been answered the clients are shown the live       *)
(* engine, unless its preparation failed, and, unless requests overlapped    *)
(* since, the path of the file it was read from or saved to, which still     *)
(* holds it: project_host.rs and the project routes of ui_server.rs.         *)
THEOREM HostSettlesCorrect == HostSpec => []HostSettles
<1>1. HostTypeOK /\ HostInv => HostSettles
  BY SettledIsTold
<1>. QED
  BY <1>1, HostTyped, PTL

(* The preference last set is the one the live engine has and the one in the *)
(* file, and the tree is whole, across new, loaded and recovered projects    *)
(* and restarts: app.rs save_preferences_after_success and                   *)
(* ensure_preferences_tree.                                                  *)
THEOREM PreferencesKeptCorrect == HostSpec => []PreferencesKept
<1>1. HostInit => PrefsInv
  BY PrefsInvInit
<1>2. (HostTypeOK /\ HostInv) /\ (HostTypeOK /\ HostInv)' /\ PrefsInv /\ [HostNext]_hostVars => PrefsInv'
  BY PrefsInvStep
<1>3. (HostTypeOK /\ HostInv) /\ PrefsInv => PreferencesKept
  BY SettledIsKept
<1>. QED
  BY <1>1, <1>2, <1>3, HostTyped, PTL DEF HostSpec

-----------------------------------------------------------------------------
(* Scripts.                                                                *)

USE ScriptsAssumption

-----------------------------------------------------------------------------
(* Types.                                                                   *)

ListenEdit == [op : {"listen", "unlisten"}, on : Targets, arg : Levels]
KidEdit == [op : {"add", "remove"}, on : Keys, arg : {None}]
MoveEdit == [op : {"move"}, on : Keys, arg : Keys \cup {None}]
AskEdit == [op : {"reevaluate"}, on : {None}, arg : {None}]
ScriptEdit == ListenEdit \cup KidEdit \cup MoveEdit \cup AskEdit

Stamps == [text : Texts, same : BOOLEAN]
KidStates == [Keys -> {"absent", "in", "out"}]
Listening == [on : Targets, level : Levels]
Recorded == [Targets -> Levels \cup {None}]

ScriptTyped ==
    /\ {inProject, scriptEnabled, reload, dirty, unseen, torn} \subseteq BOOLEAN
    /\ config \in Configs
    /\ file \in Texts \cup {None}
    /\ runtime \in Texts \cup {None}
    /\ stamp \in Stamps \cup {None}
    /\ managed \in SUBSET Keys
    /\ declared \in Seq(Keys)
    /\ record \in Recorded
    /\ queue \in Seq(ScriptEdit)
    /\ index \in SUBSET Listening
    /\ present \in SUBSET Targets
    /\ kids \in KidStates
    /\ unheard \in SUBSET Targets
    /\ excused \in SUBSET Keys

-----------------------------------------------------------------------------
(* What the runtime, the stamp and the schedule know of the source.         *)

FollowInv ==
    /\ runtime # None /\ stamp # None => stamp.text = runtime
    /\ stamp # None /\ stamp.same /\ config.kind = "file" /\ ~torn /\ ~unseen => file = stamp.text
    /\ config.kind = "inline" /\ ~unseen /\ runtime # None /\ ~reload => runtime = config.text
    /\ inProject /\ scriptEnabled /\ ~dirty /\ rule = "passive" /\ ~unseen
           => runtime # None /\ config.kind = "inline" /\ runtime = config.text

-----------------------------------------------------------------------------
(* What a queue makes of a fact that one edit establishes and another ends. *)

Lasting(q, on, off, was) ==
    \/ \E i \in DOMAIN q : q[i] = on /\ \A j \in DOMAIN q : j > i => q[j] # off
    \/ was /\ \A j \in DOMAIN q : q[j] # off

HeardOf(q, idx, t, l) ==
    Lasting(q, Edit("listen", t, l), Edit("unlisten", t, l), [on |-> t, level |-> l] \in idx)

There(q, ks, k) == Lasting(q, Edit("add", k, None), Edit("remove", k, None), ks[k] = "in")

\* Every move goes behind the child the edit before it moves.
Linked(q) ==
    \A i \in DOMAIN q : q[i].op = "move" /\ q[i].arg # None =>
        i > 1 /\ q[i - 1].op = "move" /\ q[i - 1].on = q[i].arg

\* Once the queue is applied, the listeners are those on record and the children
\* those of the last load that succeeded.
UpkeepInv ==
    /\ \A t \in Targets \ unheard, l \in Levels : HeardOf(queue, index, t, l) <=> record[t] = l
    /\ \A k \in Keys \ excused : There(queue, kids, k) <=> k \in managed
    /\ runtime # None => managed = ToSet(runtime.keys)
    /\ Linked(queue)
    /\ \A k \in Keys : kids[k] = "out" => \E j \in Keys : j.home # k.home

-----------------------------------------------------------------------------
(* Queues.                                                                  *)

LEMMA LastingJoined ==
    ASSUME NEW E, NEW q \in Seq(E), NEW x \in Seq(E), NEW on, NEW off, NEW was \in BOOLEAN
    PROVE  Lasting(q \o x, on, off, was) <=> Lasting(x, on, off, Lasting(q, on, off, was))
<1> DEFINE m == Len(q)
           n == Len(x)
           s == q \o x
           mid == Lasting(q, on, off, was)
<1>1. m \in Nat /\ n \in Nat /\ DOMAIN q = 1..m /\ DOMAIN x = 1..n /\ DOMAIN s = 1..(m + n)
  OBVIOUS
<1>2. \A i \in 1..m : s[i] = q[i]
  OBVIOUS
<1>3. \A i \in 1..n : s[m + i] = x[i] /\ m + i \in 1..(m + n) /\ m + i > m
  OBVIOUS
<1>4. \A i \in 1..(m + n) : i \in 1..m \/ (i > m /\ i - m \in 1..n /\ s[i] = x[i - m] /\ i = m + (i - m))
  BY <1>1, <1>3
<1>5. mid <=> \/ \E i \in 1..m : q[i] = on /\ \A j \in 1..m : j > i => q[j] # off
              \/ was /\ \A j \in 1..m : q[j] # off
  BY <1>1 DEF Lasting
<1>6. Lasting(s, on, off, was) <=>
         \/ \E i \in 1..(m + n) : s[i] = on /\ \A j \in 1..(m + n) : j > i => s[j] # off
         \/ was /\ \A j \in 1..(m + n) : s[j] # off
  BY <1>1 DEF Lasting
<1>7. Lasting(x, on, off, mid) <=>
         \/ \E i \in 1..n : x[i] = on /\ \A j \in 1..n : j > i => x[j] # off
         \/ mid /\ \A j \in 1..n : x[j] # off
  BY <1>1 DEF Lasting
<1> HIDE DEF m, n, s, mid
<1>8. (\A j \in 1..(m + n) : s[j] # off) <=> (\A j \in 1..m : q[j] # off) /\ (\A j \in 1..n : x[j] # off)
  <2>1. \A j \in 1..m : j \in 1..(m + n)
    BY <1>1
  <2>. QED
    BY <1>2, <1>3, <1>4, <2>1
<1>9. ASSUME NEW i \in 1..m
      PROVE  (\A j \in 1..(m + n) : j > i => s[j] # off)
                <=> (\A j \in 1..m : j > i => q[j] # off) /\ (\A j \in 1..n : x[j] # off)
  <2>1. \A j \in 1..m : j \in 1..(m + n)
    BY <1>1
  <2>2. \A j \in 1..n : m + j > i
    BY <1>1
  <2>. QED
    BY <1>2, <1>3, <1>4, <2>1, <2>2
<1>10. ASSUME NEW i \in 1..n
       PROVE  (\A j \in 1..(m + n) : j > m + i => s[j] # off) <=> (\A j \in 1..n : j > i => x[j] # off)
  <2>1. \A j \in 1..n : j > i <=> m + j > m + i
    BY <1>1
  <2>2. \A j \in 1..m : ~(j > m + i)
    BY <1>1
  <2>. QED
    BY <1>1, <1>3, <1>4, <2>1, <2>2
<1>11. \A i \in 1..m : i \in 1..(m + n)
  BY <1>1
<1>12. (\E i \in 1..(m + n) : s[i] = on /\ \A j \in 1..(m + n) : j > i => s[j] # off)
         <=> \/ \E i \in 1..m : s[i] = on /\ \A j \in 1..(m + n) : j > i => s[j] # off
             \/ \E i \in 1..n : s[m + i] = on /\ \A j \in 1..(m + n) : j > m + i => s[j] # off
  BY <1>3, <1>4, <1>11
<1>13. (\E i \in 1..m : s[i] = on /\ \A j \in 1..(m + n) : j > i => s[j] # off)
         <=> (\E i \in 1..m : q[i] = on /\ \A j \in 1..m : j > i => q[j] # off) /\ (\A j \in 1..n : x[j] # off)
  BY <1>2, <1>9
<1>14. (\E i \in 1..n : s[m + i] = on /\ \A j \in 1..(m + n) : j > m + i => s[j] # off)
         <=> (\E i \in 1..n : x[i] = on /\ \A j \in 1..n : j > i => x[j] # off)
  BY <1>3, <1>10
<1>. QED
  BY <1>5, <1>6, <1>7, <1>8, <1>12, <1>13, <1>14 DEF m, n, s, mid

LEMMA LastingUntouched ==
    ASSUME NEW x, NEW on, NEW off, NEW was \in BOOLEAN, \A i \in DOMAIN x : x[i] # on /\ x[i] # off
    PROVE  Lasting(x, on, off, was) <=> was
BY DEF Lasting

LEMMA LastingAppended ==
    ASSUME NEW E, NEW q \in Seq(E), NEW e \in E, NEW on, NEW off, on # off, NEW was \in BOOLEAN
    PROVE  Lasting(Append(q, e), on, off, was) <=> e = on \/ (Lasting(q, on, off, was) /\ e # off)
<1>1. <<e>> \in Seq(E) /\ DOMAIN <<e>> = {1} /\ <<e>>[1] = e /\ Append(q, e) = q \o <<e>>
  OBVIOUS
<1> DEFINE mid == Lasting(q, on, off, was)
<1>2. Lasting(<<e>>, on, off, mid) <=>
         \/ \E i \in {1} : <<e>>[i] = on /\ \A j \in {1} : j > i => <<e>>[j] # off
         \/ mid /\ \A j \in {1} : <<e>>[j] # off
  BY <1>1 DEF Lasting
<1>3. Lasting(<<e>>, on, off, mid) <=> e = on \/ (mid /\ e # off)
  BY <1>1, <1>2
<1>4. Lasting(q \o <<e>>, on, off, was) <=> Lasting(<<e>>, on, off, mid)
  BY <1>1, LastingJoined
<1>. QED
  BY <1>1, <1>3, <1>4

LEMMA LinkedJoined ==
    ASSUME NEW E, NEW q \in Seq(E), NEW x \in Seq(E), Linked(q), Linked(x)
    PROVE  Linked(q \o x)
<1> DEFINE m == Len(q)
           n == Len(x)
           s == q \o x
<1>1. m \in Nat /\ n \in Nat /\ DOMAIN q = 1..m /\ DOMAIN x = 1..n /\ DOMAIN s = 1..(m + n)
  OBVIOUS
<1>2. \A i \in 1..m : s[i] = q[i]
  OBVIOUS
<1>3. \A i \in 1..n : s[m + i] = x[i]
  OBVIOUS
<1>4. \A i \in 1..(m + n) : i \in 1..m \/ (i - m \in 1..n /\ i = m + (i - m))
  BY <1>1
<1> SUFFICES ASSUME NEW i \in 1..(m + n), s[i].op = "move", s[i].arg # None
             PROVE  i > 1 /\ s[i - 1].op = "move" /\ s[i - 1].on = s[i].arg
  BY <1>1 DEF Linked
<1> HIDE DEF m, n, s
<1>5. CASE i \in 1..m
  <2>1. i > 1 /\ q[i - 1].op = "move" /\ q[i - 1].on = q[i].arg
    BY <1>1, <1>2, <1>5 DEF Linked
  <2>2. i - 1 \in 1..m
    BY <1>1, <1>5, <2>1
  <2>. QED
    BY <1>2, <1>5, <2>1, <2>2
<1>6. CASE i - m \in 1..n
  <2> DEFINE p == i - m
  <2>1. p \in 1..n /\ s[i] = x[p] /\ i = m + p
    BY <1>1, <1>3, <1>4, <1>6
  <2> HIDE DEF p
  <2>2. p > 1 /\ x[p - 1].op = "move" /\ x[p - 1].on = x[p].arg
    BY <1>1, <2>1 DEF Linked
  <2>3. p - 1 \in 1..n /\ i - 1 = m + (p - 1) /\ i > 1
    BY <1>1, <2>1, <2>2
  <2>4. s[i - 1] = x[p - 1]
    BY <1>3, <2>3
  <2>. QED
    BY <2>1, <2>2, <2>3, <2>4
<1>. QED
  BY <1>4, <1>5, <1>6

-----------------------------------------------------------------------------
(* What callbacks ask for.                                                  *)

Hosts == [rec : Recorded, q : Seq(ScriptEdit)]

InStep(s) ==
    \A t \in Targets \ unheard, l \in Levels : HeardOf(s.q, index, t, l) <=> s.rec[t] = l

\* The queue of r is that of s with edits about listeners behind it.
Longer(s, r) == \E x \in Seq(ListenEdit) : r.q = s.q \o x

LEMMA HeardJoined ==
    ASSUME NEW q \in Seq(ScriptEdit), NEW x \in Seq(ScriptEdit), NEW idx, NEW t, NEW l
    PROVE  HeardOf(q \o x, idx, t, l) <=>
              Lasting(x, Edit("listen", t, l), Edit("unlisten", t, l), HeardOf(q, idx, t, l))
<1> DEFINE was == [on |-> t, level |-> l] \in idx
<1>1. was \in BOOLEAN
  OBVIOUS
<1> HIDE DEF was
<1>2. Lasting(q \o x, Edit("listen", t, l), Edit("unlisten", t, l), was) <=>
         Lasting(x, Edit("listen", t, l), Edit("unlisten", t, l),
                 Lasting(q, Edit("listen", t, l), Edit("unlisten", t, l), was))
  BY <1>1, LastingJoined
<1>. QED
  BY <1>2 DEF HeardOf, was

LEMMA HeardAppended ==
    ASSUME NEW q \in Seq(ScriptEdit), NEW e \in ScriptEdit, NEW idx, NEW t, NEW l
    PROVE  HeardOf(Append(q, e), idx, t, l) <=>
              e = Edit("listen", t, l) \/ (HeardOf(q, idx, t, l) /\ e # Edit("unlisten", t, l))
<1> DEFINE was == [on |-> t, level |-> l] \in idx
<1>1. was \in BOOLEAN
  OBVIOUS
<1>2. Edit("listen", t, l) # Edit("unlisten", t, l)
  BY DEF Edit
<1> HIDE DEF was
<1>3. Lasting(Append(q, e), Edit("listen", t, l), Edit("unlisten", t, l), was) <=>
         \/ e = Edit("listen", t, l)
         \/ Lasting(q, Edit("listen", t, l), Edit("unlisten", t, l), was) /\ e # Edit("unlisten", t, l)
  BY <1>1, <1>2, LastingAppended
<1>. QED
  BY <1>3 DEF HeardOf, was

LEMMA HostIs ==
    ASSUME NEW a \in Recorded, NEW q \in Seq(ScriptEdit)
    PROVE  [rec |-> a, q |-> q] \in Hosts
BY DEF Hosts

LEMMA ListenQueues ==
    ASSUME NEW q \in Seq(ScriptEdit), NEW x \in Seq(ListenEdit)
    PROVE  q \o x \in Seq(ScriptEdit) /\ x \in Seq(ScriptEdit)
<1>1. x \in Seq(ScriptEdit)
  <2>1. Len(x) \in Nat /\ DOMAIN x = 1..Len(x) /\ \A i \in 1..Len(x) : x[i] \in ScriptEdit
    BY DEF ScriptEdit
  <2>. QED
    BY <2>1
<1>. QED
  BY <1>1

LEMMA ListensAre ==
    ASSUME NEW t \in Targets, NEW l \in Levels
    PROVE  Edit("listen", t, l) \in ListenEdit /\ Edit("unlisten", t, l) \in ListenEdit
BY DEF Edit, ListenEdit

LEMMA LongerSelf == ASSUME NEW s \in Hosts PROVE Longer(s, s)
<1>1. s.q \in Seq(ScriptEdit) /\ <<>> \in Seq(ListenEdit)
  BY DEF Hosts
<1>2. s.q \o <<>> = s.q
  BY <1>1
<1>. QED
  BY <1>1, <1>2 DEF Longer

LEMMA UnlistenKeeps ==
    ASSUME NEW s \in Hosts, NEW t \in Targets
    PROVE  /\ Unlisten(s, t) \in Hosts /\ Longer(s, Unlisten(s, t))
           /\ InStep(s) => InStep(Unlisten(s, t))
<1> DEFINE r == Unlisten(s, t)
           e == Edit("unlisten", t, s.rec[t])
<1>1. s.q \in Seq(ScriptEdit) /\ s.rec \in Recorded
  BY DEF Hosts
<1>2. r.rec = [s.rec EXCEPT ![t] = None] /\ r.q = s.q \o Drop(s.rec, t)
  BY DEF Unlisten
<1>3. r.rec \in Recorded /\ r.rec[t] = None /\ \A u \in Targets \ {t} : r.rec[u] = s.rec[u]
  BY <1>1, <1>2 DEF Recorded
<1>4. CASE s.rec[t] = None
  <2>1. r.q = s.q /\ <<>> \in Seq(ListenEdit) /\ r.q = s.q \o <<>>
    BY <1>1, <1>2, <1>4 DEF Drop
  <2>2. r \in Hosts
    BY <1>1, <1>3, <2>1 DEF Unlisten, Hosts
  <2>3. Longer(s, r)
    BY <2>1 DEF Longer
  <2>4. \A u \in Targets : r.rec[u] = s.rec[u]
    BY <1>3, <1>4
  <2>. QED
    BY <2>1, <2>2, <2>3, <2>4 DEF InStep
<1>5. CASE s.rec[t] # None
  <2>1. s.rec[t] \in Levels
    BY <1>1, <1>5 DEF Recorded
  <2>2. e \in ListenEdit /\ e \in ScriptEdit /\ <<e>> \in Seq(ListenEdit)
    BY <2>1, ListensAre DEF ScriptEdit
  <2>3. r.q = s.q \o <<e>> /\ s.q \o <<e>> = Append(s.q, e)
    BY <1>1, <1>2, <1>5 DEF Drop
  <2>a. r.q \in Seq(ScriptEdit) /\ r = [rec |-> r.rec, q |-> r.q]
    BY <1>1, <2>2, <2>3, ListenQueues DEF Unlisten
  <2>4. r \in Hosts /\ Longer(s, r)
    <3>1. [rec |-> r.rec, q |-> r.q] \in Hosts
      BY <1>3, <2>a, HostIs
    <3>. QED
      BY <2>2, <2>3, <2>a, <3>1 DEF Longer
  <2>5. ASSUME InStep(s), NEW u \in Targets \ unheard, NEW l \in Levels
        PROVE  HeardOf(r.q, index, u, l) <=> r.rec[u] = l
    <3>1. HeardOf(s.q, index, u, l) <=> s.rec[u] = l
      BY <2>5 DEF InStep
    <3>2. Edit("listen", u, l) # Edit("unlisten", u, l) /\ e # Edit("listen", u, l)
      BY DEF Edit
    <3>3. e = Edit("unlisten", u, l) <=> u = t /\ l = s.rec[t]
      BY DEF Edit
    <3>4. HeardOf(Append(s.q, e), index, u, l) <=>
             e = Edit("listen", u, l) \/ (HeardOf(s.q, index, u, l) /\ e # Edit("unlisten", u, l))
      BY <1>1, <2>2, HeardAppended
    <3>5. HeardOf(r.q, index, u, l) <=> s.rec[u] = l /\ u # t
      BY <2>3, <3>1, <3>2, <3>3, <3>4
    <3>. QED
      BY <1>3, <3>5
  <2>. QED
    BY <2>4, <2>5 DEF InStep
<1>. QED
  BY <1>4, <1>5

LEMMA LongerTwice ==
    ASSUME NEW s \in Hosts, NEW r \in Hosts, NEW u \in Hosts, Longer(s, r), Longer(r, u)
    PROVE  Longer(s, u)
<1>1. PICK x \in Seq(ListenEdit) : r.q = s.q \o x
  BY DEF Longer
<1>2. PICK y \in Seq(ListenEdit) : u.q = r.q \o y
  BY DEF Longer
<1>3. s.q \in Seq(ScriptEdit) /\ x \in Seq(ScriptEdit) /\ y \in Seq(ScriptEdit)
  BY ListenQueues DEF Hosts
<1>4. (s.q \o x) \o y = s.q \o (x \o y)
  <2> DEFINE a == s.q
  <2>1. a \in Seq(ScriptEdit)
    BY <1>3
  <2> HIDE DEF a
  <2>2. (a \o x) \o y = a \o (x \o y)
    BY <1>3, <2>1
  <2>. QED
    BY <2>2 DEF a
<1>5. x \o y \in Seq(ListenEdit)
  OBVIOUS
<1>. QED
  BY <1>1, <1>2, <1>4, <1>5 DEF Longer

LEMMA ListenKeeps ==
    ASSUME NEW s \in Hosts, NEW t \in Targets, NEW level \in Levels
    PROVE  /\ Listen(s, t, level) \in Hosts /\ Longer(s, Listen(s, t, level))
           /\ InStep(s) => InStep(Listen(s, t, level))
<1>1. CASE s.rec[t] = level
  BY <1>1, LongerSelf DEF Listen
<1>2. CASE s.rec[t] # level
  <2> DEFINE b == Unlisten(s, t)
             r == Listen(s, t, level)
             e == Edit("listen", t, level)
  <2>1. b \in Hosts /\ Longer(s, b) /\ (InStep(s) => InStep(b))
    BY UnlistenKeeps
  <2>2. b.q = s.q \o Drop(s.rec, t) /\ b.rec = [s.rec EXCEPT ![t] = None]
    BY DEF Unlisten
  <2>3. s.q \in Seq(ScriptEdit) /\ s.rec \in Recorded /\ b.q \in Seq(ScriptEdit) /\ b.rec \in Recorded
    BY <2>1 DEF Hosts
  <2>4. e \in ListenEdit /\ e \in ScriptEdit /\ <<e>> \in Seq(ListenEdit)
    BY ListensAre DEF ScriptEdit
  <2>5. b.q \in Seq(ScriptEdit) /\ b.q \o <<e>> = Append(b.q, e)
    <3> HIDE DEF b, e
    <3>. QED
      BY <2>3, <2>4
  <2>x. r = [rec |-> [s.rec EXCEPT ![t] = level], q |-> s.q \o Drop(s.rec, t) \o <<e>>]
    BY <1>2 DEF Listen
  <2>6. r.q = b.q \o <<e>> /\ b.q \o <<e>> = Append(b.q, e)
    <3>1. r.q = (s.q \o Drop(s.rec, t)) \o <<e>>
      <4> DEFINE d == Drop(s.rec, t)
                 new == [s.rec EXCEPT ![t] = level]
      <4>1. r = [rec |-> new, q |-> (s.q \o d) \o <<e>>]
        BY <2>x
      <4> HIDE DEF r, d, new, e
      <4>2. r.q = (s.q \o d) \o <<e>>
        BY <4>1
      <4>. QED
        BY <4>2 DEF d
    <3>. QED
      BY <2>2, <2>5, <3>1, Zenon
  <2>7. r.rec \in Recorded /\ r.rec[t] = level /\ \A u \in Targets \ {t} : r.rec[u] = b.rec[u]
    BY <2>2, <2>3, <2>x DEF Recorded
  <2>8. r \in Hosts
    <3>1. r.q \in Seq(ScriptEdit) /\ r = [rec |-> r.rec, q |-> r.q]
      BY <2>3, <2>4, <2>x, <2>6, ListenQueues
    <3>. QED
      BY <2>7, <3>1, HostIs
  <2>9. Longer(b, r)
    BY <2>4, <2>6 DEF Longer
  <2>10. ASSUME InStep(s), NEW u \in Targets \ unheard, NEW l \in Levels
         PROVE  HeardOf(r.q, index, u, l) <=> r.rec[u] = l
    <3>1. HeardOf(b.q, index, u, l) <=> b.rec[u] = l
      BY <2>1, <2>10 DEF InStep
    <3>2. Edit("listen", u, l) # Edit("unlisten", u, l) /\ e # Edit("unlisten", u, l)
      BY DEF Edit
    <3>3. e = Edit("listen", u, l) <=> u = t /\ l = level
      BY DEF Edit
    <3>4. HeardOf(Append(b.q, e), index, u, l) <=>
             e = Edit("listen", u, l) \/ (HeardOf(b.q, index, u, l) /\ e # Edit("unlisten", u, l))
      BY <2>3, <2>4, HeardAppended
    <3>5. HeardOf(r.q, index, u, l) <=> (u = t /\ l = level) \/ b.rec[u] = l
      BY <2>6, <3>1, <3>2, <3>3, <3>4
    <3>6. b.rec[t] = None /\ l # None
      BY <2>2, <2>3 DEF Recorded
    <3>. QED
      BY <2>7, <3>5, <3>6
  <2>. QED
    BY <2>1, <2>8, <2>9, <2>10, LongerTwice DEF InStep
<1>. QED
  BY <1>1, <1>2

\* Every element of a finite set has a place in its sequence.
LEMMA Sequenced ==
    ASSUME NEW S, IsFiniteSet(S)
    PROVE  SetToSeq(S) \in Seq(S) /\ \A x \in S : \E i \in DOMAIN SetToSeq(S) : SetToSeq(S)[i] = x
<1> DEFINE n == Cardinality(S)
           f == SetToSeq(S)
<1>1. n \in Nat /\ ExistsBijection(1..n, S) /\ IsFiniteSet(1..n) /\ Cardinality(1..n) = n
  BY FS_CardinalityType, FS_Interval
<1>2. \E g \in [1..n -> S] : IsInjective(g)
  BY <1>1 DEF ExistsBijection, Bijection, Injection
<1>3. f \in [1..n -> S] /\ IsInjective(f)
  BY <1>2 DEF SetToSeq
<1>4. f \in Injection(1..n, S)
  BY <1>3 DEF Injection
<1>5. f \in Surjection(1..n, S)
  BY <1>1, <1>4, FS_Injection
<1>. QED
  BY <1>1, <1>3, <1>5 DEF Surjection

LEMMA ClearKeeps ==
    ASSUME NEW s \in Hosts
    PROVE  /\ ClearListeners(s) \in Hosts /\ Longer(s, ClearListeners(s))
           /\ InStep(s) => InStep(ClearListeners(s))
<1> DEFINE S == {t \in Targets : s.rec[t] # None}
           on == SetToSeq(S)
           x == [i \in DOMAIN on |-> Edit("unlisten", on[i], s.rec[on[i]])]
           r == ClearListeners(s)
<1>1. s.q \in Seq(ScriptEdit) /\ s.rec \in Recorded /\ \A t \in S : s.rec[t] \in Levels
  BY DEF Hosts, Recorded
<1>2. IsFiniteSet(S)
  BY FS_Subset
<1> HIDE DEF S
<1>3. on \in Seq(S) /\ \A t \in S : \E i \in DOMAIN on : on[i] = t
  BY <1>2, Sequenced
<1>4. r = [rec |-> [t \in Targets |-> None], q |-> s.q \o x]
  BY DEF ClearListeners, S
<1> HIDE DEF on, r
<1>5. \A i \in DOMAIN on : on[i] \in S /\ x[i] = Edit("unlisten", on[i], s.rec[on[i]]) /\ x[i] \in ListenEdit
  BY <1>1, <1>3, ListensAre DEF S
<1>6. DOMAIN x = DOMAIN on /\ x \in Seq(ListenEdit)
  BY <1>3, <1>5
<1> HIDE DEF x
<1>7. r.rec \in Recorded /\ r.q = s.q \o x /\ r.q \in Seq(ScriptEdit) /\ x \in Seq(ScriptEdit)
  BY <1>1, <1>4, <1>6, ListenQueues DEF Recorded
<1>8. r \in Hosts /\ Longer(s, r)
  <2>1. r = [rec |-> r.rec, q |-> r.q]
    BY <1>4
  <2>. QED
    BY <1>6, <1>7, <2>1, HostIs DEF Longer
<1>9. ASSUME InStep(s), NEW t \in Targets \ unheard, NEW l \in Levels
      PROVE  HeardOf(r.q, index, t, l) <=> r.rec[t] = l
  <2> DEFINE mid == HeardOf(s.q, index, t, l)
  <2>1. mid <=> s.rec[t] = l
    BY <1>9 DEF InStep
  <2>2. HeardOf(r.q, index, t, l) <=> Lasting(x, Edit("listen", t, l), Edit("unlisten", t, l), mid)
    BY <1>1, <1>7, HeardJoined
  <2>3. \A i \in DOMAIN x : x[i] # Edit("listen", t, l)
    BY <1>5, <1>6 DEF Edit
  <2>4. ASSUME s.rec[t] = l PROVE \E i \in DOMAIN x : x[i] = Edit("unlisten", t, l)
    <3>1. t \in S
      BY <2>4 DEF S
    <3>. QED
      BY <1>3, <1>5, <1>6, <2>4, <3>1
  <2>5. ~HeardOf(r.q, index, t, l)
    BY <2>1, <2>2, <2>3, <2>4 DEF Lasting
  <2>. QED
    BY <1>4, <2>5
<1>. QED
  BY <1>8, <1>9 DEF InStep, r

LEMMA FlushKeeps ==
    ASSUME NEW s \in Hosts, NEW call \in HostCalls
    PROVE  /\ Flush(s, call) \in Hosts /\ Longer(s, Flush(s, call))
           /\ InStep(s) => InStep(Flush(s, call))
<1>1. CASE call = <<"none">>
  BY <1>1, LongerSelf DEF Flush
<1>2. CASE call = <<"clear">>
  BY <1>2, ClearKeeps DEF Flush
<1>3. ASSUME NEW t \in Targets, NEW l \in Levels, call = <<"listen", t, l>>
      PROVE  Flush(s, call) = Listen(s, t, l)
  BY <1>3 DEF Flush
<1>4. ASSUME NEW t \in Targets, call = <<"unlisten", t>>
      PROVE  Flush(s, call) = Unlisten(s, t)
  BY <1>4 DEF Flush
<1>5. CASE \E t \in Targets, l \in Levels : call = <<"listen", t, l>>
  BY <1>3, <1>5, ListenKeeps
<1>6. CASE \E t \in Targets : call = <<"unlisten", t>>
  BY <1>4, <1>6, UnlistenKeeps
<1>. QED
  BY <1>1, <1>2, <1>5, <1>6 DEF HostCalls

-----------------------------------------------------------------------------
(* What a load asks for.                                                    *)

QuietEdit == KidEdit \cup MoveEdit \cup AskEdit

LEMMA QuietQueues ==
    ASSUME NEW x \in Seq(QuietEdit)
    PROVE  x \in Seq(ScriptEdit) /\ \A i \in DOMAIN x : x[i].op # "listen" /\ x[i].op # "unlisten"
<1>1. Len(x) \in Nat /\ DOMAIN x = 1..Len(x) /\ \A i \in 1..Len(x) : x[i] \in QuietEdit
  OBVIOUS
<1>2. QuietEdit \subseteq ScriptEdit /\ \A e \in QuietEdit : e.op # "listen" /\ e.op # "unlisten"
  BY DEF QuietEdit, ScriptEdit, KidEdit, MoveEdit, AskEdit
<1>3. \A i \in 1..Len(x) : x[i] \in ScriptEdit
  BY <1>1, <1>2
<1>. QED
  BY <1>1, <1>2, <1>3

LEMMA RecordKept ==
    ASSUME NEW s \in Hosts, NEW x \in Seq(QuietEdit)
    PROVE  /\ [s EXCEPT !.q = s.q \o x] \in Hosts
           /\ InStep(s) => InStep([s EXCEPT !.q = s.q \o x])
<1> DEFINE r == [s EXCEPT !.q = s.q \o x]
<1>1. s.q \in Seq(ScriptEdit) /\ s.rec \in Recorded /\ x \in Seq(ScriptEdit)
  BY QuietQueues DEF Hosts
<1>2. r = [rec |-> s.rec, q |-> s.q \o x] /\ r.rec = s.rec /\ r.q = s.q \o x
  <2> DEFINE longer == s.q \o x
  <2> HIDE DEF longer
  <2>1. [s EXCEPT !.q = longer] = [rec |-> s.rec, q |-> longer]
    BY DEF Hosts
  <2>. QED
    BY <2>1 DEF longer
<1>3. s.q \o x \in Seq(ScriptEdit)
  BY <1>1, ConcatProperties
<1>4. r \in Hosts
  BY <1>1, <1>2, <1>3, HostIs
<1> HIDE DEF r
<1>5. ASSUME InStep(s), NEW t \in Targets \ unheard, NEW l \in Levels
      PROVE  HeardOf(r.q, index, t, l) <=> r.rec[t] = l
  <2> DEFINE mid == HeardOf(s.q, index, t, l)
  <2>1. HeardOf(s.q \o x, index, t, l) <=> Lasting(x, Edit("listen", t, l), Edit("unlisten", t, l), mid)
    BY <1>1, HeardJoined
  <2>2. \A i \in DOMAIN x : x[i] # Edit("listen", t, l) /\ x[i] # Edit("unlisten", t, l)
    BY QuietQueues DEF Edit
  <2>3. Lasting(x, Edit("listen", t, l), Edit("unlisten", t, l), mid) <=> mid
    BY <2>2 DEF Lasting
  <2>4. mid <=> s.rec[t] = l
    BY <1>5 DEF InStep
  <2>. QED
    BY <1>2, <2>1, <2>3, <2>4
<1>. QED
  BY <1>4, <1>5 DEF InStep, r

LEMMA ThereJoined ==
    ASSUME NEW q \in Seq(ScriptEdit), NEW x \in Seq(ScriptEdit), NEW ks, NEW k
    PROVE  There(q \o x, ks, k) <=>
              Lasting(x, Edit("add", k, None), Edit("remove", k, None), There(q, ks, k))
<1> DEFINE was == ks[k] = "in"
<1>1. was \in BOOLEAN
  OBVIOUS
<1> HIDE DEF was
<1>2. Lasting(q \o x, Edit("add", k, None), Edit("remove", k, None), was) <=>
         Lasting(x, Edit("add", k, None), Edit("remove", k, None),
                 Lasting(q, Edit("add", k, None), Edit("remove", k, None), was))
  BY <1>1, LastingJoined
<1>. QED
  BY <1>2 DEF There, was

LEMMA ThereLonger ==
    ASSUME NEW s \in Hosts, NEW r \in Hosts, Longer(s, r)
    PROVE  /\ \A ks, k : There(r.q, ks, k) <=> There(s.q, ks, k)
           /\ Linked(s.q) => Linked(r.q)
<1>1. PICK x \in Seq(ListenEdit) : r.q = s.q \o x
  BY DEF Longer
<1>2. s.q \in Seq(ScriptEdit) /\ x \in Seq(ScriptEdit)
  BY ListenQueues DEF Hosts
<1>3. Len(x) \in Nat /\ DOMAIN x = 1..Len(x) /\ \A i \in 1..Len(x) : x[i] \in ListenEdit
  OBVIOUS
<1>4. \A i \in DOMAIN x : x[i].op \in {"listen", "unlisten"}
  BY <1>3 DEF ListenEdit
<1>5. ASSUME NEW ks, NEW k PROVE There(r.q, ks, k) <=> There(s.q, ks, k)
  <2> DEFINE mid == There(s.q, ks, k)
  <2>1. \A i \in DOMAIN x : x[i] # Edit("add", k, None) /\ x[i] # Edit("remove", k, None)
    BY <1>4 DEF Edit
  <2>2. Lasting(x, Edit("add", k, None), Edit("remove", k, None), mid) <=> mid
    BY <2>1 DEF Lasting
  <2>3. There(s.q \o x, ks, k) <=> Lasting(x, Edit("add", k, None), Edit("remove", k, None), mid)
    BY <1>2, ThereJoined
  <2>. QED
    BY <1>1, <2>2, <2>3
<1>6. Linked(x)
  BY <1>4 DEF Linked
<1>7. Linked(s.q) => Linked(s.q \o x)
  BY <1>2, <1>6, LinkedJoined
<1>. QED
  BY <1>1, <1>5, <1>7

LEMMA DeclareIs ==
    ASSUME NEW keys \in Seq(Keys)
    PROVE  /\ Declare(keys) \in Seq(QuietEdit) /\ Linked(Declare(keys))
           /\ \A k, was : Lasting(Declare(keys), Edit("add", k, None), Edit("remove", k, None), was)
                             <=> (was \/ k \in ToSet(keys))
<1> DEFINE x == Declare(keys)
<1>1. Len(keys) \in Nat /\ DOMAIN keys = 1..Len(keys) /\ \A i \in 1..Len(keys) : keys[i] \in Keys
  OBVIOUS
<1>2. x = [i \in 1..Len(keys) |-> Edit("add", keys[i], None)]
  BY <1>1 DEF Declare
<1> HIDE DEF x
<1>3. \A i \in 1..Len(keys) : x[i] = Edit("add", keys[i], None) /\ x[i].op = "add" /\ x[i] \in QuietEdit
  BY <1>1, <1>2 DEF Edit, QuietEdit, KidEdit
<1>4. DOMAIN x = 1..Len(keys) /\ x \in Seq(QuietEdit)
  BY <1>1, <1>2, <1>3
<1>5. Linked(x)
  BY <1>3, <1>4 DEF Linked
<1>6. ASSUME NEW k, NEW was
      PROVE  Lasting(x, Edit("add", k, None), Edit("remove", k, None), was) <=> (was \/ k \in ToSet(keys))
  <2>1. \A i \in DOMAIN x : x[i] # Edit("remove", k, None)
    BY <1>3, <1>4 DEF Edit
  <2>2. \A i \in DOMAIN x : x[i] = Edit("add", k, None) <=> keys[i] = k
    BY <1>3, <1>4 DEF Edit
  <2>3. k \in ToSet(keys) <=> \E i \in DOMAIN x : keys[i] = k
    BY <1>1, <1>4 DEF ToSet
  <2>. QED
    BY <2>1, <2>2, <2>3 DEF Lasting
<1>. QED
  BY <1>4, <1>5, <1>6 DEF x

Stale(keys) == {k \in managed : kids[k] = "in"} \ ToSet(keys)

LEMMA SettleIs ==
    ASSUME managed \in SUBSET Keys, NEW keys
    PROVE  /\ Settle(keys) \in Seq(QuietEdit) /\ Linked(Settle(keys))
           /\ \A k, was : Lasting(Settle(keys), Edit("add", k, None), Edit("remove", k, None), was)
                             <=> (was /\ k \notin Stale(keys))
<1> DEFINE order == SetToSeq(Stale(keys))
           n == Len(order)
           r == Retire(keys)
           x == Settle(keys)
           last == Edit("reevaluate", None, None)
<1>1. IsFiniteSet(Stale(keys)) /\ Stale(keys) \subseteq Keys
  BY FS_Subset DEF Stale
<1>2. order \in Seq(Stale(keys)) /\ \A k \in Stale(keys) : \E i \in DOMAIN order : order[i] = k
  BY <1>1, Sequenced
<1>3. r = [i \in DOMAIN order |-> Edit("remove", order[i], None)]
  BY DEF Retire, Stale
<1>4. x = Append(r, last)
  BY DEF Settle
<1> HIDE DEF order, r, x
<1>5. n \in Nat /\ DOMAIN order = 1..n /\ \A i \in 1..n : order[i] \in Stale(keys)
  BY <1>2
<1> HIDE DEF n
<1>6. \A i \in 1..n : r[i] = Edit("remove", order[i], None) /\ r[i] \in QuietEdit
  BY <1>1, <1>3, <1>5 DEF Edit, QuietEdit, KidEdit
<1>7. last \in QuietEdit
  BY DEF Edit, QuietEdit, AskEdit
<1>8. r \in Seq(QuietEdit) /\ Len(r) = n
  BY <1>3, <1>5, <1>6
<1>9. x \in Seq(QuietEdit) /\ DOMAIN x = 1..(n + 1) /\ x[n + 1] = last /\ \A i \in 1..n : x[i] = r[i]
  BY <1>4, <1>5, <1>7, <1>8
<1>10. \A i \in 1..(n + 1) : i \in 1..n \/ i = n + 1
  BY <1>5
<1>11. \A i \in 1..(n + 1) : x[i].op # "move" /\ x[i].op # "add"
  <2>1. last.op = "reevaluate" /\ \A k : Edit("remove", k, None).op = "remove"
    BY DEF Edit
  <2>2. \A i \in 1..n : r[i].op = "remove"
    BY <1>6, <2>1
  <2> HIDE DEF last
  <2>. QED
    BY <1>9, <1>10, <2>1, <2>2
<1>12. Linked(x)
  BY <1>9, <1>11 DEF Linked
<1>13. ASSUME NEW k, NEW was
       PROVE  Lasting(x, Edit("add", k, None), Edit("remove", k, None), was) <=> (was /\ k \notin Stale(keys))
  <2>1. \A i \in DOMAIN x : x[i] # Edit("add", k, None)
    BY <1>9, <1>11 DEF Edit
  <2>2. ASSUME NEW i \in DOMAIN x, x[i] = Edit("remove", k, None) PROVE k \in Stale(keys)
    <3>1. i # n + 1
      BY <1>9, <2>2 DEF Edit
    <3>2. i \in 1..n /\ Edit("remove", order[i], None) = Edit("remove", k, None)
      BY <1>6, <1>9, <1>10, <2>2, <3>1
    <3>. QED
      BY <1>5, <3>2 DEF Edit
  <2>3. ASSUME k \in Stale(keys) PROVE \E i \in DOMAIN x : x[i] = Edit("remove", k, None)
    <3>1. PICK i \in 1..n : order[i] = k
      BY <1>2, <1>5, <2>3
    <3>2. i \in 1..(n + 1)
      BY <1>5
    <3>. QED
      BY <1>6, <1>9, <3>1, <3>2
  <2>. QED
    BY <2>1, <2>2, <2>3 DEF Lasting
<1>. QED
  BY <1>9, <1>12, <1>13 DEF x

-----------------------------------------------------------------------------
(* What an update asks for.                                                 *)

\* What Moves collects: every move goes behind the one before it.
Marches ==
    {a \in [q : Seq(QuietEdit), last : Keys \cup {None}] :
        /\ Linked(a.q)
        /\ \A i \in DOMAIN a.q : a.q[i].op = "move"
        /\ IF a.q = <<>> THEN a.last = None ELSE a.q[Len(a.q)].on = a.last}

March(a, k) ==
    IF kids[k] # "in" THEN a
    ELSE [q |-> Append(a.q, Edit("move", k, a.last)), last |-> k]

LEMMA MarchOn == ASSUME NEW a \in Marches, NEW k \in Keys PROVE March(a, k) \in Marches
<1> DEFINE e == Edit("move", k, a.last)
           r == Append(a.q, e)
           n == Len(a.q)
<1>1. a.q \in Seq(QuietEdit) /\ a.last \in Keys \cup {None} /\ Linked(a.q)
  BY DEF Marches
<1>2. \A i \in DOMAIN a.q : a.q[i].op = "move"
  BY DEF Marches
<1>3. IF a.q = <<>> THEN a.last = None ELSE a.q[n].on = a.last
  BY DEF Marches
<1>4. e \in QuietEdit /\ e.op = "move" /\ e.on = k /\ e.arg = a.last
  BY <1>1 DEF Edit, QuietEdit, MoveEdit
<1> HIDE DEF e
<1>5. n \in Nat /\ DOMAIN a.q = 1..n /\ (a.q = <<>> <=> n = 0)
  BY <1>1
<1>6. r \in Seq(QuietEdit) /\ Len(r) = n + 1 /\ DOMAIN r = 1..(n + 1) /\ r[n + 1] = e
      /\ \A i \in 1..n : r[i] = a.q[i]
  BY <1>1, <1>4
<1> DEFINE b == [q |-> r, last |-> k]
<1> HIDE DEF r, n
<1>7. \A i \in 1..(n + 1) : i \in 1..n \/ i = n + 1
  BY <1>5
<1>8. \A i \in 1..(n + 1) : r[i].op = "move"
  BY <1>2, <1>4, <1>5, <1>6, <1>7
<1>9. Linked(r)
  <2> SUFFICES ASSUME NEW i \in 1..(n + 1), r[i].arg # None
               PROVE  i > 1 /\ r[i - 1].op = "move" /\ r[i - 1].on = r[i].arg
    BY <1>6 DEF Linked
  <2>1. CASE i \in 1..n
    <3>1. i > 1 /\ a.q[i - 1].op = "move" /\ a.q[i - 1].on = a.q[i].arg
      BY <1>1, <1>2, <1>5, <1>6, <2>1 DEF Linked
    <3>2. i - 1 \in 1..n
      BY <1>5, <2>1, <3>1
    <3>. QED
      BY <1>6, <2>1, <3>1, <3>2
  <2>2. CASE i = n + 1
    <3>1. a.last # None
      BY <1>4, <1>6, <2>2
    <3>2. n # 0 /\ a.q[n].on = a.last
      BY <1>3, <1>5, <3>1
    <3>3. n \in 1..n /\ i - 1 = n /\ i > 1 /\ n \in 1..(n + 1)
      BY <1>5, <2>2, <3>2
    <3>. QED
      BY <1>4, <1>6, <1>8, <2>2, <3>2, <3>3
  <2>. QED
    BY <1>7, <2>1, <2>2
<1>10. r # <<>>
  BY <1>5, <1>6
<1>11. b \in Marches
  BY <1>4, <1>6, <1>8, <1>9, <1>10 DEF Marches
<1>. QED
  BY <1>11 DEF March, b, r, e

LEMMA MovesAre ==
    ASSUME NEW ks \in Seq(Keys)
    PROVE  Moves(ks) \in Seq(QuietEdit) /\ Linked(Moves(ks)) /\ \A i \in DOMAIN Moves(ks) : Moves(ks)[i].op = "move"
<1> DEFINE n == Len(ks)
           q == [q |-> <<>>, last |-> None]
           F == [i \in 1..n |-> [a \in Marches |-> March(a, ks[i])]]
           Sol(c) == c = [i \in 0..n |->
                            IF i = 0 THEN q
                            ELSE IF kids[ks[i]] # "in" THEN c[i - 1]
                            ELSE [q |-> Append(c[i - 1].q, Edit("move", ks[i], c[i - 1].last)), last |-> ks[i]]]
           h == CHOOSE c : Sol(c)
<1>1. n \in Nat /\ \A i \in 1..n : ks[i] \in Keys
  OBVIOUS
<1>2. q \in Marches
  BY DEF Marches, Linked
<1>3. F \in [1..n -> [Marches -> Marches]]
  BY <1>1, MarchOn
<1>4. \A i \in 1..n, a \in Marches : F[i][a] = March(a, ks[i])
  OBVIOUS
<1>5. Moves(ks) = h[n].q
  BY DEF Moves
<1> HIDE DEF n, F, h, q
<1>6. PICK c \in [0..n -> Marches] : IsRecursion(c, n, q, F)
  BY <1>1, <1>2, <1>3, RecursionExists
<1>7. ASSUME NEW i \in 0..n PROVE c[i] = IF i = 0 THEN q ELSE March(c[i - 1], ks[i])
  <2>1. i # 0 => i \in 1..n /\ i - 1 \in 0..n
    BY <1>1
  <2>2. c[i] = IF i = 0 THEN q ELSE F[i][c[i - 1]]
    BY <1>6 DEF IsRecursion
  <2>. QED
    BY <1>4, <1>6, <2>1, <2>2
<1>8. Sol(c)
  BY <1>6, <1>7 DEF March
<1>9. Sol(h)
  BY <1>8 DEF h
<1>10. ASSUME NEW i \in 0..n PROVE h[i] = IF i = 0 THEN q ELSE March(h[i - 1], ks[i])
  BY <1>9 DEF March
<1>11. \A i \in 1..n : h[i - 1] \in Marches => h[i] = F[i][h[i - 1]]
  BY <1>1, <1>4, <1>10
<1>12. h[0] \in Marches
  BY <1>1, <1>2, <1>10
<1>13. \A i \in 0..n : h[i] \in Marches
  BY <1>1, <1>3, <1>11, <1>12, RecursionStays, Zenon
<1>14. h[n] \in Marches
  BY <1>1, <1>13
<1>. QED
  BY <1>5, <1>14 DEF Marches

LEMMA FinishKeeps ==
    ASSUME NEW s \in Hosts, NEW keys \in Seq(Keys), NEW text, NEW call \in HostCalls
    PROVE  /\ Finish(s, keys, text, call) \in Hosts
           /\ InStep(s) => InStep(Finish(s, keys, text, call))
           /\ Linked(s.q) => Linked(Finish(s, keys, text, call).q)
           /\ \A ks, k : There(Finish(s, keys, text, call).q, ks, k) <=> There(s.q, ks, k)
<1> DEFINE x == Moves(keys)
           m == [s EXCEPT !.q = s.q \o x]
<1>1. x \in Seq(QuietEdit) /\ Linked(x) /\ \A i \in DOMAIN x : x[i].op = "move"
  BY MovesAre
<1> HIDE DEF x
<1>2. m \in Hosts /\ (InStep(s) => InStep(m))
  BY <1>1, RecordKept
<1>3. s.q \in Seq(ScriptEdit) /\ x \in Seq(ScriptEdit) /\ m.q = s.q \o x
  BY <1>1, QuietQueues DEF Hosts
<1>4. Linked(s.q) => Linked(m.q)
  BY <1>1, <1>3, LinkedJoined
<1>5. ASSUME NEW ks, NEW k PROVE There(m.q, ks, k) <=> There(s.q, ks, k)
  <2> DEFINE mid == There(s.q, ks, k)
  <2>1. \A i \in DOMAIN x : x[i] # Edit("add", k, None) /\ x[i] # Edit("remove", k, None)
    BY <1>1 DEF Edit
  <2>2. Lasting(x, Edit("add", k, None), Edit("remove", k, None), mid) <=> mid
    BY <2>1 DEF Lasting
  <2>3. There(s.q \o x, ks, k) <=> Lasting(x, Edit("add", k, None), Edit("remove", k, None), mid)
    BY <1>3, ThereJoined
  <2>. QED
    BY <1>3, <2>2, <2>3
<1>6. Finish(s, keys, text, call) = IF text.ticks THEN Flush(m, call) ELSE m
  BY DEF Finish, x
<1> HIDE DEF m
<1>7. CASE ~text.ticks
  BY <1>2, <1>4, <1>5, <1>6, <1>7
<1>8. CASE text.ticks
  <2>1. Flush(m, call) \in Hosts /\ Longer(m, Flush(m, call)) /\ (InStep(m) => InStep(Flush(m, call)))
    BY <1>2, FlushKeeps
  <2>2. /\ \A ks, k : There(Flush(m, call).q, ks, k) <=> There(m.q, ks, k)
        /\ Linked(m.q) => Linked(Flush(m, call).q)
    BY <1>2, <2>1, ThereLonger
  <2>. QED
    BY <1>2, <1>4, <1>5, <1>6, <1>8, <2>1, <2>2
<1>. QED
  BY <1>7, <1>8

\* What a load leaves: the edits of one that fails say the same of the children as
\* before, except of those its source declares.
LEMMA LoadRight ==
    ASSUME record \in Recorded, queue = <<>>, managed \in SUBSET Keys, Source \in Texts,
           InStep([rec |-> record, q |-> queue]), NEW outcome \in Outcomes, NEW call \in HostCalls
    PROVE  LET s == AfterLoad(outcome, call)
               declares == ToSet(Source.keys)
           IN  /\ s \in Hosts /\ InStep(s) /\ Linked(s.q)
               /\ \A k \in Keys :
                     /\ outcome = "ok" =>
                           (There(s.q, kids, k) <=> (kids[k] = "in" \/ k \in declares) /\ k \notin Stale(Source.keys))
                     /\ outcome # "ok" /\ (outcome = "initFails" => k \notin declares) =>
                           (There(s.q, kids, k) <=> kids[k] = "in")
<1> DEFINE s == [rec |-> record, q |-> queue]
           s0 == Teardown(s)
           declared0 == Declare(Source.keys)
           s1 == [s0 EXCEPT !.q = s0.q \o declared0]
           s2 == Flush(s1, call)
           settle == Settle(Source.keys)
           s3 == [s2 EXCEPT !.q = s2.q \o settle]
<1>1. Source.keys \in Seq(Keys)
  OBVIOUS
<1>2. s \in Hosts /\ s.q = <<>> /\ InStep(s)
  <2>1. queue \in Seq(ScriptEdit)
    OBVIOUS
  <2>2. s \in Hosts
    BY <2>1, HostIs
  <2>. QED
    BY <2>2
<1>3. s0 \in Hosts /\ Longer(s, s0) /\ InStep(s0)
  BY <1>2, ClearKeeps DEF Teardown
<1>4. Linked(s.q) /\ \A k : There(s.q, kids, k) <=> kids[k] = "in"
  BY <1>2 DEF Linked, There, Lasting
<1>t. AfterLoad(outcome, call) = CASE outcome = "ok" -> s3 [] outcome = "initFails" -> s2 [] outcome = "evalFails" -> s0
  BY DEF AfterLoad
<1> HIDE DEF s, s0
<1>5. Linked(s0.q) /\ \A k : There(s0.q, kids, k) <=> kids[k] = "in"
  BY <1>2, <1>3, <1>4, ThereLonger
<1>6. /\ declared0 \in Seq(QuietEdit) /\ Linked(declared0)
      /\ \A k, was : Lasting(declared0, Edit("add", k, None), Edit("remove", k, None), was)
                        <=> (was \/ k \in ToSet(Source.keys))
  BY <1>1, DeclareIs
<1>7. /\ settle \in Seq(QuietEdit) /\ Linked(settle)
      /\ \A k, was : Lasting(settle, Edit("add", k, None), Edit("remove", k, None), was)
                        <=> (was /\ k \notin Stale(Source.keys))
  BY SettleIs
<1> HIDE DEF declared0, settle
<1>8. s1 \in Hosts /\ InStep(s1)
  BY <1>3, <1>6, RecordKept
<1>9. s1.q = s0.q \o declared0 /\ s0.q \in Seq(ScriptEdit) /\ declared0 \in Seq(ScriptEdit)
  BY <1>3, <1>6, QuietQueues DEF Hosts
<1> HIDE DEF s1
<1>10. Linked(s1.q)
  BY <1>5, <1>6, <1>9, LinkedJoined
<1>11. ASSUME NEW k PROVE There(s1.q, kids, k) <=> kids[k] = "in" \/ k \in ToSet(Source.keys)
  <2>1. There(s1.q, kids, k) <=>
           Lasting(declared0, Edit("add", k, None), Edit("remove", k, None), There(s0.q, kids, k))
    BY <1>9, ThereJoined
  <2>. QED
    BY <1>5, <1>6, <2>1
<1>12. s2 \in Hosts /\ Longer(s1, s2) /\ InStep(s2)
  BY <1>8, FlushKeeps
<1> HIDE DEF s2
<1>13. Linked(s2.q) /\ \A k : There(s2.q, kids, k) <=> kids[k] = "in" \/ k \in ToSet(Source.keys)
  BY <1>8, <1>10, <1>11, <1>12, ThereLonger
<1>14. s3 \in Hosts /\ InStep(s3)
  BY <1>7, <1>12, RecordKept
<1>15. s3.q = s2.q \o settle /\ s2.q \in Seq(ScriptEdit) /\ settle \in Seq(ScriptEdit)
  BY <1>7, <1>12, QuietQueues DEF Hosts
<1> HIDE DEF s3
<1>16. Linked(s3.q)
  BY <1>7, <1>13, <1>15, LinkedJoined
<1>17. ASSUME NEW k
       PROVE  There(s3.q, kids, k) <=> (kids[k] = "in" \/ k \in ToSet(Source.keys)) /\ k \notin Stale(Source.keys)
  <2>1. There(s3.q, kids, k) <=>
           Lasting(settle, Edit("add", k, None), Edit("remove", k, None), There(s2.q, kids, k))
    BY <1>15, ThereJoined
  <2>. QED
    BY <1>7, <1>13, <2>1
<1>18. CASE outcome = "ok"
  BY <1>14, <1>16, <1>17, <1>18, <1>t
<1>19. CASE outcome = "initFails"
  BY <1>12, <1>13, <1>19, <1>t
<1>20. CASE outcome = "evalFails"
  BY <1>3, <1>5, <1>20, <1>t
<1>. QED
  BY <1>18, <1>19, <1>20 DEF Outcomes

-----------------------------------------------------------------------------
(* The batch, edit by edit.                                                 *)

Batches == [failed : BOOLEAN, kids : KidStates, index : SUBSET Listening, dirty : BOOLEAN,
            dropped : SUBSET ScriptEdit]

Spared(dropped, ops, x) == \A e \in dropped : e.op \in ops => e.on # x

HomesDiffer(ks) == \A k \in Keys : ks[k] = "out" => \E j \in Keys : j.home # k.home

\* Of whatever no edit was dropped about, the prefix that was applied says what holds.
Fits(acc, p) ==
    /\ ~acc.failed => acc.dropped = {}
    /\ \A t \in Targets, l \in Levels : Spared(acc.dropped, {"listen", "unlisten"}, t) =>
           ([on |-> t, level |-> l] \in acc.index <=> HeardOf(p, index, t, l))
    /\ \A k \in Keys : Spared(acc.dropped, {"add", "remove", "move"}, k) =>
           (acc.kids[k] = "in" <=> There(p, kids, k))
    /\ ~acc.failed /\ p # <<>> /\ p[Len(p)].op = "move" => acc.kids[p[Len(p)].on] = "in"
    /\ HomesDiffer(acc.kids)
    /\ dirty => acc.dirty

LEMMA ThereAppended ==
    ASSUME NEW q \in Seq(ScriptEdit), NEW e \in ScriptEdit, NEW ks, NEW k
    PROVE  There(Append(q, e), ks, k) <=>
              e = Edit("add", k, None) \/ (There(q, ks, k) /\ e # Edit("remove", k, None))
<1> DEFINE was == ks[k] = "in"
<1>1. was \in BOOLEAN
  OBVIOUS
<1>2. Edit("add", k, None) # Edit("remove", k, None)
  BY DEF Edit
<1> HIDE DEF was
<1>3. Lasting(Append(q, e), Edit("add", k, None), Edit("remove", k, None), was) <=>
         \/ e = Edit("add", k, None)
         \/ Lasting(q, Edit("add", k, None), Edit("remove", k, None), was) /\ e # Edit("remove", k, None)
  BY <1>1, <1>2, LastingAppended
<1>. QED
  BY <1>3 DEF There, was

LEMMA PlaceTyped == ASSUME NEW e \in ScriptEdit, NEW ks \in KidStates PROVE Place(e, ks) \in KidStates
BY DEF Place, ScriptEdit, ListenEdit, KidEdit, MoveEdit, AskEdit, KidStates

LEMMA SubscribeTyped ==
    ASSUME NEW e \in ScriptEdit, NEW idx \in SUBSET Listening PROVE Subscribe(e, idx) \in SUBSET Listening
<1>1. e.op = "listen" => e.on \in Targets /\ e.arg \in Levels
  BY DEF ScriptEdit, ListenEdit, KidEdit, MoveEdit, AskEdit
<1>. QED
  BY <1>1 DEF Subscribe, Listening

LEMMA FailsBoolean == ASSUME NEW e, NEW ks PROVE Fails(e, ks) \in BOOLEAN
BY DEF Fails

LEMMA ApplyOneTyped ==
    ASSUME NEW e \in ScriptEdit, NEW acc \in Batches PROVE ApplyOne(e, acc) \in Batches
<1>1. /\ acc.kids \in KidStates /\ acc.index \in SUBSET Listening
      /\ acc.failed \in BOOLEAN /\ acc.dirty \in BOOLEAN /\ acc.dropped \in SUBSET ScriptEdit
  BY DEF Batches
<1>2. CASE acc.failed
  <2>1. ApplyOne(e, acc) = [acc EXCEPT !.dropped = @ \cup {e}] /\ acc.dropped \cup {e} \in SUBSET ScriptEdit
    BY <1>1, <1>2 DEF ApplyOne
  <2>. QED
    BY <2>1 DEF Batches
<1>3. CASE ~acc.failed
  <2> DEFINE f == Fails(e, acc.kids)
             ks == Place(e, acc.kids)
             idx == IF f THEN acc.index ELSE Subscribe(e, acc.index)
             d == acc.dirty \/ (~f /\ e.op \notin {"listen", "unlisten"})
             out == IF f THEN {e} ELSE {}
  <2>1. ks \in KidStates /\ f \in BOOLEAN /\ idx \in SUBSET Listening /\ out \in SUBSET ScriptEdit /\ d \in BOOLEAN
    BY <1>1, PlaceTyped, SubscribeTyped, FailsBoolean
  <2>2. ApplyOne(e, acc) = [failed |-> f, kids |-> ks, index |-> idx, dirty |-> d, dropped |-> out]
    BY <1>3 DEF ApplyOne
  <2> HIDE DEF f, ks, idx, d, out
  <2>. QED
    BY <2>1, <2>2 DEF Batches
<1>. QED
  BY <1>1, <1>2, <1>3

\* What one edit does that is applied or fails.
LEMMA OneApplied ==
    ASSUME NEW acc \in Batches, NEW p \in Seq(ScriptEdit), NEW e \in ScriptEdit, Fits(acc, p),
           e.op = "move" /\ e.arg # None => p # <<>> /\ p[Len(p)].op = "move" /\ p[Len(p)].on = e.arg
    PROVE  Fits(ApplyOne(e, acc), Append(p, e))
<1> DEFINE b == ApplyOne(e, acc)
           r == Append(p, e)
<1>1. /\ acc.kids \in KidStates /\ acc.index \in SUBSET Listening
      /\ acc.failed \in BOOLEAN /\ acc.dropped \in SUBSET ScriptEdit
  BY DEF Batches
<1>2. r # <<>> /\ Len(r) \in Nat /\ r[Len(r)] = e
  OBVIOUS
<1>3. \A t, l : HeardOf(r, index, t, l) <=>
                   e = Edit("listen", t, l) \/ (HeardOf(p, index, t, l) /\ e # Edit("unlisten", t, l))
  BY HeardAppended
<1>4. \A k : There(r, kids, k) <=> e = Edit("add", k, None) \/ (There(p, kids, k) /\ e # Edit("remove", k, None))
  BY ThereAppended
<1>5. /\ e.op \in {"listen", "unlisten"} => e.on \in Targets /\ e.arg \in Levels /\ e = Edit(e.op, e.on, e.arg)
      /\ e.op \in {"add", "remove"} => e.on \in Keys /\ e = Edit(e.op, e.on, None)
      /\ e.op = "move" => e.on \in Keys /\ e.arg \in Keys \cup {None}
      /\ e.op \in {"listen", "unlisten", "add", "remove", "move", "reevaluate"}
  BY DEF ScriptEdit, ListenEdit, KidEdit, MoveEdit, AskEdit, Edit
<1>6. \A op, x, y : Edit(op, x, y).op = op /\ Edit(op, x, y).on = x /\ Edit(op, x, y).arg = y
  BY DEF Edit
<1>7. ASSUME NEW t, NEW l, e.op \in {"listen", "unlisten"} => e.on # t
      PROVE  HeardOf(r, index, t, l) <=> HeardOf(p, index, t, l)
  BY <1>3, <1>6, <1>7
<1>8. ASSUME NEW k, e.op \in {"add", "remove", "move"} => e.on # k
      PROVE  There(r, kids, k) <=> There(p, kids, k)
  BY <1>4, <1>6, <1>8
<1> HIDE DEF r
<1>9. CASE acc.failed
  <2>1. b = [acc EXCEPT !.dropped = @ \cup {e}]
    BY <1>9 DEF ApplyOne
  <2>2. b.failed = acc.failed /\ b.kids = acc.kids /\ b.index = acc.index /\ b.dropped = acc.dropped \cup {e}
        /\ b.dirty = acc.dirty
    BY <2>1 DEF Batches
  <2> HIDE DEF b
  <2>3. \A ops, x : Spared(b.dropped, ops, x) => Spared(acc.dropped, ops, x) /\ (e.op \in ops => e.on # x)
    BY <2>2 DEF Spared
  <2>4. ASSUME NEW t \in Targets, NEW l \in Levels, Spared(b.dropped, {"listen", "unlisten"}, t)
        PROVE  [on |-> t, level |-> l] \in b.index <=> HeardOf(r, index, t, l)
    BY <1>7, <2>2, <2>3, <2>4 DEF Fits
  <2>5. ASSUME NEW k \in Keys, Spared(b.dropped, {"add", "remove", "move"}, k)
        PROVE  b.kids[k] = "in" <=> There(r, kids, k)
    BY <1>8, <2>2, <2>3, <2>5 DEF Fits
  <2>. QED
    BY <1>9, <2>2, <2>4, <2>5 DEF Fits, b, r
<1>10. CASE ~acc.failed
  <2> DEFINE f == Fails(e, acc.kids)
             ks == Place(e, acc.kids)
  <2>1. /\ b.failed = f /\ b.kids = ks
        /\ b.index = IF f THEN acc.index ELSE Subscribe(e, acc.index)
        /\ b.dropped = IF f THEN {e} ELSE {}
        /\ dirty => b.dirty
    BY <1>10 DEF ApplyOne, Fits
  <2>2. acc.dropped = {}
    BY <1>10 DEF Fits
  <2>3. \A t \in Targets, l \in Levels : [on |-> t, level |-> l] \in acc.index <=> HeardOf(p, index, t, l)
    BY <2>2 DEF Fits, Spared
  <2>4. \A k \in Keys : acc.kids[k] = "in" <=> There(p, kids, k)
    BY <2>2 DEF Fits, Spared
  <2>5. HomesDiffer(acc.kids)
    BY DEF Fits
  <2>6. f \in BOOLEAN
    BY FailsBoolean
  <2>7. ASSUME NEW k \in Keys, e.op \in {"add", "remove", "move"} => e.on # k
        PROVE  ks[k] = acc.kids[k]
    BY <1>1, <1>5, <2>7 DEF Place, KidStates
  <2>8. /\ e.op = "add" => ks[e.on] = "in"
        /\ e.op = "remove" => ks[e.on] = "absent"
        /\ e.op = "move" /\ ~f => ks = acc.kids /\ ks[e.on] = "in"
    BY <1>1, <1>5 DEF Place, KidStates, Fails
  <2>9. e.op = "move" /\ f => ks = acc.kids \/ (ks[e.on] = "out" /\ Misplaced(e, acc.kids))
    BY <1>1, <1>5 DEF Place, KidStates
  <2>10. HomesDiffer(ks)
    <3> SUFFICES ASSUME NEW k \in Keys, ks[k] = "out" PROVE \E j \in Keys : j.home # k.home
      BY DEF HomesDiffer
    <3>1. CASE acc.kids[k] = "out"
      BY <2>5, <3>1 DEF HomesDiffer
    <3>2. CASE acc.kids[k] # "out"
      <4>1. e.op \in {"add", "remove", "move"} /\ e.on = k
        BY <2>7, <3>2
      <4>2. e.op = "move" /\ f /\ Misplaced(e, acc.kids)
        BY <2>6, <2>8, <2>9, <3>2, <4>1
      <4>3. e.arg # None /\ (acc.kids[e.arg] # "in" \/ e.arg.home # e.on.home)
        BY <4>2 DEF Misplaced
      <4>4. acc.kids[e.arg] = "in"
        BY <1>10, <4>2, <4>3 DEF Fits
      <4>. QED
        BY <1>5, <4>1, <4>2, <4>3, <4>4
    <3>. QED
      BY <3>1, <3>2
  <2> HIDE DEF b, ks
  <2>11. CASE f
    <3>1. \A ops, x : Spared(b.dropped, ops, x) => (e.op \in ops => e.on # x)
      BY <2>1, <2>11 DEF Spared
    <3>2. ASSUME NEW t \in Targets, NEW l \in Levels, Spared(b.dropped, {"listen", "unlisten"}, t)
          PROVE  [on |-> t, level |-> l] \in b.index <=> HeardOf(r, index, t, l)
      BY <1>7, <2>1, <2>3, <2>11, <3>1, <3>2
    <3>3. ASSUME NEW k \in Keys, Spared(b.dropped, {"add", "remove", "move"}, k)
          PROVE  b.kids[k] = "in" <=> There(r, kids, k)
      BY <1>8, <2>1, <2>4, <2>7, <3>1, <3>3
    <3>. QED
      BY <2>1, <2>10, <2>11, <3>2, <3>3 DEF Fits, b, r
  <2>12. CASE ~f
    <3>1. ASSUME NEW t \in Targets, NEW l \in Levels
          PROVE  [on |-> t, level |-> l] \in b.index <=> HeardOf(r, index, t, l)
      <4> DEFINE x == [on |-> t, level |-> l]
      <4>1. x \in acc.index <=> HeardOf(p, index, t, l)
        BY <2>3
      <4>2. b.index = Subscribe(e, acc.index)
        BY <2>1, <2>12
      <4>3. CASE e.op = "listen"
        <5>1. x \in b.index <=> x \in acc.index \/ x = [on |-> e.on, level |-> e.arg]
          BY <4>2, <4>3 DEF Subscribe
        <5>2. x = [on |-> e.on, level |-> e.arg] <=> e = Edit("listen", t, l)
          BY <1>5, <1>6, <4>3
        <5>3. e # Edit("unlisten", t, l)
          BY <1>6, <4>3
        <5>. QED
          BY <1>3, <4>1, <5>1, <5>2, <5>3
      <4>4. CASE e.op = "unlisten"
        <5>1. x \in b.index <=> x \in acc.index /\ x # [on |-> e.on, level |-> e.arg]
          BY <4>2, <4>4 DEF Subscribe
        <5>2. x = [on |-> e.on, level |-> e.arg] <=> e = Edit("unlisten", t, l)
          BY <1>5, <1>6, <4>4
        <5>3. e # Edit("listen", t, l)
          BY <1>6, <4>4
        <5>. QED
          BY <1>3, <4>1, <5>1, <5>2, <5>3
      <4>5. CASE e.op \notin {"listen", "unlisten"}
        <5>1. b.index = acc.index
          BY <4>2, <4>5 DEF Subscribe
        <5>. QED
          BY <1>7, <4>1, <4>5, <5>1
      <4>. QED
        BY <4>3, <4>4, <4>5
    <3>2. ASSUME NEW k \in Keys PROVE b.kids[k] = "in" <=> There(r, kids, k)
      <4>1. acc.kids[k] = "in" <=> There(p, kids, k)
        BY <2>4
      <4>2. CASE e.op \in {"add", "remove", "move"} /\ e.on = k
        <5>1. CASE e.op = "add"
          BY <1>4, <1>5, <1>6, <2>1, <2>8, <4>2, <5>1
        <5>2. CASE e.op = "remove"
          BY <1>4, <1>5, <1>6, <2>1, <2>8, <4>2, <5>2
        <5>3. CASE e.op = "move"
          BY <1>4, <1>6, <2>1, <2>8, <2>12, <4>1, <4>2, <5>3
        <5>. QED
          BY <4>2, <5>1, <5>2, <5>3
      <4>3. CASE e.op \in {"add", "remove", "move"} => e.on # k
        BY <1>8, <2>1, <2>7, <4>1, <4>3
      <4>. QED
        BY <4>2, <4>3
    <3>. QED
      BY <1>2, <2>1, <2>8, <2>10, <2>12, <3>1, <3>2 DEF Fits, b, r
  <2>. QED
    BY <2>6, <2>11, <2>12
<1>. QED
  BY <1>1, <1>9, <1>10

LEMMA AppliedRight ==
    ASSUME ScriptTyped, UpkeepInv
    PROVE  Applied \in Batches /\ Fits(Applied, queue)
<1> DEFINE n == Len(queue)
           q == [failed |-> FALSE, kids |-> kids, index |-> index, dirty |-> dirty, dropped |-> {}]
           F == [i \in 1..n |-> [a \in Batches |-> ApplyOne(queue[i], a)]]
           Sol(c) == c = [i \in 0..n |-> IF i = 0 THEN q ELSE ApplyOne(queue[i], c[i - 1])]
           h == CHOOSE c : Sol(c)
<1>1. n \in Nat /\ queue \in Seq(ScriptEdit) /\ \A i \in 1..n : queue[i] \in ScriptEdit
  BY DEF ScriptTyped
<1>2. q \in Batches
  BY DEF ScriptTyped, Batches
<1>3. F \in [1..n -> [Batches -> Batches]]
  BY <1>1, ApplyOneTyped
<1>4. \A i \in 1..n, a \in Batches : F[i][a] = ApplyOne(queue[i], a)
  OBVIOUS
<1>5. Applied = h[n]
  BY DEF Applied
<1>6. Fits(q, <<>>)
  <2>1. DOMAIN <<>> = {}
    OBVIOUS
  <2>2. ASSUME NEW t, NEW l PROVE HeardOf(<<>>, index, t, l) <=> [on |-> t, level |-> l] \in index
    BY <2>1 DEF HeardOf, Lasting
  <2>3. ASSUME NEW k PROVE There(<<>>, kids, k) <=> kids[k] = "in"
    BY <2>1 DEF There, Lasting
  <2>4. HomesDiffer(kids)
    BY DEF UpkeepInv, HomesDiffer
  <2>. QED
    BY <2>2, <2>3, <2>4 DEF Fits
<1> HIDE DEF n, F, h, q
<1>7. PICK c \in [0..n -> Batches] : IsRecursion(c, n, q, F)
  BY <1>1, <1>2, <1>3, RecursionExists
<1>8. ASSUME NEW i \in 0..n PROVE c[i] = IF i = 0 THEN q ELSE ApplyOne(queue[i], c[i - 1])
  <2>1. i # 0 => i \in 1..n /\ i - 1 \in 0..n
    BY <1>1
  <2>2. c[i] = IF i = 0 THEN q ELSE F[i][c[i - 1]]
    BY <1>7 DEF IsRecursion
  <2>. QED
    BY <1>4, <1>7, <2>1, <2>2
<1>9. Sol(c)
  BY <1>7, <1>8
<1>10. Sol(h)
  BY <1>9 DEF h
<1>11. ASSUME NEW i \in 0..n PROVE h[i] = IF i = 0 THEN q ELSE ApplyOne(queue[i], h[i - 1])
  BY <1>10
<1>12. \A i \in 1..n : h[i - 1] \in Batches => h[i] = F[i][h[i - 1]]
  BY <1>1, <1>4, <1>11
<1>13. h[0] \in Batches /\ h[0] = q
  BY <1>1, <1>2, <1>11
<1>14. \A i \in 0..n : h[i] \in Batches
  BY <1>1, <1>3, <1>12, <1>13, RecursionStays, Zenon
<1> DEFINE T == {k \in Nat : k <= n => Fits(h[k], SubSeq(queue, 1, k))}
<1>15. 0 \in T
  <2>1. SubSeq(queue, 1, 0) = <<>>
    BY <1>1
  <2>. QED
    BY <1>6, <1>13, <2>1
<1>16. ASSUME NEW k \in Nat, k \in T PROVE k + 1 \in T
  <2> SUFFICES ASSUME k + 1 <= n PROVE Fits(h[k + 1], SubSeq(queue, 1, k + 1))
    OBVIOUS
  <2> DEFINE p == SubSeq(queue, 1, k)
             e == queue[k + 1]
  <2>1. k + 1 \in 1..n /\ k \in 0..n /\ k + 1 \in 0..n /\ k + 1 # 0 /\ (k + 1) - 1 = k
    BY <1>1
  <2>2. Fits(h[k], p)
    BY <1>16, <2>1
  <2>3. e \in ScriptEdit /\ h[k] \in Batches /\ h[k + 1] = ApplyOne(e, h[k])
    BY <1>1, <1>11, <1>14, <2>1
  <2>4. p \in Seq(ScriptEdit) /\ Len(p) = k /\ (k > 0 => p[k] = queue[k])
    BY <1>1, <2>1 DEF n
  <2>5. SubSeq(queue, 1, k + 1) = Append(p, e)
    BY <1>1, <2>1 DEF n
  <2>6. e.op = "move" /\ e.arg # None => k + 1 > 1 /\ queue[k].op = "move" /\ queue[k].on = e.arg
    <3>1. Linked(queue) /\ k + 1 \in DOMAIN queue
      BY <1>1, <2>1 DEF UpkeepInv, n
    <3>. QED
      BY <2>1, <3>1 DEF Linked
  <2> HIDE DEF p, e
  <2>7. e.op = "move" /\ e.arg # None => p # <<>> /\ p[Len(p)].op = "move" /\ p[Len(p)].on = e.arg
    BY <2>4, <2>6
  <2>8. Fits(ApplyOne(e, h[k]), Append(p, e))
    BY <2>2, <2>3, <2>4, <2>7, OneApplied
  <2>. QED
    BY <2>3, <2>5, <2>8
<1> HIDE DEF T
<1>17. n \in T
  BY <1>1, <1>15, <1>16, NatSetInduction
<1>18. SubSeq(queue, 1, n) = queue
  BY <1>1 DEF n
<1>19. h[n] \in Batches /\ Fits(h[n], queue)
  BY <1>1, <1>14, <1>17, <1>18 DEF T
<1>. QED
  BY <1>5, <1>19

-----------------------------------------------------------------------------
(* Types are kept.                                                          *)

LEMMA SourceIs ==
    ASSUME config \in Configs, file \in Texts \cup {None}
    PROVE  /\ Source \in Texts \cup {None}
           /\ config.kind = "inline" => config.text \in Texts /\ Source = config.text
           /\ config.kind # "inline" => config.kind = "file" /\ Source = file
BY DEF Configs, Config, Source

LEMMA WrittenIs ==
    ASSUME file \in Texts \cup {None}, NEW outcome
    PROVE  /\ Written(outcome) \subseteq Texts \cup {None}
           /\ outcome # "ok" => Written(outcome) = {file}
           /\ config.kind # "file" => Written(outcome) = {file}
BY DEF Written

LEMMA LoadedTyped ==
    ASSUME ScriptTyped, Source # None, NEW now \in Texts \cup {None}, Loaded(now)
    PROVE  /\ runtime' \in Texts \cup {None} /\ managed' \in SUBSET Keys /\ stamp' \in Stamps \cup {None}
           /\ {reload', unseen', torn'} \subseteq BOOLEAN /\ excused' \in SUBSET Keys
           /\ Source.keys \in Seq(Keys)
<1>1. Source \in Texts
  BY SourceIs DEF ScriptTyped
<1>2. Source.keys \in Seq(Keys)
  BY <1>1
<1>3. ToSet(Source.keys) \subseteq Keys
  BY <1>2 DEF ToSet
<1>4. stamp' = [text |-> Source, same |-> config.kind = "file" /\ now # None]
  BY DEF Loaded, NewStamp
<1>5. stamp' \in Stamps
  BY <1>1, <1>4 DEF Stamps
<1>. QED
  BY <1>1, <1>2, <1>3, <1>5 DEF Loaded, ScriptTyped

LEMMA FailedTyped ==
    ASSUME ScriptTyped, Source # None, NEW outcome, Failed(outcome)
    PROVE  /\ runtime' \in Texts \cup {None} /\ managed' \in SUBSET Keys /\ stamp' \in Stamps \cup {None}
           /\ {reload', unseen', torn'} \subseteq BOOLEAN /\ excused' \in SUBSET Keys
<1>1. Source \in Texts
  BY SourceIs DEF ScriptTyped
<1>2. ToSet(Source.keys) \subseteq Keys
  BY <1>1 DEF ToSet
<1>. QED
  BY <1>2 DEF Failed, ScriptTyped

\* The record and the queue as the invariant has them.
LEMMA HostHere ==
    ASSUME ScriptTyped, UpkeepInv
    PROVE  [rec |-> record, q |-> queue] \in Hosts /\ InStep([rec |-> record, q |-> queue])
<1>1. [rec |-> record, q |-> queue] \in Hosts
  BY HostIs DEF ScriptTyped
<1>. QED
  BY <1>1 DEF UpkeepInv, InStep

\* What each step of the script makes of its record and its queue.
Asks(s) ==
    /\ s \in Hosts /\ InStep(s) /\ Linked(s.q)
    /\ record' = s.rec /\ queue' = s.q

LEMMA InitAsks ==
    ASSUME ScriptTyped, UpkeepInv, NEW outcome \in Outcomes, NEW call \in HostCalls, NEW now,
           InitNode(outcome, call, now)
    PROVE  Asks(AfterLoad(outcome, call))
<1>1. Source \in Texts /\ queue = <<>>
  BY SourceIs DEF ScriptTyped, InitNode
<1>. QED
  BY <1>1, HostHere, LoadRight DEF ScriptTyped, Asks, InitNode

LEMMA UpdateAsks ==
    ASSUME ScriptTyped, UpkeepInv, NEW call \in HostCalls, Update(call)
    PROVE  LET s == Finish([rec |-> record, q |-> queue], declared, runtime, call)
           IN  Asks(s) /\ \A ks, k : There(s.q, ks, k) <=> There(queue, ks, k)
<1>1. declared \in Seq(Keys) /\ Linked(queue)
  BY DEF ScriptTyped, UpkeepInv
<1>. QED
  BY <1>1, HostHere, FinishKeeps DEF Asks, Update

LEMMA LoadingAsks ==
    ASSUME ScriptTyped, UpkeepInv, NEW first \in HostCalls, NEW call \in HostCalls, NEW now,
           UpdateLoads(first, call, now)
    PROVE  LET b == AfterLoad("ok", first)
               s == Finish(b, Source.keys, Source, call)
           IN  Asks(s) /\ \A k : There(s.q, kids, k) <=> There(b.q, kids, k)
<1>1. Source \in Texts /\ queue = <<>> /\ Source.keys \in Seq(Keys)
  BY SourceIs DEF ScriptTyped, UpdateLoads, Due
<1> DEFINE b == AfterLoad("ok", first)
<1>2. b \in Hosts /\ InStep(b) /\ Linked(b.q)
  BY <1>1, HostHere, LoadRight DEF ScriptTyped, Outcomes
<1> HIDE DEF b
<1>3. LET s == Finish(b, Source.keys, Source, call)
      IN  Asks(s) /\ \A k : There(s.q, kids, k) <=> There(b.q, kids, k)
  BY <1>1, <1>2, FinishKeeps DEF Asks, UpdateLoads, b
<1>. QED
  BY <1>3 DEF b

LEMMA FailingAsks ==
    ASSUME ScriptTyped, UpkeepInv, NEW outcome \in Outcomes, NEW call \in HostCalls, UpdateFails(outcome, call)
    PROVE  Asks(AfterLoad(outcome, call))
<1>1. Source \in Texts /\ queue = <<>>
  BY SourceIs DEF ScriptTyped, UpdateFails, Due
<1>. QED
  BY <1>1, HostHere, LoadRight DEF ScriptTyped, Asks, UpdateFails

LEMMA InboxAsks ==
    ASSUME ScriptTyped, UpkeepInv, NEW call \in HostCalls, Inbox(call)
    PROVE  LET s == Flush([rec |-> record, q |-> queue], call)
           IN  Asks(s) /\ \A ks, k : There(s.q, ks, k) <=> There(queue, ks, k)
<1> DEFINE h == [rec |-> record, q |-> queue]
           s == Flush(h, call)
<1>1. h \in Hosts /\ InStep(h) /\ Linked(h.q)
  BY HostHere DEF UpkeepInv
<1>2. record' = s.rec /\ queue' = s.q
  BY DEF Inbox
<1>3. h.q = queue
  OBVIOUS
<1> HIDE DEF h
<1>4. s \in Hosts /\ Longer(h, s) /\ InStep(s)
  BY <1>1, FlushKeeps
<1>5. Linked(s.q) /\ \A ks, k : There(s.q, ks, k) <=> There(h.q, ks, k)
  BY <1>1, <1>4, ThereLonger
<1>. QED
  BY <1>2, <1>3, <1>4, <1>5 DEF Asks, h

LEMMA AsksTyped ==
    ASSUME NEW s, Asks(s) PROVE record' \in Recorded /\ queue' \in Seq(ScriptEdit)
BY DEF Asks, Hosts

LEMMA DroppedTyped ==
    ASSUME NEW D \in SUBSET ScriptEdit
    PROVE  /\ {e.on : e \in {x \in D : x.op \in {"listen", "unlisten"}}} \subseteq Targets
           /\ {e.on : e \in {x \in D : x.op = "listen"}} \subseteq Targets
           /\ {e.on : e \in {x \in D : x.op \in {"add", "remove", "move"}}} \subseteq Keys
BY DEF ScriptEdit, ListenEdit, KidEdit, MoveEdit, AskEdit

LEMMA TypedStep ==
    ASSUME ScriptTyped, UpkeepInv, [ScriptsNext]_scriptVars
    PROVE  ScriptTyped'
<1> USE DEF nodeVars, engineVars, ghosts
<1>1. ASSUME NEW outcome \in Outcomes, NEW call \in HostCalls, NEW now \in Written(outcome),
             InitNode(outcome, call, now)
      PROVE  ScriptTyped'
  <2>1. record' \in Recorded /\ queue' \in Seq(ScriptEdit)
    BY <1>1, InitAsks, AsksTyped
  <2>2. now \in Texts \cup {None}
    BY <1>1, WrittenIs DEF ScriptTyped
  <2>3. Source # None /\ Source \in Texts
    BY <1>1, SourceIs DEF InitNode, ScriptTyped
  <2>4. CASE outcome = "ok"
    BY <1>1, <2>1, <2>2, <2>3, <2>4, LoadedTyped DEF InitNode, ScriptTyped
  <2>5. CASE outcome # "ok"
    BY <1>1, <2>1, <2>2, <2>3, <2>5, FailedTyped DEF InitNode, ScriptTyped
  <2>. QED
    BY <2>4, <2>5
<1>2. ASSUME NEW call \in HostCalls, Update(call) PROVE ScriptTyped'
  <2>1. record' \in Recorded /\ queue' \in Seq(ScriptEdit)
    BY <1>2, UpdateAsks, AsksTyped
  <2>2. declared' \in Seq(Keys)
    BY <1>2 DEF Update
  <2>. QED
    BY <1>2, <2>1, <2>2 DEF Update, ScriptTyped
<1>3. ASSUME NEW first \in HostCalls, NEW call \in HostCalls, NEW now \in Written("ok"),
             UpdateLoads(first, call, now)
      PROVE  ScriptTyped'
  <2>1. record' \in Recorded /\ queue' \in Seq(ScriptEdit)
    BY <1>3, LoadingAsks, AsksTyped
  <2>2. now \in Texts \cup {None}
    BY <1>3, WrittenIs DEF ScriptTyped
  <2>3. declared' \in Seq(Keys) /\ Source # None
    BY <1>3 DEF UpdateLoads
  <2>. QED
    BY <1>3, <2>1, <2>2, <2>3, LoadedTyped DEF UpdateLoads, ScriptTyped
<1>4. ASSUME NEW outcome \in Outcomes, NEW call \in HostCalls, UpdateFails(outcome, call) PROVE ScriptTyped'
  <2>1. record' \in Recorded /\ queue' \in Seq(ScriptEdit)
    BY <1>4, FailingAsks, AsksTyped
  <2>. QED
    BY <1>4, <2>1, FailedTyped DEF UpdateFails, ScriptTyped
<1>5. CASE UpdateUnreadable
  BY <1>5 DEF UpdateUnreadable, ScriptTyped
<1>6. ASSUME NEW call \in HostCalls, Inbox(call) PROVE ScriptTyped'
  <2>1. record' \in Recorded /\ queue' \in Seq(ScriptEdit)
    BY <1>6, InboxAsks, AsksTyped
  <2>. QED
    BY <1>6, <2>1 DEF Inbox, ScriptTyped
<1>7. CASE ApplyQueue
  <2>1. Applied \in Batches
    BY AppliedRight
  <2>2. PICK end \in {Applied} :
           /\ kids' = end.kids /\ index' = end.index /\ dirty' = end.dirty
           /\ unheard' = unheard \cup {e.on : e \in {x \in end.dropped : x.op \in {"listen", "unlisten"}}}
           /\ excused' = excused \cup {e.on : e \in {x \in end.dropped : x.op \in {"add", "remove", "move"}}}
    BY <1>7 DEF ApplyQueue
  <2>3. /\ end.kids \in KidStates /\ end.index \in SUBSET Listening /\ end.dirty \in BOOLEAN
        /\ end.dropped \in SUBSET ScriptEdit
    BY <2>1, <2>2 DEF Batches
  <2>4. unheard' \in SUBSET Targets /\ excused' \in SUBSET Keys
    BY <2>2, <2>3, DroppedTyped DEF ScriptTyped
  <2>5. queue' \in Seq(ScriptEdit)
    BY <1>7 DEF ApplyQueue
  <2>. QED
    BY <1>7, <2>2, <2>3, <2>4, <2>5 DEF ApplyQueue, ScriptTyped
<1>8. CASE Resolve
  BY <1>8 DEF Resolve, ScriptTyped
<1>9. ASSUME NEW c \in Configs, NEW force \in BOOLEAN, SetConfig(c, force) PROVE ScriptTyped'
  BY <1>9 DEF SetConfig, ScriptTyped
<1>10. CASE RequestReload
  BY <1>10 DEF RequestReload, ScriptTyped
<1>11. CASE Enable
  BY <1>11 DEF Enable, ScriptTyped
<1>12. CASE Destroy
  <2>1. ToSet(queue) \in SUBSET ScriptEdit
    BY DEF ScriptTyped, ToSet
  <2>2. unheard' \in SUBSET Targets
    BY <1>12, <2>1, DroppedTyped DEF Destroy, ScriptTyped
  <2>3. record' \in Recorded
    BY <1>12 DEF Destroy, Recorded
  <2>. QED
    BY <1>12, <2>2, <2>3 DEF Destroy, ScriptTyped
<1>13. CASE Restore
  BY <1>13 DEF Restore, ScriptTyped
<1>14. CASE SaveAndLoad
  <2>1. record' \in Recorded /\ kids' \in KidStates /\ declared' \in Seq(Keys)
    BY <1>14 DEF SaveAndLoad, Recorded, KidStates
  <2>. QED
    BY <1>14, <2>1 DEF SaveAndLoad, ScriptTyped
<1>15. ASSUME NEW text \in Texts \cup {None}, WriteFile(text) PROVE ScriptTyped'
  <2>1. stamp # None => [stamp EXCEPT !.same = FALSE] \in Stamps
    BY DEF ScriptTyped, Stamps
  <2>. QED
    BY <1>15, <2>1 DEF WriteFile, ScriptTyped
<1>16. ASSUME NEW t \in Targets, RemoveTarget(t) PROVE ScriptTyped'
  BY <1>16 DEF RemoveTarget, ScriptTyped
<1>17. ASSUME NEW t \in Targets, RestoreTarget(t) PROVE ScriptTyped'
  BY <1>17 DEF RestoreTarget, ScriptTyped
<1>18. ASSUME NEW k \in Keys, RemoveKid(k) PROVE ScriptTyped'
  <2>1. kids' \in KidStates
    BY <1>18 DEF RemoveKid, ScriptTyped, KidStates
  <2>. QED
    BY <1>18, <2>1 DEF RemoveKid, ScriptTyped
<1>19. CASE OtherChange
  BY <1>19 DEF OtherChange, ScriptTyped
<1>20. CASE UNCHANGED scriptVars
  BY <1>20 DEF scriptVars, ScriptTyped
<1>21. CASE ScriptStep
  BY <1>1, <1>2, <1>3, <1>4, <1>5, <1>6, <1>7, <1>8, <1>21, Zenon DEF ScriptStep
<1>22. CASE OtherStep
  BY <1>9, <1>10, <1>11, <1>12, <1>13, <1>14, <1>15, <1>16, <1>17, <1>18, <1>19, <1>22, Zenon DEF OtherStep
<1>. QED
  BY <1>20, <1>21, <1>22 DEF ScriptsNext

-----------------------------------------------------------------------------
(* The script finds out.                                                    *)

LEMMA FollowStep ==
    ASSUME ScriptTyped, UpkeepInv, FollowInv, [ScriptsNext]_scriptVars
    PROVE  FollowInv'
<1> USE DEF nodeVars, engineVars, ghosts
<1>0. ASSUME NEW now \in Texts \cup {None}, Loaded(now), Source # None, UNCHANGED <<config, inProject, scriptEnabled>>,
             file' = now, UNCHANGED <<rule, dirty>>, dirty \/ rule # "passive", config.kind # "file" => now = file
      PROVE  FollowInv'
  <2>1. stamp' = [text |-> Source, same |-> config.kind = "file" /\ now # None]
    BY <1>0 DEF Loaded, NewStamp
  <2>2. stamp'.text = Source /\ (stamp'.same <=> config.kind = "file" /\ now # None)
    BY <2>1
  <2>3. runtime' = Source /\ torn' = (now # file /\ now # None)
    BY <1>0 DEF Loaded
  <2>4. /\ config.kind = "inline" => Source = config.text
        /\ config.kind = "file" => Source = file
    BY SourceIs DEF ScriptTyped
  <2>. QED
    BY <1>0, <2>2, <2>3, <2>4 DEF FollowInv
<1>1. ASSUME NEW outcome \in Outcomes, NEW call \in HostCalls, NEW now \in Written(outcome),
             InitNode(outcome, call, now)
      PROVE  FollowInv'
  <2>1. now \in Texts \cup {None} /\ (config.kind # "file" => now = file) /\ (outcome # "ok" => now = file)
    BY <1>1, WrittenIs DEF ScriptTyped
  <2>2. CASE outcome = "ok"
    BY <1>0, <1>1, <2>1, <2>2 DEF InitNode
  <2>3. CASE outcome # "ok"
    BY <1>1, <2>1, <2>3 DEF InitNode, Failed, FollowInv
  <2>. QED
    BY <2>2, <2>3
<1>2. ASSUME NEW call \in HostCalls, Update(call) PROVE FollowInv'
  BY <1>2 DEF Update, FollowInv
<1>3. ASSUME NEW first \in HostCalls, NEW call \in HostCalls, NEW now \in Written("ok"),
             UpdateLoads(first, call, now)
      PROVE  FollowInv'
  <2>1. now \in Texts \cup {None} /\ (config.kind # "file" => now = file)
    BY <1>3, WrittenIs DEF ScriptTyped
  <2>. QED
    BY <1>0, <1>3, <2>1 DEF UpdateLoads, Due
<1>4. ASSUME NEW outcome \in Outcomes, NEW call \in HostCalls, UpdateFails(outcome, call) PROVE FollowInv'
  BY <1>4 DEF UpdateFails, Due, Failed, FollowInv
<1>5. CASE UpdateUnreadable
  BY <1>5 DEF UpdateUnreadable, FollowInv
<1>6. ASSUME NEW call \in HostCalls, Inbox(call) PROVE FollowInv'
  BY <1>6 DEF Inbox, FollowInv
<1>7. CASE ApplyQueue
  <2>1. dirty => dirty'
    <3>1. dirty => Applied.dirty
      BY AppliedRight DEF Fits
    <3>. QED
      BY <1>7, <3>1 DEF ApplyQueue
  <2>. QED
    BY <1>7, <2>1 DEF ApplyQueue, FollowInv
<1>8. CASE Resolve
  <2>1. config.kind \in {"inline", "file"}
    BY DEF ScriptTyped, Configs, Config
  <2>2. inProject /\ scriptEnabled /\ rule' = "passive" => ~reload /\ runtime # None /\ config.kind # "file"
    BY <1>8 DEF Resolve, Rule
  <2>. QED
    BY <1>8, <2>1, <2>2 DEF Resolve, FollowInv
<1>9. ASSUME NEW c \in Configs, NEW force \in BOOLEAN, SetConfig(c, force) PROVE FollowInv'
  BY <1>9 DEF SetConfig, FollowInv
<1>10. CASE RequestReload
  BY <1>10 DEF RequestReload, FollowInv
<1>11. CASE Enable
  BY <1>11 DEF Enable, FollowInv
<1>12. CASE Destroy
  BY <1>12 DEF Destroy, FollowInv
<1>13. CASE Restore
  BY <1>13 DEF Restore, FollowInv
<1>14. CASE SaveAndLoad
  BY <1>14 DEF SaveAndLoad, FollowInv
<1>15. ASSUME NEW text \in Texts \cup {None}, WriteFile(text) PROVE FollowInv'
  <2>1. stamp # None => stamp \in Stamps
    BY DEF ScriptTyped
  <2>2. stamp # None => stamp'.text = stamp.text /\ ~stamp'.same
    BY <1>15, <2>1 DEF WriteFile, Stamps
  <2>. QED
    BY <1>15, <2>2 DEF WriteFile, FollowInv
<1>16. ASSUME NEW t \in Targets, RemoveTarget(t) PROVE FollowInv'
  BY <1>16 DEF RemoveTarget, FollowInv
<1>17. ASSUME NEW t \in Targets, RestoreTarget(t) PROVE FollowInv'
  BY <1>17 DEF RestoreTarget, FollowInv
<1>18. ASSUME NEW k \in Keys, RemoveKid(k) PROVE FollowInv'
  BY <1>18 DEF RemoveKid, FollowInv
<1>19. CASE OtherChange
  BY <1>19 DEF OtherChange, FollowInv
<1>20. CASE UNCHANGED scriptVars
  BY <1>20 DEF scriptVars, FollowInv
<1>21. CASE ScriptStep
  BY <1>1, <1>2, <1>3, <1>4, <1>5, <1>6, <1>7, <1>8, <1>21, Zenon DEF ScriptStep
<1>22. CASE OtherStep
  BY <1>9, <1>10, <1>11, <1>12, <1>13, <1>14, <1>15, <1>16, <1>17, <1>18, <1>19, <1>22, Zenon DEF OtherStep
<1>. QED
  BY <1>20, <1>21, <1>22 DEF ScriptsNext

-----------------------------------------------------------------------------
(* The engine keeps what the script declared.                               *)

LEMMA EmptyQueue ==
    /\ \A ks, k : There(<<>>, ks, k) <=> ks[k] = "in"
    /\ \A idx, t, l : HeardOf(<<>>, idx, t, l) <=> [on |-> t, level |-> l] \in idx
    /\ Linked(<<>>)
<1>1. DOMAIN <<>> = {}
  OBVIOUS
<1>2. ASSUME NEW ks, NEW k PROVE There(<<>>, ks, k) <=> ks[k] = "in"
  BY <1>1 DEF There, Lasting
<1>3. ASSUME NEW idx, NEW t, NEW l PROVE HeardOf(<<>>, idx, t, l) <=> [on |-> t, level |-> l] \in idx
  BY <1>1 DEF HeardOf, Lasting
<1>. QED
  BY <1>1, <1>2, <1>3 DEF Linked

\* A load that succeeds answers for every child it declares or retires, one that
\* fails for none.
LEMMA LoadedChildren ==
    ASSUME UpkeepInv, queue = <<>>, NEW now, Loaded(now), NEW k \in Keys \ excused'
    PROVE  (kids[k] = "in" \/ k \in ToSet(Source.keys)) /\ k \notin Stale(Source.keys) <=> k \in managed'
<1>1. managed' = ToSet(Source.keys) /\ excused' = excused \ ToSet(Source.keys)
  BY DEF Loaded
<1>2. k \notin ToSet(Source.keys) => (kids[k] = "in" <=> k \in managed)
  BY <1>1, EmptyQueue DEF UpkeepInv
<1>. QED
  BY <1>1, <1>2 DEF Stale

LEMMA FailedChildren ==
    ASSUME UpkeepInv, queue = <<>>, NEW outcome, Failed(outcome), NEW k \in Keys \ excused'
    PROVE  /\ outcome = "initFails" => k \notin ToSet(Source.keys)
           /\ kids[k] = "in" <=> k \in managed'
<1>1. managed' = managed /\ k \notin excused /\ (outcome = "initFails" => k \notin ToSet(Source.keys))
  BY DEF Failed
<1>. QED
  BY <1>1, EmptyQueue DEF UpkeepInv

LEMMA AsksUpkeep ==
    ASSUME UpkeepInv, NEW s, Asks(s), UNCHANGED <<index, kids>>, UNCHANGED unheard,
           \A k \in Keys \ excused' : There(s.q, kids, k) <=> k \in managed',
           runtime' # None => managed' = ToSet(runtime'.keys)
    PROVE  UpkeepInv'
<1>1. \A t \in Targets \ unheard', l \in Levels : HeardOf(queue', index', t, l) <=> record'[t] = l
  BY DEF Asks, InStep
<1>. QED
  BY <1>1 DEF Asks, UpkeepInv

LEMMA UpkeepStep ==
    ASSUME ScriptTyped, UpkeepInv, [ScriptsNext]_scriptVars
    PROVE  UpkeepInv'
<1> USE DEF nodeVars, engineVars, ghosts
<1>1. ASSUME NEW outcome \in Outcomes, NEW call \in HostCalls, NEW now \in Written(outcome),
             InitNode(outcome, call, now)
      PROVE  UpkeepInv'
  <2> DEFINE s == AfterLoad(outcome, call)
  <2>1. Asks(s)
    BY <1>1, InitAsks
  <2>2. Source \in Texts /\ queue = <<>>
    BY <1>1, SourceIs DEF ScriptTyped, InitNode
  <2>3. \A k \in Keys :
           /\ outcome = "ok" =>
                 (There(s.q, kids, k) <=> (kids[k] = "in" \/ k \in ToSet(Source.keys)) /\ k \notin Stale(Source.keys))
           /\ outcome # "ok" /\ (outcome = "initFails" => k \notin ToSet(Source.keys)) =>
                 (There(s.q, kids, k) <=> kids[k] = "in")
    BY <2>2, HostHere, LoadRight DEF ScriptTyped
  <2> HIDE DEF s
  <2>4. UNCHANGED <<index, kids>> /\ UNCHANGED unheard
    BY <1>1 DEF InitNode, Failed
  <2>5. CASE outcome = "ok"
    <3>1. Loaded(now)
      BY <1>1, <2>5 DEF InitNode
    <3>2. \A k \in Keys \ excused' : There(s.q, kids, k) <=> k \in managed'
      BY <2>2, <2>3, <2>5, <3>1, LoadedChildren
    <3>3. managed' = ToSet(runtime'.keys)
      BY <3>1 DEF Loaded
    <3>. QED
      BY <2>1, <2>4, <3>2, <3>3, AsksUpkeep
  <2>6. CASE outcome # "ok"
    <3>1. Failed(outcome)
      BY <1>1, <2>6 DEF InitNode
    <3>2. \A k \in Keys \ excused' : There(s.q, kids, k) <=> k \in managed'
      BY <2>2, <2>3, <2>6, <3>1, FailedChildren
    <3>3. runtime' = None
      BY <3>1 DEF Failed
    <3>. QED
      BY <2>1, <2>4, <3>2, <3>3, AsksUpkeep
  <2>. QED
    BY <2>5, <2>6
<1>2. ASSUME NEW call \in HostCalls, Update(call) PROVE UpkeepInv'
  <2> DEFINE s == Finish([rec |-> record, q |-> queue], declared, runtime, call)
  <2>1. Asks(s) /\ \A ks, k : There(s.q, ks, k) <=> There(queue, ks, k)
    BY <1>2, UpdateAsks
  <2> HIDE DEF s
  <2>2. UNCHANGED <<index, kids>> /\ UNCHANGED unheard /\ UNCHANGED <<excused, managed, runtime>>
    BY <1>2 DEF Update
  <2>3. \A k \in Keys \ excused' : There(s.q, kids, k) <=> k \in managed'
    BY <2>1, <2>2 DEF UpkeepInv
  <2>4. runtime' # None => managed' = ToSet(runtime'.keys)
    BY <2>2 DEF UpkeepInv
  <2>. QED
    BY <2>1, <2>2, <2>3, <2>4, AsksUpkeep
<1>3. ASSUME NEW first \in HostCalls, NEW call \in HostCalls, NEW now \in Written("ok"),
             UpdateLoads(first, call, now)
      PROVE  UpkeepInv'
  <2> DEFINE b == AfterLoad("ok", first)
             s == Finish(b, Source.keys, Source, call)
  <2>1. Asks(s) /\ \A k : There(s.q, kids, k) <=> There(b.q, kids, k)
    BY <1>3, LoadingAsks
  <2>2. Source \in Texts /\ queue = <<>> /\ Loaded(now)
    BY <1>3, SourceIs DEF ScriptTyped, UpdateLoads, Due
  <2>3. \A k \in Keys :
           There(b.q, kids, k) <=> (kids[k] = "in" \/ k \in ToSet(Source.keys)) /\ k \notin Stale(Source.keys)
    BY <2>2, HostHere, LoadRight DEF ScriptTyped, Outcomes
  <2> HIDE DEF b, s
  <2>4. \A k \in Keys \ excused' : There(s.q, kids, k) <=> k \in managed'
    BY <2>1, <2>2, <2>3, LoadedChildren
  <2>5. managed' = ToSet(runtime'.keys)
    BY <2>2 DEF Loaded
  <2>6. UNCHANGED <<index, kids>> /\ UNCHANGED unheard
    BY <1>3 DEF UpdateLoads
  <2>. QED
    BY <2>1, <2>4, <2>5, <2>6, AsksUpkeep
<1>4. ASSUME NEW outcome \in Outcomes, NEW call \in HostCalls, UpdateFails(outcome, call) PROVE UpkeepInv'
  <2> DEFINE s == AfterLoad(outcome, call)
  <2>1. Asks(s)
    BY <1>4, FailingAsks
  <2>2. Source \in Texts /\ queue = <<>> /\ outcome # "ok" /\ Failed(outcome)
    BY <1>4, SourceIs DEF ScriptTyped, UpdateFails, Due
  <2>3. \A k \in Keys : (outcome = "initFails" => k \notin ToSet(Source.keys)) =>
                 (There(s.q, kids, k) <=> kids[k] = "in")
    BY <2>2, HostHere, LoadRight DEF ScriptTyped
  <2> HIDE DEF s
  <2>4. \A k \in Keys \ excused' : There(s.q, kids, k) <=> k \in managed'
    BY <2>2, <2>3, FailedChildren
  <2>5. runtime' = None
    BY <2>2 DEF Failed
  <2>6. UNCHANGED <<index, kids>> /\ UNCHANGED unheard
    BY <1>4 DEF UpdateFails
  <2>. QED
    BY <2>1, <2>4, <2>5, <2>6, AsksUpkeep
<1>5. CASE UpdateUnreadable
  BY <1>5 DEF UpdateUnreadable, UpkeepInv
<1>6. ASSUME NEW call \in HostCalls, Inbox(call) PROVE UpkeepInv'
  <2> DEFINE s == Flush([rec |-> record, q |-> queue], call)
  <2>1. Asks(s) /\ \A ks, k : There(s.q, ks, k) <=> There(queue, ks, k)
    BY <1>6, InboxAsks
  <2> HIDE DEF s
  <2>2. UNCHANGED <<index, kids>> /\ UNCHANGED unheard /\ UNCHANGED <<excused, managed, runtime>>
    BY <1>6 DEF Inbox
  <2>3. \A k \in Keys \ excused' : There(s.q, kids, k) <=> k \in managed'
    BY <2>1, <2>2 DEF UpkeepInv
  <2>4. runtime' # None => managed' = ToSet(runtime'.keys)
    BY <2>2 DEF UpkeepInv
  <2>. QED
    BY <2>1, <2>2, <2>3, <2>4, AsksUpkeep
<1>7. CASE ApplyQueue
  <2> DEFINE end == Applied
  <2>1. end \in Batches /\ Fits(end, queue)
    BY AppliedRight
  <2>2. /\ kids' = end.kids /\ index' = end.index
        /\ unheard' = unheard \cup {e.on : e \in {x \in end.dropped : x.op \in {"listen", "unlisten"}}}
        /\ excused' = excused \cup {e.on : e \in {x \in end.dropped : x.op \in {"add", "remove", "move"}}}
        /\ queue' = <<>> /\ UNCHANGED <<record, managed, runtime>>
    BY <1>7 DEF ApplyQueue
  <2> HIDE DEF end
  <2>3. ASSUME NEW t \in Targets \ unheard', NEW l \in Levels
        PROVE  HeardOf(queue', index', t, l) <=> record'[t] = l
    <3>1. t \notin unheard /\ Spared(end.dropped, {"listen", "unlisten"}, t)
      BY <2>2, <2>3 DEF Spared
    <3>2. [on |-> t, level |-> l] \in index' <=> HeardOf(queue, index, t, l)
      BY <2>1, <2>2, <3>1 DEF Fits
    <3>3. HeardOf(queue, index, t, l) <=> record[t] = l
      BY <3>1 DEF UpkeepInv
    <3>4. HeardOf(queue', index', t, l) <=> [on |-> t, level |-> l] \in index'
      BY <2>2, EmptyQueue
    <3>. QED
      BY <2>2, <3>2, <3>3, <3>4
  <2>4. ASSUME NEW k \in Keys \ excused' PROVE There(queue', kids', k) <=> k \in managed'
    <3>1. k \notin excused /\ Spared(end.dropped, {"add", "remove", "move"}, k)
      BY <2>2, <2>4 DEF Spared
    <3>2. kids'[k] = "in" <=> There(queue, kids, k)
      BY <2>1, <2>2, <3>1 DEF Fits
    <3>3. There(queue, kids, k) <=> k \in managed
      BY <3>1 DEF UpkeepInv
    <3>4. There(queue', kids', k) <=> kids'[k] = "in"
      BY <2>2, EmptyQueue
    <3>. QED
      BY <2>2, <3>2, <3>3, <3>4
  <2>5. Linked(queue')
    BY <2>2, EmptyQueue
  <2>6. \A k \in Keys : kids'[k] = "out" => \E j \in Keys : j.home # k.home
    BY <2>1, <2>2 DEF Fits, HomesDiffer
  <2>7. runtime' # None => managed' = ToSet(runtime'.keys)
    BY <2>2 DEF UpkeepInv
  <2>. QED
    BY <2>3, <2>4, <2>5, <2>6, <2>7 DEF UpkeepInv
<1>8. CASE Resolve
  BY <1>8 DEF Resolve, UpkeepInv
<1>9. ASSUME NEW c \in Configs, NEW force \in BOOLEAN, SetConfig(c, force) PROVE UpkeepInv'
  BY <1>9 DEF SetConfig, UpkeepInv
<1>10. CASE RequestReload
  BY <1>10 DEF RequestReload, UpkeepInv
<1>11. CASE Enable
  BY <1>11 DEF Enable, UpkeepInv
<1>12. CASE Destroy
  <2>1. ASSUME NEW t \in Targets \ unheard', NEW l \in Levels
        PROVE  HeardOf(queue', index', t, l) <=> record'[t] = l
    <3>1. /\ queue' = queue /\ index' = {} /\ record'[t] = None
          /\ unheard' = unheard \cup {e.on : e \in {x \in ToSet(queue) : x.op = "listen"}}
      BY <1>12 DEF Destroy
    <3>2. \A i \in DOMAIN queue : queue[i] \in ToSet(queue)
      BY DEF ToSet, ScriptTyped
    <3>3. \A i \in DOMAIN queue : queue[i] # Edit("listen", t, l)
      BY <2>1, <3>1, <3>2 DEF Edit
    <3>4. ~HeardOf(queue', index', t, l)
      BY <3>1, <3>3 DEF HeardOf, Lasting
    <3>. QED
      BY <3>1, <3>4
  <2>2. UNCHANGED <<queue, kids, excused, managed>> /\ runtime' = None
    BY <1>12 DEF Destroy
  <2>. QED
    BY <2>1, <2>2 DEF UpkeepInv
<1>13. CASE Restore
  BY <1>13 DEF Restore, UpkeepInv
<1>14. CASE SaveAndLoad
  <2>1. /\ queue' = <<>> /\ queue = <<>> /\ index' = {} /\ managed' = {} /\ runtime' = None
        /\ excused' = excused \cup managed /\ record' = [t \in Targets |-> None]
        /\ \A k \in Keys : kids'[k] = IF kids[k] = "in" THEN "in" ELSE "absent"
    BY <1>14 DEF SaveAndLoad
  <2>2. ASSUME NEW t \in Targets \ unheard', NEW l \in Levels
        PROVE  HeardOf(queue', index', t, l) <=> record'[t] = l
    <3>1. ~HeardOf(queue', index', t, l)
      <4>1. \A idx : HeardOf(<<>>, idx, t, l) <=> [on |-> t, level |-> l] \in idx
        BY EmptyQueue
      <4>2. HeardOf(queue', index', t, l) <=> [on |-> t, level |-> l] \in index'
        BY <2>1, <4>1
      <4>. QED
        BY <2>1, <4>2
    <3>2. record'[t] = None /\ l # None
      BY <2>1
    <3>. QED
      BY <3>1, <3>2
  <2>3. ASSUME NEW k \in Keys \ excused' PROVE There(queue', kids', k) <=> k \in managed'
    <3>1. k \in Keys \ excused /\ k \notin managed
      BY <2>1
    <3>2. ~There(queue, kids, k)
      BY <3>1 DEF UpkeepInv
    <3>3. ~(kids[k] = "in")
      BY <2>1, <3>2, EmptyQueue
    <3>4. kids'[k] = "absent"
      BY <2>1, <3>1, <3>3
    <3>5. ~There(queue', kids', k)
      BY <2>1, <3>4, EmptyQueue
    <3>. QED
      BY <2>1, <3>5
  <2>4. Linked(queue')
    BY <2>1, EmptyQueue
  <2>. QED
    BY <2>1, <2>2, <2>3, <2>4 DEF UpkeepInv
<1>15. ASSUME NEW text \in Texts \cup {None}, WriteFile(text) PROVE UpkeepInv'
  BY <1>15 DEF WriteFile, UpkeepInv
<1>16. ASSUME NEW u \in Targets, RemoveTarget(u) PROVE UpkeepInv'
  <2>1. index' = {e \in index : e.on # u} /\ unheard' = unheard \cup {u}
        /\ UNCHANGED <<queue, record, kids, excused, managed, runtime>>
    BY <1>16 DEF RemoveTarget
  <2>2. ASSUME NEW t \in Targets \ unheard', NEW l \in Levels
        PROVE  HeardOf(queue', index', t, l) <=> record'[t] = l
    <3>1. t # u /\ ([on |-> t, level |-> l] \in index' <=> [on |-> t, level |-> l] \in index)
      BY <2>1, <2>2
    <3>2. HeardOf(queue', index', t, l) <=> HeardOf(queue, index, t, l)
      <4> DEFINE asked == \E i \in DOMAIN queue : queue[i] = Edit("listen", t, l)
                            /\ \A j \in DOMAIN queue : j > i => queue[j] # Edit("unlisten", t, l)
                 kept == \A j \in DOMAIN queue : queue[j] # Edit("unlisten", t, l)
                 x == [on |-> t, level |-> l]
      <4>1. HeardOf(queue, index, t, l) <=> asked \/ (x \in index /\ kept)
        BY DEF HeardOf, Lasting
      <4>2. HeardOf(queue, index', t, l) <=> asked \/ (x \in index' /\ kept)
        BY DEF HeardOf, Lasting
      <4> HIDE DEF asked, kept
      <4>. QED
        BY <2>1, <3>1, <4>1, <4>2
    <3>. QED
      BY <2>1, <3>2 DEF UpkeepInv
  <2>. QED
    BY <2>1, <2>2 DEF UpkeepInv
<1>17. ASSUME NEW u \in Targets, RestoreTarget(u) PROVE UpkeepInv'
  BY <1>17 DEF RestoreTarget, UpkeepInv
<1>18. ASSUME NEW j \in Keys, RemoveKid(j) PROVE UpkeepInv'
  <2>1. kids' = [kids EXCEPT ![j] = "absent"] /\ excused' = excused \cup {j}
        /\ UNCHANGED <<queue, record, index, unheard, managed, runtime>>
    BY <1>18 DEF RemoveKid
  <2>2. \A k \in Keys : k # j => kids'[k] = kids[k]
    BY <2>1 DEF ScriptTyped, KidStates
  <2>3. kids'[j] = "absent"
    BY <2>1 DEF ScriptTyped, KidStates
  <2>4. ASSUME NEW k \in Keys \ excused' PROVE There(queue', kids', k) <=> k \in managed'
    <3>1. k # j /\ (kids'[k] = "in" <=> kids[k] = "in")
      BY <2>1, <2>2, <2>4
    <3>2. There(queue', kids', k) <=> There(queue, kids, k)
      BY <2>1, <3>1 DEF There, Lasting
    <3>. QED
      BY <2>1, <3>2 DEF UpkeepInv
  <2>5. \A k \in Keys : kids'[k] = "out" => \E i \in Keys : i.home # k.home
    BY <2>2, <2>3 DEF UpkeepInv
  <2>. QED
    BY <2>1, <2>4, <2>5 DEF UpkeepInv
<1>19. CASE OtherChange
  BY <1>19 DEF OtherChange, UpkeepInv
<1>20. CASE UNCHANGED scriptVars
  BY <1>20 DEF scriptVars, UpkeepInv
<1>21. CASE ScriptStep
  BY <1>1, <1>2, <1>3, <1>4, <1>5, <1>6, <1>7, <1>8, <1>21, Zenon DEF ScriptStep
<1>22. CASE OtherStep
  BY <1>9, <1>10, <1>11, <1>12, <1>13, <1>14, <1>15, <1>16, <1>17, <1>18, <1>19, <1>22, Zenon DEF OtherStep
<1>. QED
  BY <1>20, <1>21, <1>22 DEF ScriptsNext

-----------------------------------------------------------------------------
(* The theorems.                                                            *)

LEMMA ScriptsInitRight == ScriptsInit => ScriptTyped /\ FollowInv /\ UpkeepInv
<1> SUFFICES ASSUME ScriptsInit PROVE ScriptTyped /\ FollowInv /\ UpkeepInv
  OBVIOUS
<1> USE DEF ScriptsInit
<1>1. ScriptTyped
  <2>1. record \in Recorded /\ kids \in KidStates /\ file \in Texts \cup {None}
    BY DEF Recorded, KidStates
  <2>2. queue \in Seq(ScriptEdit) /\ declared \in Seq(Keys)
    BY EmptySeq
  <2>3. {inProject, scriptEnabled, reload, dirty, unseen, torn} \subseteq BOOLEAN
    OBVIOUS
  <2>. QED
    BY <2>1, <2>2, <2>3 DEF ScriptTyped
<1>2. FollowInv
  BY DEF FollowInv
<1>3. UpkeepInv
  <2>1. ASSUME NEW t \in Targets \ unheard, NEW l \in Levels
        PROVE  HeardOf(queue, index, t, l) <=> record[t] = l
    <3>1. ~HeardOf(queue, index, t, l)
      BY EmptyQueue
    <3>2. record[t] = None /\ l # None
      BY ScriptsAssumption
    <3>. QED
      BY <3>1, <3>2
  <2>2. ASSUME NEW k \in Keys \ excused PROVE There(queue, kids, k) <=> k \in managed
    <3>1. ~(kids[k] = "in") /\ k \notin managed
      OBVIOUS
    <3>. QED
      BY <3>1, EmptyQueue
  <2>3. Linked(queue) /\ runtime = None /\ \A k \in Keys : kids[k] # "out"
    BY EmptyQueue
  <2>. QED
    BY <2>1, <2>2, <2>3 DEF UpkeepInv
<1>. QED
  BY <1>1, <1>2, <1>3

\* A script node's configuration, runtime, record, queue and children have their
\* types; its stamp and its schedule follow its source, and its queue leads to
\* what it keeps a record of.
THEOREM ScriptKept == ScriptsSpec => [](ScriptTyped /\ FollowInv /\ UpkeepInv)
<1>1. ScriptTyped /\ FollowInv /\ UpkeepInv /\ [ScriptsNext]_scriptVars => (ScriptTyped /\ FollowInv /\ UpkeepInv)'
  BY TypedStep, FollowStep, UpkeepStep
<1>. QED
  BY <1>1, ScriptsInitRight, PTL DEF ScriptsSpec

LEMMA FollowsIs == ScriptTyped /\ FollowInv => FollowsSource
<1> SUFFICES ASSUME ScriptTyped, FollowInv, inProject, scriptEnabled, Source # None, runtime # Source, ~unseen, ~torn
             PROVE  Scheduled /\ MustLoad
  BY DEF FollowsSource
<1>1. /\ config.kind = "inline" => Source = config.text
      /\ config.kind # "inline" => config.kind = "file" /\ Source = file
  BY SourceIs DEF ScriptTyped
<1>2. MustLoad
  <2> SUFFICES ASSUME stamp # None, runtime # None
               PROVE  ~(config.kind = "file" /\ stamp.same) /\ Source # stamp.text
    BY DEF MustLoad, SourceChanged
  <2>1. stamp.text = runtime
    BY DEF FollowInv
  <2>2. config.kind = "file" /\ stamp.same => file = stamp.text
    BY DEF FollowInv
  <2>. QED
    BY <1>1, <2>1, <2>2
<1>3. ASSUME runtime # None, ~reload PROVE config.kind = "file"
  BY <1>1, <1>3 DEF FollowInv
<1>4. Rule # "passive"
  BY <1>3 DEF Rule
<1>5. ~dirty => rule # "passive"
  <2> SUFFICES ASSUME ~dirty, rule = "passive" PROVE FALSE
    OBVIOUS
  <2>1. config.kind = "inline" /\ runtime = config.text
    BY DEF FollowInv
  <2>. QED
    BY <1>1, <2>1
<1>6. Scheduled
  BY <1>4, <1>5 DEF Scheduled
<1>. QED
  BY <1>2, <1>6

\* An enabled script whose source changed is scheduled and will load it, for any
\* texts and any number of edits, writes, reloads, removals and failed loads
\* (ScriptNode::update, execution_rule, has_source_changed).
THEOREM FollowsSourceCorrect == ScriptsSpec => []FollowsSource
BY ScriptKept, FollowsIs, PTL

LEMMA UpkeepIs == ScriptTyped /\ UpkeepInv => UpkeepAgrees
<1> SUFFICES ASSUME ScriptTyped, UpkeepInv PROVE ListenersAgree /\ ChildrenAgree
  BY DEF UpkeepAgrees
<1>1. ListenersAgree
  <2> SUFFICES ASSUME queue = <<>>, NEW t \in Targets \ unheard
               PROVE  {e.level : e \in {x \in index : x.on = t}} = {record[t]} \ {None}
    BY DEF ListenersAgree
  <2>1. \A l \in Levels : [on |-> t, level |-> l] \in index <=> record[t] = l
    BY EmptyQueue DEF UpkeepInv
  <2>2. \A e \in index : e.level \in Levels /\ e = [on |-> e.on, level |-> e.level]
    BY DEF ScriptTyped, Listening
  <2>3. record[t] \in Levels \cup {None}
    BY DEF ScriptTyped, Recorded
  <2>4. ASSUME NEW e \in index, e.on = t PROVE e.level \in {record[t]} \ {None}
    BY <2>1, <2>2, <2>4
  <2>5. ASSUME record[t] # None PROVE \E e \in index : e.on = t /\ e.level = record[t]
    <3>1. [on |-> t, level |-> record[t]] \in index
      BY <2>1, <2>3, <2>5
    <3>. QED
      BY <3>1
  <2>. QED
    BY <2>4, <2>5
<1>2. ChildrenAgree
  BY EmptyQueue DEF ChildrenAgree, UpkeepInv
<1>. QED
  BY <1>1, <1>2

\* Once the edits of a script are applied, the engine's listeners and children of it
\* are those it declared, for any callbacks, loads, failures, removals and refused
\* batches, and no child is left out of the tree by the order they are declared in.
THEOREM UpkeepAgreesCorrect == ScriptsSpec => []UpkeepAgrees
BY ScriptKept, UpkeepIs, PTL
=============================================================================
