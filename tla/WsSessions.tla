----------------------------- MODULE WsSessions -----------------------------
(***************************************************************************)
(* Connections, client instances and edit sessions (ui_server.rs): every    *)
(* WebSocket connection has a thread that forwards its commands to the hub, *)
(* the hub binds connections to client instances (a browser tab keeps its   *)
(* instance id over reconnects), and the engine's one edit session belongs  *)
(* to an instance and must be cancelled when its client is gone.            *)
(*                                                                          *)
(* What a session records is EditHistory's subject.  Requests over HTTP are *)
(* reduced to the one that cancels the session of an instance.              *)
(***************************************************************************)
EXTENDS Naturals, Sequences

CONSTANTS
    Sockets,    \* connections: a client_id each
    Instances,  \* client_instance_id
    Nobody,     \* Option::None
    MaxSaid     \* bound on the messages of all connections

ASSUME SessionsAssumption == Nobody \notin Sockets \cup Instances /\ "unknown" \notin Instances

VARIABLES
    conn,      \* the connection's thread: new, open, closing, closed
    said,      \* messages the connections have sent
    channel,   \* cmd_tx: commands on their way to the hub
    clients,   \* hub: registered connections, with their client_instance_id
    tabs,      \* hub: client_instances
    session,   \* active_edit_session
    stranded   \* for the properties only: is the session one nobody will cancel?

socketVars == <<conn, said>>
hubVars == <<clients, tabs>>
sessionVars == <<socketVars, channel, hubVars, session, stranded>>

NoSession == [by |-> Nobody, owner |-> Nobody]
Unknown == "unknown"   \* not in clients

SessionsInit ==
    /\ conn = [s \in Sockets |-> "new"]
    /\ said = 0
    /\ channel = <<>>
    /\ clients = [s \in Sockets |-> Unknown]
    /\ tabs = [i \in Instances |-> Nobody]
    /\ session = NoSession
    /\ stranded = FALSE

-----------------------------------------------------------------------------
(* handle_ws_connection.                                                    *)
Command(kind, s, i) == [kind |-> kind, sock |-> s, instance |-> i]

Connect(s) ==
    /\ conn[s] = "new"
    /\ conn' = [conn EXCEPT ![s] = "open"]
    /\ channel' = Append(channel, Command("register", s, Nobody))
    /\ UNCHANGED <<said, hubVars, session, stranded>>

Say(s, command) ==
    /\ conn[s] = "open" /\ said < MaxSaid
    /\ said' = said + 1
    /\ channel' = Append(channel, command)
    /\ UNCHANGED <<conn, hubVars, session, stranded>>

Hello(s, i) == Say(s, Command("bind", s, i))
Begin(s) == Say(s, Command("begin", s, Nobody))
End(s) == Say(s, Command("end", s, Nobody))

\* An IntentBatch of BeginEdit, an edit and EndEdit.
BeginEditEnd(s) == Say(s, Command("batch", s, Nobody))

\* Closed, timed out, failed, or told to close by the hub.
Leave(s) ==
    /\ conn[s] = "open"
    /\ conn' = [conn EXCEPT ![s] = "closing"]
    /\ channel' = Append(channel, Command("unregister", s, Nobody))
    /\ UNCHANGED <<said, hubVars, session, stranded>>

\* The thread ends, and with it the receiver of its outbound channel.
Hangup(s) ==
    /\ conn[s] = "closing"
    /\ conn' = [conn EXCEPT ![s] = "closed"]
    /\ UNCHANGED <<said, channel, hubVars, session, stranded>>

-----------------------------------------------------------------------------
(* ws_hub_loop.                                                             *)
Takes(kind) == channel # <<>> /\ Head(channel).kind = kind /\ channel' = Tail(channel)

\* Seeded fault: the session of a client that is gone is kept.
Cancelled_keeps(i) == session

\* cancel_active_ui_edit_session_for_client.
Cancelled(i) == IF session.owner = i THEN NoSession ELSE session

\* Nobody will cancel a session whose connection the hub forgets some other way.
Strands(s) == stranded' = (stranded \/ (session.by = s /\ session.owner # Nobody))

\* send_to_client: a client that cannot be reached is forgotten.
SendTo(s, known) ==
    IF known[s] # Unknown /\ conn[s] = "closed"
    THEN clients' = [known EXCEPT ![s] = Unknown] /\ Strands(s)
    ELSE clients' = known /\ UNCHANGED stranded

HandleRegister ==
    /\ Takes("register")
    /\ LET s == Head(channel).sock IN SendTo(s, [clients EXCEPT ![s] = Nobody])
    /\ UNCHANGED <<socketVars, tabs, session>>

\* The entry of the instance the connection was bound to before is removed.
Unbound(s) == [i \in Instances |-> IF i = clients[s] /\ tabs[i] = s THEN Nobody ELSE tabs[i]]

\* Seeded fault: the replaced connection stays registered.
Displaced_stays(known, s) == known

Displaced(known, s) == [known EXCEPT ![s] = Unknown]

\* BindClientInstance: a second connection of an instance replaces the first.
HandleBind ==
    /\ Takes("bind")
    /\ LET s == Head(channel).sock
           i == Head(channel).instance
           previous == Unbound(s)[i]
           displaces == previous \notin {Nobody, s}
       IN  IF clients[s] = Unknown THEN UNCHANGED <<hubVars, session, stranded>>
           ELSE /\ tabs' = [Unbound(s) EXCEPT ![i] = s]
                /\ clients' = LET known == [clients EXCEPT ![s] = i]
                              IN  IF displaces THEN Displaced(known, previous) ELSE known
                /\ session' = IF displaces THEN Cancelled(i) ELSE session
                /\ stranded' = (/\ session' # NoSession
                                /\ (stranded \/ (clients[s] # i /\ session.by = s /\ session.owner # Nobody)))
    /\ UNCHANGED socketVars

\* UnregisterClient: what a connection leaves behind goes with it, if the hub
\* still knows it.
HandleUnregister ==
    /\ Takes("unregister")
    /\ LET s == Head(channel).sock
           i == clients[s]
       IN  /\ clients' = [clients EXCEPT ![s] = Unknown]
           /\ IF i \in Instances
              THEN /\ tabs' = [tabs EXCEPT ![i] = IF @ = s THEN Nobody ELSE @]
                   /\ session' = Cancelled(i)
                   /\ stranded' = (stranded /\ session' # NoSession)
              ELSE UNCHANGED <<tabs, session, stranded>>
    /\ UNCHANGED socketVars

\* The instance an intent is applied for; a connection the hub does not know
\* has none.
InstanceOf(s) == IF clients[s] \in Instances THEN clients[s] ELSE Nobody

Begun(cur, s) == IF cur = NoSession THEN [by |-> s, owner |-> InstanceOf(s)] ELSE cur
Ended(cur, s) == IF cur.by = s THEN NoSession ELSE cur

\* Intent and IntentBatch, then the acknowledgement.  A batch ends the session it
\* opened even when its edit is rejected, and leaves one it finds open alone.
HandleSessionIntent ==
    /\ \E kind \in {"begin", "end", "batch"} : Takes(kind)
    /\ LET m == Head(channel)
           s == m.sock
           after == CASE m.kind = "begin" -> Begun(session, s)
                      [] m.kind = "end" -> Ended(session, s)
                      [] m.kind = "batch" -> session
           unreachable == clients[s] # Unknown /\ conn[s] = "closed"
       IN  /\ session' = after
           /\ clients' = IF unreachable THEN [clients EXCEPT ![s] = Unknown] ELSE clients
           /\ stranded' = (after # NoSession /\ (stranded \/ (unreachable /\ after.by = s)))
    /\ UNCHANGED <<socketVars, tabs>>

\* dispatch_ws_batches has something for a client.
SendBatch(s) ==
    /\ clients[s] # Unknown
    /\ SendTo(s, clients)
    /\ UNCHANGED <<socketVars, channel, tabs, session>>

-----------------------------------------------------------------------------
(* Other threads that hold the engine.                                      *)

\* A snapshot request with cancel_active_edit_session.
HttpCancel(i) ==
    /\ session.owner = i
    /\ session' = NoSession /\ stranded' = FALSE
    /\ UNCHANGED <<socketVars, channel, hubVars>>

\* Replacing the project replaces the engine, session and all.
ReplaceProject ==
    /\ session # NoSession
    /\ session' = NoSession /\ stranded' = FALSE
    /\ UNCHANGED <<socketVars, channel, hubVars>>

-----------------------------------------------------------------------------
SessionsNext ==
    \/ \E s \in Sockets :
        \/ Connect(s) \/ Begin(s) \/ End(s) \/ BeginEditEnd(s)
        \/ Leave(s) \/ Hangup(s) \/ SendBatch(s)
        \/ \E i \in Instances : Hello(s, i)
    \/ HandleRegister \/ HandleBind \/ HandleUnregister \/ HandleSessionIntent
    \/ \E i \in Instances : HttpCancel(i)
    \/ ReplaceProject

SessionsSpec == SessionsInit /\ [][SessionsNext]_sessionVars

-----------------------------------------------------------------------------
SessionsCanBeCancelled ==
    session.owner # Nobody => stranded \/ clients[session.by] = session.owner

OneConnectionPerInstance ==
    \A s \in Sockets : clients[s] \in Instances => tabs[clients[s]] = s

(* An open session of an instance can still be cancelled: the connection    *)
(* that opened it is registered, under that instance, so that its end or a  *)
(* reconnect of the instance cancels it.  Three ways lose track of it, and  *)
(* the code takes them: the hub forgets a connection because a send failed  *)
(* before it read the connection's Unregister, the connection is bound to   *)
(* another instance, or its intents are read when the hub has forgotten it  *)
(* (the session then belongs to nobody, and the property says nothing).     *)
(* And at most one registered connection speaks for an instance, the one a  *)
(* reconnect will find.                                                     *)
ConnectionsKeepTheirOwn == SessionsCanBeCancelled /\ OneConnectionPerInstance

=============================================================================
