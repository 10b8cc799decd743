------------------------------ MODULE Register ------------------------------
(***************************************************************************)
(* The announcement of a server (zeroconf-reg.c), kept up by callbacks     *)
(* from Avahi's thread.  The records of a service are a group that belongs *)
(* to a connection to the Avahi daemon; Avahi forgets a group when its     *)
(* connection ends, and withdraws its records on a collision.              *)
(***************************************************************************)
EXTENDS Naturals

CONSTANTS
  MaxClients,     \* bound: connections
  MaxCollisions   \* bound: names tried

VARIABLES
  client,         \* ctx->client: the number of the connection, 0 for none
  clientState,    \* AvahiClientState as last reported
  group,          \* ctx->group: [of, records]
  tried,          \* ctx->name: how many alternatives were made
  thread          \* ctx->threaded_poll: "run", "quit" or "stopped"
registerVars == <<client, clientState, group, tried, thread>>

NoGroup == [of |-> 0, records |-> "none"]
Quit == thread' = "quit"

(* register_stuff(), for the name that is current *)
RegisterStuff ==
  \/ /\ group' = IF group = NoGroup THEN [of |-> client', records |-> "committed"]
                 ELSE [group EXCEPT !.records = "committed"]
     /\ UNCHANGED thread
  \/ (* the group cannot be made, or its records not be added *)
     /\ group' \in {group, [of |-> client', records |-> "empty"]}
     /\ group.records \in {"none", "empty"}
     /\ Quit

(* client_callback(): AVAHI_CLIENT_S_RUNNING; S_COLLISION and S_REGISTERING;
   FAILURE *)
ClientRunning ==
  /\ thread = "run" /\ clientState # "running"
  /\ clientState' = "running"
  /\ UNCHANGED client
  /\ RegisterStuff
  /\ UNCHANGED tried
ClientRegistering ==
  /\ thread = "run" /\ clientState \in {"connecting", "running"}
  /\ clientState' = "registering"
  /\ group' = IF group = NoGroup THEN group ELSE [group EXCEPT !.records = "empty"]
  /\ UNCHANGED <<client, tried, thread>>
(* the group of the connection that ended is kept *)
ClientDisconnected_KeepsGroup ==
  /\ thread = "run" /\ client < MaxClients
  /\ clientState' = "connecting"
  /\ \/ client' = client + 1 /\ UNCHANGED thread
     \/ client' = 0 /\ Quit
  /\ UNCHANGED <<group, tried>>
ClientDisconnected ==
  /\ thread = "run" /\ client < MaxClients
  /\ clientState' = "connecting"
  /\ \/ client' = client + 1 /\ UNCHANGED thread
     \/ client' = 0 /\ Quit
  /\ group' = NoGroup
  /\ UNCHANGED tried
ClientFailed ==
  /\ thread = "run" /\ Quit
  /\ UNCHANGED <<client, clientState, group, tried>>

(* publish_reply(): a collision, which empties the group, and a failure *)
PublishCollision ==
  /\ thread = "run" /\ clientState = "running" /\ group.records = "committed" /\ tried < MaxCollisions
  /\ tried' = tried + 1
  /\ UNCHANGED <<client, clientState>>
  /\ \/ UNCHANGED <<group, thread>>
     \/ group' = [group EXCEPT !.records = "empty"] /\ Quit
PublishFailed ==
  /\ thread = "run" /\ group.records = "committed" /\ Quit
  /\ UNCHANGED <<client, clientState, group, tried>>

(* dcc_zeroconf_unregister() *)
Unregister ==
  /\ thread # "stopped" /\ thread' = "stopped"
  /\ client' = 0 /\ group' = NoGroup
  /\ UNCHANGED <<clientState, tried>>

(* dcc_zeroconf_register(), up to the start of the thread *)
RegisterInit ==
  /\ client = 1 /\ clientState = "connecting" /\ group = NoGroup /\ tried = 0 /\ thread = "run"
RegisterNext ==
  \/ ClientRunning \/ ClientRegistering \/ ClientDisconnected \/ ClientFailed
  \/ PublishCollision \/ PublishFailed \/ Unregister
RegisterSpec == RegisterInit /\ [][RegisterNext]_registerVars

(***************************************************************************)
(* Properties                                                              *)
(***************************************************************************)
(* As long as the thread runs and Avahi does, the service is announced, after any
   sequence of collisions, restarts of Avahi and changes of the host's name, and
   by a group of the connection that is open.  (client_callback(),
   publish_reply(), register_stuff()) *)
RunningIsAnnounced ==
  thread = "run" =>
    /\ group # NoGroup => group.of = client
    /\ clientState = "running" => group.records = "committed"
=============================================================================
