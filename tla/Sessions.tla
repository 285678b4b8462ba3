------------------------------ MODULE Sessions ------------------------------
(* The session keys of pkg/p2p/p2p.go: Kyber handshakes between peers.  A new *)
(* connection is reported at each end that has registered for notifications, *)
(* and each report starts a goroutine that runs a handshake of its own; so   *)
(* two peers normally run two handshakes at once, in opposite directions,    *)
(* and each end keeps the key it stores last.                                *)
(*                                                                           *)
(* libp2p and Kyber are external: a stream delivers what is written or       *)
(* breaks, and the shared secret of a handshake, which both ends derive, is  *)
(* named by the handshake's number.                                          *)
EXTENDS Integers, Sequences

CONSTANTS
  Peer,            \* peer identities
  NoKey,           \* an empty entry of P2P.sessions
  MaxConnections,  \* bound on the connections made
  MaxFailures      \* bound on the streams that break

ASSUME SessionsAssumption ==
  /\ NoKey \notin Nat
  /\ {MaxConnections, MaxFailures} \subseteq Nat

VARIABLES
  up,           \* peers whose New has registered for notifications
  connections,  \* how many connections were made
  starting,     \* goroutines of initiateKyber that have not opened a stream
  handshakes,   \* the handshakes started, in order
  sessions,     \* P2P.sessions of each peer
  failures      \* how many streams broke

sessionsVars == << up, connections, starting, handshakes, sessions, failures >>

\* "client" is the state of initiateKyber, "server" of handleKyberStream.  The
\* server has sent the ciphertext before it stores the key.  "alone" is
\* bookkeeping: no other handshake of the two peers overlapped this one.
Handshake == [from : Peer, to : Peer,
              client : {"waiting", "done", "failed"},
              server : {"waiting", "sent", "done", "failed"},
              alone : BOOLEAN]

Key == {NoKey} \union DOMAIN handshakes

SessionsTypeOK ==
  /\ up \subseteq Peer
  /\ connections \in 0 .. MaxConnections
  /\ starting \in [Peer -> [Peer -> 0 .. MaxConnections]]
  /\ handshakes \in Seq(Handshake)
  /\ sessions \in [Peer -> [Peer -> Key]]
  /\ failures \in Nat

-----------------------------------------------------------------------------

Ended(k) == /\ handshakes[k].client \in {"done", "failed"}
            /\ handshakes[k].server \in {"done", "failed"}

Between(k, p, q) == {handshakes[k].from, handshakes[k].to} = {p, q}

Running(p, q) == { k \in DOMAIN handshakes : Between(k, p, q) /\ ~Ended(k) }

\* The end of New: the peer registers for notifications.  It accepts streams, and
\* has dialled its bootstrap peers, before.
Register(p) ==
  /\ p \notin up
  /\ up' = up \union {p}
  /\ UNCHANGED << connections, starting, handshakes, sessions, failures >>

\* Mutant: each end registers for notifications twice.
ConnectToldTwice(p, q) ==
  /\ connections < MaxConnections
  /\ connections' = connections + 1
  /\ starting' = [x \in Peer |-> [y \in Peer |->
       IF {x, y} = {p, q} /\ x \in up THEN starting[x][y] + 2
                                      ELSE starting[x][y]]]
  /\ UNCHANGED << up, handshakes, sessions, failures >>

\* A connection, dialled by connectPeer or by the DHT at either end: every end
\* that is registered starts a handshake.
Connect(p, q) ==
  /\ connections < MaxConnections
  /\ connections' = connections + 1
  /\ starting' = [x \in Peer |-> [y \in Peer |->
       IF {x, y} = {p, q} /\ x \in up THEN starting[x][y] + 1
                                      ELSE starting[x][y]]]
  /\ UNCHANGED << up, handshakes, sessions, failures >>

\* A break needs a failure of the network, counted here, unless the other end
\* has failed and closed the stream.
Breaks(otherEnd) ==
  \/ otherEnd = "failed" /\ UNCHANGED failures
  \/ failures < MaxFailures /\ failures' = failures + 1

\* initiateKyber opens the stream and sends a fresh public key.
OpenStream(p, q) ==
  /\ starting[p][q] > 0
  /\ starting' = [starting EXCEPT ![p][q] = @ - 1]
  /\ handshakes' =
       Append([k \in DOMAIN handshakes |->
                 IF k \in Running(p, q) THEN [handshakes[k] EXCEPT !.alone = FALSE]
                                        ELSE handshakes[k]],
              [from |-> p, to |-> q, client |-> "waiting", server |-> "waiting",
               alone |-> Running(p, q) = {}])
  /\ UNCHANGED << up, connections, sessions, failures >>

\* NewStream fails.
OpenFails(p, q) ==
  /\ starting[p][q] > 0
  /\ starting' = [starting EXCEPT ![p][q] = @ - 1]
  /\ Breaks("waiting")
  /\ UNCHANGED << up, connections, handshakes, sessions >>

\* Mutant: a peer keeps the first key.
StoreSessionOnce(p, q, k) ==
  sessions' = IF sessions[p][q] = NoKey THEN [sessions EXCEPT ![p][q] = k]
                                        ELSE sessions

\* storeSession: the key replaces the one before.
StoreSession(p, q, k) == sessions' = [sessions EXCEPT ![p][q] = k]

\* handleKyberStream: the public key is read, the ciphertext is sent.
ServerAnswers(k) ==
  /\ handshakes[k].server = "waiting"
  /\ handshakes' = [handshakes EXCEPT ![k].server = "sent"]
  /\ UNCHANGED << up, connections, starting, sessions, failures >>

\* Mutant: the key is stored under the server's own identity.
ServerStoresOwn(k) ==
  /\ handshakes[k].server = "sent"
  /\ handshakes' = [handshakes EXCEPT ![k].server = "done"]
  /\ StoreSession(handshakes[k].to, handshakes[k].to, k)
  /\ UNCHANGED << up, connections, starting, failures >>

ServerStores(k) ==
  /\ handshakes[k].server = "sent"
  /\ handshakes' = [handshakes EXCEPT ![k].server = "done"]
  /\ StoreSession(handshakes[k].to, handshakes[k].from, k)
  /\ UNCHANGED << up, connections, starting, failures >>

\* The server returns early: nothing is stored and the stream is closed.
ServerFails(k) ==
  /\ handshakes[k].server = "waiting"
  /\ handshakes' = [handshakes EXCEPT ![k].server = "failed"]
  /\ Breaks(handshakes[k].client)
  /\ UNCHANGED << up, connections, starting, sessions >>

\* initiateKyber reads the ciphertext and stores the key.
ClientStores(k) ==
  /\ handshakes[k].client = "waiting"
  /\ handshakes[k].server \in {"sent", "done"}
  /\ handshakes' = [handshakes EXCEPT ![k].client = "done"]
  /\ StoreSession(handshakes[k].from, handshakes[k].to, k)
  /\ UNCHANGED << up, connections, starting, failures >>

\* Mutant: a server that fails does not close the stream.
ClientFailsAlone(k) ==
  /\ handshakes[k].client = "waiting"
  /\ handshakes' = [handshakes EXCEPT ![k].client = "failed"]
  /\ Breaks("waiting")
  /\ UNCHANGED << up, connections, starting, sessions >>

\* initiateKyber returns early.
ClientFails(k) ==
  /\ handshakes[k].client = "waiting"
  /\ handshakes' = [handshakes EXCEPT ![k].client = "failed"]
  /\ Breaks(handshakes[k].server)
  /\ UNCHANGED << up, connections, starting, sessions >>

\* EncryptForPeer and DecryptFromPeer: a ciphertext stands for the key it was
\* made with, and opens only with that key.
EncryptForPeer(p, q) == sessions[p][q]
DecryptFromPeer(p, q, ciphertext) ==
  sessions[p][q] # NoKey /\ sessions[p][q] = ciphertext

-----------------------------------------------------------------------------

SessionsInit ==
  /\ up = {}
  /\ connections = 0
  /\ starting = [p \in Peer |-> [q \in Peer |-> 0]]
  /\ handshakes = << >>
  /\ sessions = [p \in Peer |-> [q \in Peer |-> NoKey]]
  /\ failures = 0

SessionsNext ==
  \/ \E p \in Peer : Register(p)
  \/ \E p \in Peer : \E q \in Peer \ {p} :
       Connect(p, q) \/ OpenStream(p, q) \/ OpenFails(p, q)
  \/ \E k \in DOMAIN handshakes :
       \/ ServerAnswers(k) \/ ServerStores(k) \/ ServerFails(k)
       \/ ClientStores(k) \/ ClientFails(k)

SessionsSpec == SessionsInit /\ [][SessionsNext]_sessionsVars

\* Goroutines run, and a stream delivers what is written or breaks.  Connections
\* and failures may happen but need not.
Fairness ==
  /\ \A p, q \in Peer : WF_sessionsVars(OpenStream(p, q))
  /\ \A k \in 1 .. (2 * MaxConnections) :
       LET known == k \in DOMAIN handshakes IN
       /\ WF_sessionsVars(known /\ (ServerAnswers(k) \/ ServerFails(k)))
       /\ WF_sessionsVars(known /\ ServerStores(k))
       /\ WF_sessionsVars(known /\ (ClientStores(k) \/ ClientFails(k)))

FairSpec == SessionsSpec /\ Fairness

-----------------------------------------------------------------------------
(* Properties.                                                               *)

\* A handshake that no other one of its peers overlaps, and that ends well at
\* both ends, leaves both with its key until the next one starts, whatever keys
\* earlier, failed or overlapping, handshakes (initiateKyber,
\* handleKyberStream) had left: each end opens what the other encrypts.
SoloHandshakeAgrees ==
  \A k \in DOMAIN handshakes :
    LET h == handshakes[k] IN
    (/\ h.alone /\ h.client = "done" /\ h.server = "done"
     /\ \A j \in DOMAIN handshakes : Between(j, h.from, h.to) => j <= k)
      => /\ sessions[h.from][h.to] = k
         /\ DecryptFromPeer(h.to, h.from, EncryptForPeer(h.from, h.to))
         /\ DecryptFromPeer(h.from, h.to, EncryptForPeer(h.to, h.from))

\* The ends of concurrent handshakes do not wait for each other for ever, also
\* when streams break: all handshakes end, at both ends.
HandshakesEnd ==
  <>[](/\ \A p, q \in Peer : starting[p][q] = 0
       /\ \A k \in DOMAIN handshakes : Ended(k))

\* Two peers of which one has been told of their connection come to have keys
\* for each other, if no stream breaks.
Established ==
  \A p, q \in Peer :
    starting[p][q] > 0 ~>
      (failures > 0 \/ (sessions[p][q] # NoKey /\ sessions[q][p] # NoKey))

=============================================================================
