------------------------------ MODULE MCAgent -------------------------------
(***************************************************************************)
(* RemoteAgent for TLC: a run on two clients, a second one that meets it on *)
(* one of them, and the setups that differ in how a request is let through. *)
(***************************************************************************)
EXTENDS RemoteAgent

Pair(c, t) == [client |-> c, target |-> t]
MCPlans == <<{Pair("client1", "target1"), Pair("client2", "target1")}, {Pair("client1", "target1")}>>

Setup(at, ct, tls, https, ca, cert) ==
    [agentToken |-> at, clientToken |-> ct, serverTLS |-> tls,
     https |-> https, clientCA |-> ca, clientCert |-> cert]
MCSetups == {Setup("", "", "off", FALSE, FALSE, FALSE),
             Setup("secret", "", "on", TRUE, TRUE, FALSE),
             Setup("secret", "secret", "mutual", TRUE, TRUE, FALSE),
             Setup("", "", "on", FALSE, FALSE, FALSE),
             Setup("", "", "key only", TRUE, TRUE, FALSE)}
=============================================================================
