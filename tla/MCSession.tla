----------------------------- MODULE MCSession -----------------------------
(* TLC instance of Session: one URL for each thing the code tells apart, and *)
(* a value or two for each builder method.                                   *)
EXTENDS Session

CONSTANTS n1, n2, p1, p2, u1, ch1, az1, pem1, pem2

Tcp(n) == [tag |-> "Tcp", node |-> n]
Tls(n, insecure, params) ==
  [tag |-> "TcpTls", node |-> n, insecure |-> insecure, tls_params |-> params]
Redis == [db |-> 0, username |-> None, password |-> None, client_name |-> None,
          protocol |-> "RESP2"]
At(addr, redis) == [valid |-> TRUE, addr |-> addr, redis |-> redis]

MCUrl == {At(Tcp(n1), Redis), At(Tcp(n2), Redis),
          At(Tls(n1, FALSE, FALSE), Redis), At(Tls(n2, TRUE, FALSE), Redis),
          At(Tls(n1, FALSE, TRUE), Redis), At([tag |-> "Unix", node |-> n1], Redis),
          At(Tcp(n1), [Redis EXCEPT !.db = 2]),
          At(Tcp(n1), [Redis EXCEPT !.password = Some(p1)]),
          At(Tcp(n2), [Redis EXCEPT !.password = Some(p1), !.username = Some(u1)]),
          At(Tcp(n1), [Redis EXCEPT !.client_name = Some(u1)]),
          At(Tcp(n2), [Redis EXCEPT !.protocol = "RESP3"]),
          [At(Tcp(n1), Redis) EXCEPT !.valid = FALSE]}

MCPassword == {None, Some(p1), Some(p2)}

MCSetting ==
  [tls |-> {"SecureTls", "NoTls"},
   tls_ca_cert |-> {pem1, pem2},
   client_identity |-> {[cert_pem |-> pem1, key_pem |-> pem2]},
   credentials |-> {password_only(p1), user_password(u1, p2),
                    with_password(iam(u1, IamAuthConfig(n1, az1, "MemoryDB", Some(1))), p1)},
   read_from |-> {[tag |-> "AZAffinity", az |-> Some(az1)]},
   request_timeout |-> {0, 1500, 7500},
   connection_timeout |-> {4999},
   inflight_requests_limit |-> {1},
   client_name |-> {u1},
   protocol |-> {"RESP2", "RESP3"},
   lazy_connect |-> BOOLEAN,
   reconnect_strategy |-> {[num_of_retries |-> 1, factor |-> 2, exponent_base |-> 3,
                            jitter_percent |-> Some(10)]},
   subscriptions |-> {NoSubscriptions, subscribe(NoSubscriptions, "Sharded", ch1)},
   enable_pubsub |-> {TRUE},
   database_id |-> {2},
   periodic_checks |-> {[tag |-> "ManualInterval", secs |-> 1], [tag |-> "Disabled"]}]
=============================================================================
