------------------------------- MODULE Config -------------------------------
(***************************************************************************)
(* The client configurations (config/common.rs, standalone.rs, cluster.rs):*)
(* how a URL, a list of URLs or builder calls make a configuration, and    *)
(* how it is lowered to the ConnectionRequest of glide-core.  Operators    *)
(* only; Session builds, connects and reconnects with them.                *)
(*                                                                         *)
(* Names, certificates and addresses are opaque values.  An Option is a    *)
(* sequence of at most one item, a Duration a number of microseconds, and  *)
(* MaxU32 stands for u32::MAX.                                             *)
(***************************************************************************)
EXTENDS Naturals, Sequences

CONSTANT MaxU32

ASSUME MaxU32Assumption == MaxU32 \in Nat

None == <<>>
Some(x) == <<x>>
IsSome(o) == o # None
IsOption(o) == IsSome(o) => o = Some(o[1])
Map(Op(_), o) == [i \in DOMAIN o |-> Op(o[i])]

Ok(x) == [ok |-> TRUE, value |-> x]
Err == [ok |-> FALSE, value |-> None]     \* GlideError::Configuration
-----------------------------------------------------------------------------
(* What each setting is to the core. *)
TlsMode == [NoTls |-> "NoTls", SecureTls |-> "SecureTls", InsecureTls |-> "InsecureTls"]

CoreProtocol == [RESP2 |-> "RESP2", RESP3 |-> "RESP3"]
from_redis_protocol == [RESP2 |-> "RESP2", RESP3 |-> "RESP3"]

SubscriptionKind == [Exact |-> "Exact", Pattern |-> "Pattern", Sharded |-> "Sharded"]

CoreReadFrom(r) ==
  IF r.tag \in {"AZAffinity", "AZAffinityReplicasAndPrimary"}
  THEN [tag |-> r.tag, az |-> r.az]
  ELSE [tag |-> r.tag, az |-> None]

ConnectionRetryStrategy(b) ==
  [exponent_base |-> b.exponent_base, factor |-> b.factor,
   number_of_retries |-> b.num_of_retries, jitter_percent |-> b.jitter_percent]

PeriodicCheck(p) ==
  IF p.tag = "ManualInterval" THEN [tag |-> p.tag, interval |-> p.secs * 1000 * 1000]
  ELSE [tag |-> p.tag, interval |-> 0]

(* Subscriptions: a set of channels for each mode that was subscribed to. *)
NoSubscriptions == <<>>

subscribe(subs, mode, channel) ==
  [m \in DOMAIN subs \cup {mode} |->
     (IF m \in DOMAIN subs THEN subs[m] ELSE {}) \cup (IF m = mode THEN {channel} ELSE {})]

is_empty(subs) == \A m \in DOMAIN subs : subs[m] = {}

SubscriptionInfo(subs) ==
  [kind \in {SubscriptionKind[m] : m \in DOMAIN subs} |->
     UNION {subs[m] : m \in {x \in DOMAIN subs : SubscriptionKind[x] = kind}}]

(* ServerCredentials: password, user and password, or IAM, then with_password. *)
Credentials(username, password, iam_config) ==
  [username |-> username, password |-> password, iam_config |-> iam_config]

password_only(p)    == Credentials(None, Some(p), None)
user_password(u, p) == Credentials(Some(u), Some(p), None)
iam(u, c)           == Credentials(Some(u), None, Some(c))
with_password(c, p) == [c EXCEPT !.password = Some(p)]

IamAuthConfig(cluster, region, service, refresh) ==
  [cluster_name |-> cluster, region |-> region, service_type |-> service,
   refresh_interval_seconds |-> refresh]

AuthenticationInfo(c) ==
  [username |-> c.username, password |-> c.password,
   iam_config |-> Map(LAMBDA i : IamAuthConfig(i.cluster_name, i.region, i.service_type,
                                               i.refresh_interval_seconds), c.iam_config)]

(* Mutants of duration_as_millis_u32: the count is narrowed, or not bounded. *)
duration_wraps(d) == (d \div 1000) % (MaxU32 + 1)
duration_unbounded(d) == d \div 1000

(* Whole milliseconds, saturating: a longer timeout is never a shorter one. *)
duration_as_millis_u32(d) == IF d \div 1000 <= MaxU32 THEN d \div 1000 ELSE MaxU32
-----------------------------------------------------------------------------
(* The fields both configurations have, as their constructors set them. *)
Common(addresses) ==
  [addresses |-> addresses, tls |-> "NoTls", credentials |-> None,
   read_from |-> [tag |-> "Primary"], request_timeout |-> None,
   connection_timeout |-> None, reconnect_strategy |-> None,
   client_name |-> None, protocol |-> "RESP3",
   inflight_requests_limit |-> None, lazy_connect |-> FALSE,
   pubsub_subscriptions |-> None, force_pubsub_channel |-> FALSE,
   root_certs |-> <<>>, client_identity |-> None]

(* The record r with one more field. *)
Extended(r, field, v) == [f \in DOMAIN r \cup {field} |-> IF f = field THEN v ELSE r[f]]

(* GlideClientConfiguration::new and GlideClusterClientConfiguration::new. *)
StandaloneNew(addresses) == Extended(Common(addresses), "database_id", 0)

ClusterNew(addresses) == Extended(Common(addresses), "periodic_checks", [tag |-> "Enabled"])

OptionSetters == {"credentials", "request_timeout", "connection_timeout", "client_name",
                  "inflight_requests_limit", "reconnect_strategy", "client_identity"}

ValueSetters == {"tls", "read_from", "protocol", "lazy_connect", "database_id",
                 "periodic_checks"}

OtherSetters == {"tls_ca_cert", "subscriptions", "enable_pubsub"}

(* The builder methods. *)
Set(cfg, name, v) ==
  CASE name \in OptionSetters -> [cfg EXCEPT ![name] = Some(v)]
    [] name \in ValueSetters -> [cfg EXCEPT ![name] = v]
    [] name = "tls_ca_cert" -> [cfg EXCEPT !.root_certs = Append(@, v)]
    [] name = "subscriptions" -> [cfg EXCEPT !.pubsub_subscriptions = Some(v)]
    [] name = "enable_pubsub" -> [cfg EXCEPT !.force_pubsub_channel = TRUE]
-----------------------------------------------------------------------------
(***************************************************************************)
(* URLs.  The fork's parser (external) gives an address and the settings   *)
(* of the connection, or fails.  Certificates inside an address cannot be  *)
(* read and unix sockets not be used: both are errors.                     *)
(***************************************************************************)
split_connection_addr(addr) ==
  CASE addr.tag = "Tcp" -> Ok([address |-> addr.node, tls |-> "NoTls"])
    [] addr.tag = "TcpTls" /\ addr.tls_params -> Err
    [] addr.tag = "TcpTls" /\ ~addr.tls_params ->
         Ok([address |-> addr.node,
             tls |-> IF addr.insecure THEN "InsecureTls" ELSE "SecureTls"])
    [] addr.tag = "Unix" -> Err

into_connection_info(url) == IF url.valid THEN Ok(url) ELSE Err

credentials_from_info(username, password) ==
  IF username = None /\ password = None THEN None
  ELSE Some(Credentials(username, password, None))

(* An address and its TLS mode, if the URL has one that can be used. *)
Seed(url) ==
  IF into_connection_info(url).ok THEN split_connection_addr(url.addr) ELSE Err

(* The settings of a URL on a configuration: all but the address and the database. *)
WithUrl(cfg, tls, redis) ==
  [cfg EXCEPT !.tls = tls, !.protocol = from_redis_protocol[redis.protocol],
              !.client_name = redis.client_name,
              !.credentials = credentials_from_info(redis.username, redis.password)]

from_url(url) ==
  IF Seed(url).ok
  THEN Ok([WithUrl(StandaloneNew(<<Seed(url).value.address>>), Seed(url).value.tls, url.redis)
             EXCEPT !.database_id = url.redis.db])
  ELSE Err

(* Mutant of Conflicts: one of the comparisons is missing. *)
ConflictsNotTls(u, first) ==
  \/ u.redis.password # first.redis.password
  \/ u.redis.username # first.redis.username
  \/ u.redis.client_name # first.redis.client_name
  \/ u.redis.db # first.redis.db

(* The checks of a later URL against the first. *)
Conflicts(u, first) ==
  \/ u.redis.password # first.redis.password
  \/ u.redis.username # first.redis.username
  \/ u.redis.client_name # first.redis.client_name
  \/ u.redis.db # first.redis.db
  \/ Seed(u).value.tls # Seed(first).value.tls

(* Any URL that is unusable or in conflict ends the loop with an error. *)
from_urls(urls) ==
  IF \/ \E i \in DOMAIN urls : ~Seed(urls[i]).ok \/ Conflicts(urls[i], urls[1])
     \/ urls = <<>>
     \/ urls[1].redis.db # 0
  THEN Err
  ELSE Ok(WithUrl(ClusterNew([i \in DOMAIN urls |-> Seed(urls[i]).value.address]),
                  Seed(urls[1]).value.tls, urls[1].redis))
-----------------------------------------------------------------------------
(* What both clients ask of the core. *)
common_request(cfg) ==
  [addresses |-> cfg.addresses,
   tls_mode |-> Some(TlsMode[cfg.tls]),
   read_from |-> Some(CoreReadFrom(cfg.read_from)),
   protocol |-> Some(CoreProtocol[cfg.protocol]),
   client_name |-> cfg.client_name,
   lib_name |-> Some("GlideRust"),
   lazy_connect |-> cfg.lazy_connect,
   inflight_requests_limit |-> cfg.inflight_requests_limit,
   tcp_nodelay |-> TRUE,
   root_certs |-> cfg.root_certs,
   client_cert |-> Map(LAMBDA i : i.cert_pem, cfg.client_identity),
   client_key |-> Map(LAMBDA i : i.key_pem, cfg.client_identity),
   pubsub_subscriptions |-> Map(SubscriptionInfo, cfg.pubsub_subscriptions),
   authentication_info |-> Map(AuthenticationInfo, cfg.credentials),
   request_timeout |-> Map(duration_as_millis_u32, cfg.request_timeout),
   connection_timeout |-> Map(duration_as_millis_u32, cfg.connection_timeout),
   connection_retry_strategy |-> Map(ConnectionRetryStrategy, cfg.reconnect_strategy),
   cluster_mode_enabled |-> FALSE, database_id |-> 0, periodic_checks |-> None]

to_request(cluster, cfg) ==
  IF cluster
  THEN [common_request(cfg) EXCEPT !.cluster_mode_enabled = TRUE,
                                   !.periodic_checks = Some(PeriodicCheck(cfg.periodic_checks))]
  ELSE [common_request(cfg) EXCEPT !.cluster_mode_enabled = FALSE,
                                   !.database_id = cfg.database_id]
=============================================================================
