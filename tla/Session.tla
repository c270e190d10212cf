------------------------------ MODULE Session ------------------------------
(***************************************************************************)
(* From configuration to connected client (config/, client/mod.rs):        *)
(* a configuration is made from nothing, from a URL or from the URLs of a  *)
(* cluster's seed nodes, changed by builder calls and lowered to a request *)
(* for glide-core; the core opens the session, loses it and opens it again *)
(* from the same request with the password stored last.                    *)
(*                                                                         *)
(* The core and the server are modelled from how the code uses them and    *)
(* says they behave.                                                       *)
(***************************************************************************)
EXTENDS Config, FiniteSets

CONSTANTS Url,        \* what the fork's URL parser may return
          Address,    \* node addresses
          Setting,    \* for each builder method, the values it is called with
          Kinds,      \* kinds of subscription used at run time
          Channel,    \* channels subscribed to at run time
          Password,   \* passwords (Options)
          MaxUrls,    \* bound on the URLs of a cluster
          MaxInputs   \* bound on URLs and builder calls together, for more calls

ASSUME SessionAssumption == MaxUrls \in Nat /\ MaxInputs \in Nat /\ None \in Password
                            /\ Kinds \subseteq DOMAIN SubscriptionKind

(* What the types of the builder methods say of their arguments. *)
ASSUME SettingAssumption ==
  /\ DOMAIN Setting \subseteq OptionSetters \cup ValueSetters \cup OtherSetters
  /\ \A name \in DOMAIN Setting : \A v \in Setting[name] :
       /\ name \in {"request_timeout", "connection_timeout", "database_id"} => v \in Nat
       /\ name = "lazy_connect" => v \in BOOLEAN
       /\ name = "tls" => v \in DOMAIN TlsMode
       /\ name = "protocol" => v \in DOMAIN CoreProtocol
       /\ name = "credentials" => v.password \in Password /\ IsOption(v.iam_config)
       /\ name = "subscriptions" => /\ DOMAIN v \subseteq DOMAIN SubscriptionKind
                                    /\ \A m \in DOMAIN v : v[m] \subseteq Channel

(* What the types of the URL parser say of its results. *)
ASSUME UrlAssumption ==
  \A u \in Url :
    /\ u.valid \in BOOLEAN /\ u.addr.tag \in {"Tcp", "TcpTls", "Unix"}
    /\ u.addr.tag = "TcpTls" => {u.addr.insecure, u.addr.tls_params} \subseteq BOOLEAN
    /\ u.redis.db \in Nat /\ u.redis.protocol \in DOMAIN CoreProtocol
    /\ u.redis.password \in Password

VARIABLES
  cluster,   \* GlideClusterClient, or GlideClient
  phase,     \* none, refused, building, failed, connected
  cfg,       \* the configuration
  urls,      \* history: the URLs it was made from
  calls,     \* history: the builder calls made on it
  req,       \* the ConnectionRequest the core was given, None before
  client,    \* what the client keeps: db and whether it has a push channel
  stored,    \* the password the core stores
  given,     \* history: the password it was given last
  server,    \* the password the server asks for
  session    \* the connection: up or not, and its state on the server

buildVars == <<cluster, cfg, urls, calls>>
vars == <<buildVars, phase, req, client, stored, given, server, session>>

Down == [up |-> FALSE, db |-> 0, subs |-> {}, password |-> None, touched |-> FALSE,
         current |-> FALSE]
-----------------------------------------------------------------------------
Init ==
  /\ cluster \in BOOLEAN
  /\ phase = "none"
  /\ cfg = None /\ urls = <<>> /\ calls = <<>>
  /\ req = None
  /\ client = [db |-> 0, channel |-> FALSE]
  /\ stored = None /\ given = None
  /\ server \in Password
  /\ session = Down

(* The configuration is made: with_address and new, from_url, or from_urls. *)
Make(result, us) ==
  /\ phase = "none"
  /\ urls' = us
  /\ IF result.ok THEN phase' = "building" /\ cfg' = result.value
     ELSE phase' = "refused" /\ cfg' = cfg
  /\ UNCHANGED <<cluster, calls, req, client, stored, given, server, session>>

FromUrl(u) == ~cluster /\ Make(from_url(u), <<u>>)

FromUrls(us) == cluster /\ Make(from_urls(us), us)

WithAddress(a) == Make(Ok(IF cluster THEN ClusterNew(<<a>>) ELSE StandaloneNew(<<a>>)), <<>>)

(* After an error the caller may try again with other URLs. *)
StartOver ==
  /\ phase = "refused"
  /\ phase' = "none" /\ urls' = <<>>
  /\ UNCHANGED <<cluster, cfg, calls, req, client, stored, given, server, session>>

Call(name, v) ==
  /\ phase = "building"
  /\ Len(urls) + Len(calls) < MaxInputs
  /\ name = "database_id" => ~cluster
  /\ name = "periodic_checks" => cluster
  /\ cfg' = Set(cfg, name, v)
  /\ calls' = Append(calls, [name |-> name, value |-> v])
  /\ UNCHANGED <<cluster, urls, phase, req, client, stored, given, server, session>>
-----------------------------------------------------------------------------
(* The password of a request. *)
PasswordOf(r) == IF IsSome(r.authentication_info) THEN r.authentication_info[1].password
                 ELSE None
UsesIam(r) == IsSome(r.authentication_info) /\ IsSome(r.authentication_info[1].iam_config)

Subscribed(r) ==
  IF IsSome(r.pubsub_subscriptions)
  THEN LET info == r.pubsub_subscriptions[1]
       IN UNION {{<<k, ch>> : ch \in info[k]} : k \in DOMAIN info}
  ELSE {}

(* The session the core opens for request r with password p. *)
Opened(r, p) ==
  [up |-> TRUE, db |-> r.database_id, subs |-> Subscribed(r), password |-> p,
   touched |-> FALSE, current |-> TRUE]

(* Mutant of HasPushChannel: subscriptions are thought to enable it alone. *)
HasPushChannelIfForced(c) == c.force_pubsub_channel

HasPushChannel(c) ==
  \/ IsSome(c.pubsub_subscriptions) /\ ~is_empty(c.pubsub_subscriptions[1])
  \/ c.force_pubsub_channel

(* connect: the request is made, and the core opens the session, or will *)
(* open it at the first use.                                             *)
Connect ==
  LET r == to_request(cluster, cfg)
  IN /\ phase \in {"building", "failed"}
     /\ phase' = "connected"
     /\ req' = Some(r)
     /\ client' = [db |-> IF cluster THEN 0 ELSE cfg.database_id,
                   channel |-> HasPushChannel(cfg)]
     /\ stored' = PasswordOf(r) /\ given' = PasswordOf(r)
     /\ \/ r.lazy_connect /\ session' = Down
        \/ /\ ~r.lazy_connect /\ (UsesIam(r) \/ stored' = server)
           /\ session' = Opened(r, stored')
     /\ UNCHANGED <<buildVars, server>>

(* The core reports a ConnectionError, and there is no client. *)
ConnectFails ==
  /\ phase \in {"building", "failed"}
  /\ phase' = "failed"
  /\ UNCHANGED <<buildVars, req, client, stored, given, server, session>>

(* The connection is lost and opened again from the request. *)
Lose ==
  /\ session.up
  /\ session' = Down
  /\ UNCHANGED <<buildVars, phase, req, client, stored, given, server>>

Reopen ==
  /\ phase = "connected" /\ ~session.up
  /\ UsesIam(req[1]) \/ stored = server
  /\ session' = Opened(req[1], stored)
  /\ UNCHANGED <<buildVars, phase, req, client, stored, given, server>>

(* The operator changes the password; open sessions stay authenticated. *)
Rotate(p) ==
  /\ phase = "connected"
  /\ server' = p
  /\ UNCHANGED <<buildVars, phase, req, client, stored, given, session>>

(* Mutant of update_connection_password: the clone has a store of its own. *)
update_password_of_clone(p, immediate_auth) ==
  /\ phase = "connected" /\ ~UsesIam(req[1])
  /\ given' = p
  /\ LET accepted == immediate_auth /\ session.up /\ IsSome(p) /\ p = server
     IN session' = [session EXCEPT !.password = IF accepted THEN p ELSE @,
                                   !.current = accepted]
  /\ UNCHANGED <<buildVars, phase, req, client, stored, server>>

(***************************************************************************)
(* update_connection_password on any clone: the core they share stores the *)
(* password, and with immediate_auth sends AUTH at once; when the server   *)
(* rejects it the call fails and the session stays as it was.              *)
(***************************************************************************)
update_connection_password(p, immediate_auth) ==
  /\ phase = "connected" /\ ~UsesIam(req[1])
  /\ stored' = p /\ given' = p
  /\ LET accepted == immediate_auth /\ session.up /\ IsSome(p) /\ p = server
     IN session' = [session EXCEPT !.password = IF accepted THEN p ELSE @,
                                   !.current = accepted]
  /\ UNCHANGED <<buildVars, phase, req, client, server>>

(***************************************************************************)
(* Commands that change the session of the server, and last as long as it: *)
(* (p|s)subscribe and (p|s)unsubscribe, where no channel means all of the  *)
(* kind, and select.                                                       *)
(***************************************************************************)
Runtime(db, subs) ==
  /\ session.up
  /\ session' = [session EXCEPT !.db = db, !.subs = subs, !.touched = TRUE]
  /\ UNCHANGED <<buildVars, phase, req, client, stored, given, server>>

subscribe_at_runtime(kind, channels) ==
  Runtime(session.db, session.subs \cup {<<kind, ch>> : ch \in channels})

unsubscribe_at_runtime(kind, channels) ==
  Runtime(session.db, {s \in session.subs : s[1] # kind \/ (channels # {} /\ s[2] \notin channels)})

select(index) == ~cluster /\ Runtime(index, session.subs)

Next ==
  \/ \E u \in Url : FromUrl(u)
  \/ \E n \in 0..MaxUrls : \E us \in [1..n -> Url] : FromUrls(us)
  \/ \E a \in Address : WithAddress(a)
  \/ \E name \in DOMAIN Setting : \E v \in Setting[name] : Call(name, v)
  \/ StartOver \/ Connect \/ ConnectFails \/ Lose \/ Reopen
  \/ \E p \in Password : \/ Rotate(p)
                         \/ \E b \in BOOLEAN : update_connection_password(p, b)
  \/ \E k \in Kinds : \/ \E ch \in Channel : subscribe_at_runtime(k, {ch})
                      \/ \E cs \in SUBSET Channel : unsubscribe_at_runtime(k, cs)
  \/ select(1)

Spec == Init /\ [][Next]_vars
-----------------------------------------------------------------------------
(* The calls of a builder method, and the value of the last one. *)
CallsOf(name) == {i \in DOMAIN calls : calls[i].name = name}

LastCall(name) == CHOOSE i \in CallsOf(name) : \A j \in CallsOf(name) : j <= i

Asked(name) == IF CallsOf(name) = {} THEN None ELSE Some(calls[LastCall(name)].value)

(* vs has the value of every call of the method, in the order of the calls. *)
Collects(vs, name) ==
  /\ Len(vs) = Cardinality(CallsOf(name))
  /\ \A i \in CallsOf(name) : vs[Cardinality({j \in CallsOf(name) : j <= i})] = calls[i].value

(* The last value the method was called with, or what the URL said, or the default. *)
AskedOr(name, url, default) ==
  IF IsSome(Asked(name)) THEN Asked(name)[1]
  ELSE IF urls # <<>> THEN url ELSE default

UrlTls(u) == CASE u.addr.tag = "Tcp" -> "NoTls"
               [] u.addr.tag = "TcpTls" /\ u.addr.insecure -> "InsecureTls"
               [] OTHER -> "SecureTls"

(* Every variable has its type, and timeouts fit the 32 bits the core has for them. *)
TypeOK ==
  /\ cluster \in BOOLEAN
  /\ phase \in {"none", "refused", "building", "failed", "connected"}
  /\ \A i \in DOMAIN calls : calls[i].name \in DOMAIN Setting
  /\ Len(urls) <= MaxUrls + 1 /\ Len(calls) <= MaxInputs
  /\ client \in [db : Nat, channel : BOOLEAN]
  /\ {stored, given, server, session.password} \subseteq Password
  /\ \A s \in session.subs : s[1] \in DOMAIN SubscriptionKind
  /\ IsSome(req) => \A t \in {"request_timeout", "connection_timeout"} :
       req[1][t] \in {None} \cup {Some(n) : n \in 0..MaxU32}

(***************************************************************************)
(* from_urls rejects conflicting settings whatever the order of the URLs:  *)
(* it succeeds exactly when every URL can be used, all agree on            *)
(* credentials, name, database and TLS, and the database is 0; and then    *)
(* the configuration has every address and the settings of all of them.    *)
(***************************************************************************)
UrlsAgree ==
  LET usable(u) == u.valid /\ u.addr.tag # "Unix" /\ ~(u.addr.tag = "TcpTls" /\ u.addr.tls_params)
      same(u, v) == /\ UrlTls(u) = UrlTls(v)
                    /\ \A f \in {"db", "username", "password", "client_name"} :
                         u.redis[f] = v.redis[f]
      good == /\ urls # <<>>
              /\ \A i \in DOMAIN urls : usable(urls[i]) /\ urls[i].redis.db = 0
              /\ \A i, j \in DOMAIN urls : same(urls[i], urls[j])
  IN cluster =>
       /\ phase = "refused" => ~good
       /\ urls # <<>> /\ phase # "refused" =>
            /\ good
            /\ cfg.addresses = [i \in DOMAIN urls |-> urls[i].addr.node]
            /\ calls = <<>> => \A i \in DOMAIN urls :
                 /\ cfg.tls = UrlTls(urls[i])
                 /\ cfg.client_name = urls[i].redis.client_name
                 /\ \A c \in {cfg.credentials[n] : n \in DOMAIN cfg.credentials} :
                      /\ c.username = urls[i].redis.username
                      /\ c.password = urls[i].redis.password

(***************************************************************************)
(* The core is asked for what the caller asked last of each setting, or    *)
(* else for what the URL said or the default, whatever the order of the    *)
(* builder calls; certificates add up; a timeout is cut to whole           *)
(* milliseconds and never becomes shorter by being too long; an interval   *)
(* in seconds stays as long.  A retry strategy and an IAM configuration    *)
(* reach the core field by field under the names they have here: the code  *)
(* promises no more, as the comments on factor and exponent_base describe  *)
(* each as the other.                                                      *)
(***************************************************************************)
RequestAsAsked ==
  LET r == req[1]
      u == urls[1]
      from == AskedOr("read_from", [tag |-> "Primary"], [tag |-> "Primary"])
      checks == AskedOr("periodic_checks", [tag |-> "Enabled"], [tag |-> "Enabled"])
      timeoutOk(t) ==
        IF IsSome(Asked(t))
        THEN LET d == Asked(t)[1]  ms == r[t][1]
             IN ms * 1000 <= d /\ (d < (ms + 1) * 1000 \/ ms = MaxU32)
        ELSE r[t] = None
  IN IsSome(req) =>
       /\ timeoutOk("request_timeout") /\ timeoutOk("connection_timeout")
       /\ r.tls_mode = Some(AskedOr("tls", UrlTls(u), "NoTls"))
       /\ r.protocol = Some(AskedOr("protocol", u.redis.protocol, "RESP3"))
       /\ Collects(r.root_certs, "tls_ca_cert")
       /\ IsSome(Asked("client_name")) => r.client_name = Asked("client_name")
       /\ r.inflight_requests_limit = Asked("inflight_requests_limit")
       /\ r.lazy_connect = AskedOr("lazy_connect", FALSE, FALSE)
       /\ r.read_from[1].tag = from.tag
       /\ from.tag \in {"AZAffinity", "AZAffinityReplicasAndPrimary"} => r.read_from[1].az = from.az
       /\ ~cluster => r.periodic_checks = None
       /\ cluster => /\ r.periodic_checks[1].tag = checks.tag
                     /\ checks.tag = "ManualInterval" =>
                          r.periodic_checks[1].interval = checks.secs * 1000 * 1000
       /\ \A i \in DOMAIN Asked("client_identity") :
            LET id == Asked("client_identity")[i]
            IN <<id.cert_pem, id.key_pem>> = <<r.client_cert[1], r.client_key[1]>>
       /\ \A i \in DOMAIN Asked("reconnect_strategy") :
            LET b == Asked("reconnect_strategy")[i]  s == r.connection_retry_strategy[1]
            IN /\ <<b.factor, b.exponent_base>> = <<s.factor, s.exponent_base>>
               /\ b.num_of_retries = s.number_of_retries
               /\ b.jitter_percent = s.jitter_percent
       /\ \A i \in DOMAIN Asked("credentials") :
            LET c == Asked("credentials")[i]  a == r.authentication_info[1]
            IN /\ <<a.username, a.password>> = <<c.username, c.password>>
               /\ IsSome(a.iam_config) <=> IsSome(c.iam_config)
               /\ \A n \in DOMAIN c.iam_config :
                    \A f \in {"cluster_name", "region", "service_type",
                              "refresh_interval_seconds"} :
                      a.iam_config[n][f] = c.iam_config[n][f]

(***************************************************************************)
(* A session just opened, the first or any later one, is in the configured *)
(* database with the configured subscriptions, which also enabled the push *)
(* channel when the client was made; the client reports that database.     *)
(***************************************************************************)
SessionAsConfigured ==
  LET wanted == {s \in (DOMAIN SubscriptionKind) \X Channel :
                   \E i \in DOMAIN Asked("subscriptions") :
                     LET asked == Asked("subscriptions")[i]
                     IN s[1] \in DOMAIN asked /\ s[2] \in asked[s[1]]}
      db == IF cluster THEN 0 ELSE AskedOr("database_id", urls[1].redis.db, 0)
  IN phase = "connected" =>
       /\ client.db = db
       /\ session.up /\ ~session.touched => session.db = db /\ session.subs = wanted
       /\ wanted # {} => client.channel

(***************************************************************************)
(* A password passed to update_connection_password, on any clone, is the   *)
(* one the next session is opened with, and also the live session's when   *)
(* the call asked for immediate_auth and succeeded.                        *)
(***************************************************************************)
PasswordIsShared == session.up /\ session.current => session.password = given
=============================================================================
