--------------------------- MODULE Session_proofs ---------------------------
(***************************************************************************)
(* Proofs about Session, for any URLs, any values of the builder methods,  *)
(* any number of calls and URLs, and any passwords and channels.           *)
(***************************************************************************)
EXTENDS Session, FiniteSetTheorems, TLAPS

Setters == OptionSetters \cup ValueSetters \cup OtherSetters

(* The fields of a configuration. *)
Fields ==
  {"addresses", "tls", "credentials", "read_from", "request_timeout", "connection_timeout",
   "reconnect_strategy", "client_name", "protocol", "inflight_requests_limit", "lazy_connect",
   "pubsub_subscriptions", "force_pubsub_channel", "root_certs", "client_identity",
   IF cluster THEN "periodic_checks" ELSE "database_id"}

(* The settings that only a builder call gives a value. *)
OnlyAsked == {"request_timeout", "connection_timeout", "inflight_requests_limit",
              "client_identity", "reconnect_strategy"}

(***************************************************************************)
(* The inductive invariant: what is on the way from the calls made to the  *)
(* configuration, from there to the request, and from there to the session.*)
(***************************************************************************)
HasCfg == phase \in {"building", "failed", "connected"}

BuilderCalls == UNION {[name : {n}, value : Setting[n]] : n \in DOMAIN Setting}

HistoryOK ==
  /\ cluster \in BOOLEAN /\ phase \in {"none", "refused", "building", "failed", "connected"}
  /\ urls \in Seq(Url) /\ Len(urls) <= MaxUrls + 1 /\ (phase = "none" => urls = <<>>)
  /\ calls \in Seq(BuilderCalls) /\ Len(calls) <= MaxInputs /\ (~HasCfg => calls = <<>>)
  /\ \A name \in Setters : CallsOf(name) # {} => LastCall(name) \in CallsOf(name)

(* A configuration has the last value asked for, whatever it was made from. *)
CfgTyped(c) ==
  /\ DOMAIN c = Fields
  /\ c.tls \in DOMAIN TlsMode /\ c.protocol \in DOMAIN CoreProtocol
  /\ c.lazy_connect \in BOOLEAN /\ c.force_pubsub_channel \in BOOLEAN
  /\ ~cluster => c.database_id \in Nat
  /\ IsOption(c.credentials)
  /\ IsSome(c.credentials) => c.credentials[1].password \in Password
  /\ c.root_certs \in Seq(Setting["tls_ca_cert"])

(* The defaults no URL changes. *)
Primary == [tag |-> "Primary"]
Enabled == [tag |-> "Enabled"]

CfgAsked(c) ==
  /\ \A o \in OnlyAsked : c[o] = Asked(o)
  /\ c.pubsub_subscriptions = Asked("subscriptions")
  /\ IsSome(Asked("credentials")) => c.credentials = Asked("credentials")
  /\ IsSome(Asked("client_name")) => c.client_name = Asked("client_name")
  /\ c.tls = AskedOr("tls", UrlTls(urls[1]), "NoTls")
  /\ c.protocol = AskedOr("protocol", urls[1].redis.protocol, "RESP3")
  /\ c.lazy_connect = AskedOr("lazy_connect", FALSE, FALSE)
  /\ c.read_from = AskedOr("read_from", Primary, Primary)
  /\ cluster => c.periodic_checks = AskedOr("periodic_checks", Enabled, Enabled)
  /\ ~cluster => c.database_id = AskedOr("database_id", urls[1].redis.db, 0)
  /\ Collects(c.root_certs, "tls_ca_cert")

CfgOK == HasCfg => CfgTyped(cfg) /\ CfgAsked(cfg)

(* The client and the session are what the request of the configuration says. *)
SessionType ==
  [up : BOOLEAN, db : Nat, subs : SUBSET ((DOMAIN SubscriptionKind) \X Channel),
   password : Password, touched : BOOLEAN, current : BOOLEAN]

SessionOK ==
  /\ session \in SessionType /\ stored \in Password /\ given \in Password /\ server \in Password
  /\ client \in [db : Nat, channel : BOOLEAN]
  /\ stored = given
  /\ session.up /\ session.current => session.password = given
  /\ phase # "connected" => req = None /\ session = Down
  /\ phase = "connected" =>
       /\ req = Some(to_request(cluster, cfg))
       /\ client.db = IF cluster THEN 0 ELSE cfg.database_id
       /\ client.channel = HasPushChannel(cfg)
       /\ session.up /\ ~session.touched =>
            session.db = req[1].database_id /\ session.subs = Subscribed(req[1])

IInv == HistoryOK /\ CfgOK /\ SessionOK /\ UrlsAgree
-----------------------------------------------------------------------------
(* Options. *)
LEMMA SomeIs ==
  ASSUME NEW x
  PROVE  IsSome(Some(x)) /\ Some(x)[1] = x /\ DOMAIN Some(x) = {1} /\ IsOption(Some(x))
BY DEF IsSome, Some, None, IsOption

LEMMA NoneIs == ~IsSome(None) /\ DOMAIN None = {} /\ IsOption(None)
BY DEF IsSome, None, IsOption

(* What the constructors set. *)
NewCfg(a) == IF cluster THEN ClusterNew(a) ELSE StandaloneNew(a)

LEMMA NewIs ==
  ASSUME NEW a
  PROVE  LET c == NewCfg(a) IN
         /\ DOMAIN c = Fields /\ c.addresses = a
         /\ c.tls = "NoTls" /\ c.protocol = "RESP3" /\ c.lazy_connect = FALSE
         /\ c.force_pubsub_channel = FALSE /\ (~cluster => c.database_id = 0)
         /\ c.read_from = Primary /\ (cluster => c.periodic_checks = Enabled)
         /\ c.credentials = None /\ c.client_name = None /\ c.root_certs = <<>>
         /\ c.pubsub_subscriptions = None /\ \A o \in OnlyAsked : c[o] = None
<1>1. CASE cluster
  BY <1>1 DEF NewCfg, ClusterNew, Extended, Common, Fields, OnlyAsked, Primary, Enabled
<1>2. CASE ~cluster
  BY <1>2 DEF NewCfg, StandaloneNew, Extended, Common, Fields, OnlyAsked, Primary, Enabled
<1> QED BY <1>1, <1>2

(* What a URL sets, and the fields it leaves. *)
LEMMA WithUrlIs ==
  ASSUME NEW c, DOMAIN c = Fields, NEW tls, NEW redis, redis.protocol \in DOMAIN CoreProtocol,
         NEW w, w = WithUrl(c, tls, redis)
  PROVE  /\ DOMAIN w = Fields /\ w.tls = tls /\ w.protocol = redis.protocol
         /\ w.client_name = redis.client_name
         /\ w.credentials = credentials_from_info(redis.username, redis.password)
         /\ \A f \in Fields \ {"tls", "protocol", "client_name", "credentials"} : w[f] = c[f]
<1>1. {"tls", "protocol", "client_name", "credentials"} \subseteq DOMAIN c
  BY DEF Fields
<1>2. from_redis_protocol[redis.protocol] = redis.protocol
  BY DEF from_redis_protocol, CoreProtocol
<1>3. w = [c EXCEPT !.tls = tls, !.protocol = redis.protocol, !.client_name = redis.client_name,
                    !.credentials = credentials_from_info(redis.username, redis.password)]
  BY <1>2 DEF WithUrl
<1> QED BY <1>1, <1>3

(* The field a builder method sets, and to what. *)
Target(name) ==
  CASE name = "tls_ca_cert" -> "root_certs"
    [] name = "subscriptions" -> "pubsub_subscriptions"
    [] name = "enable_pubsub" -> "force_pubsub_channel"
    [] OTHER -> name

LEMMA SetIs ==
  ASSUME NEW c, DOMAIN c = Fields, NEW name \in Setters, NEW v, NEW d, d = Set(c, name, v),
         name = "database_id" => ~cluster, name = "periodic_checks" => cluster
  PROVE  /\ DOMAIN d = Fields
         /\ \A f \in Fields : f # Target(name) => d[f] = c[f]
         /\ name \in OptionSetters => d[name] = Some(v)
         /\ name \in ValueSetters => d[name] = v
         /\ name = "tls_ca_cert" => d.root_certs = Append(c.root_certs, v)
         /\ name = "subscriptions" => d.pubsub_subscriptions = Some(v)
         /\ name = "enable_pubsub" => d.force_pubsub_channel = TRUE
<1>1. CASE name \in OptionSetters
  <2>1. name \notin ValueSetters \cup OtherSetters
    BY <1>1 DEF OptionSetters, ValueSetters, OtherSetters
  <2>2. d = [c EXCEPT ![name] = Some(v)]
    BY <1>1, <2>1 DEF Set, OtherSetters
  <2>3. name \in Fields /\ Target(name) = name
    BY <1>1 DEF OptionSetters, Fields, Target
  <2> QED BY <2>1, <2>2, <2>3 DEF OtherSetters
<1>2. CASE name \in ValueSetters
  <2>1. d = [c EXCEPT ![name] = v] /\ Target(name) = name
    BY <1>2 DEF Set, OptionSetters, ValueSetters, Target
  <2>2. name \in Fields
    BY <1>2 DEF ValueSetters, Fields
  <2>3. name \notin OptionSetters \cup OtherSetters
    BY <1>2 DEF OptionSetters, ValueSetters, OtherSetters
  <2> QED BY <2>1, <2>2, <2>3 DEF OtherSetters
<1>3. CASE name \in OtherSetters
  <2>1. name \notin OptionSetters \cup ValueSetters
    BY <1>3 DEF OptionSetters, ValueSetters, OtherSetters
  <2>2. /\ name = "tls_ca_cert" => d = [c EXCEPT !.root_certs = Append(@, v)]
        /\ name = "subscriptions" => d = [c EXCEPT !.pubsub_subscriptions = Some(v)]
        /\ name = "enable_pubsub" => d = [c EXCEPT !.force_pubsub_channel = TRUE]
    BY <1>3, <2>1 DEF Set, OtherSetters
  <2>3. {"root_certs", "pubsub_subscriptions", "force_pubsub_channel"} \subseteq Fields
    BY DEF Fields
  <2> QED BY <1>3, <2>1, <2>2, <2>3 DEF Target, OtherSetters
<1> QED BY <1>1, <1>2, <1>3 DEF Setters
-----------------------------------------------------------------------------
(* What is asked: nothing before a call, and the value of the last one after. *)
LEMMA NothingAsked ==
  ASSUME calls = <<>>
  PROVE  \A name : CallsOf(name) = {} /\ Asked(name) = None
BY DEF CallsOf, Asked

LEMMA AskedIs ==
  ASSUME HistoryOK, NEW name \in Setters, CallsOf(name) # {}
  PROVE  /\ LastCall(name) \in DOMAIN calls /\ calls[LastCall(name)].name = name
         /\ name \in DOMAIN Setting /\ calls[LastCall(name)].value \in Setting[name]
         /\ Asked(name) = Some(calls[LastCall(name)].value)
<1>1. LastCall(name) \in CallsOf(name) /\ calls \in Seq(BuilderCalls)
  BY DEF HistoryOK
<1>2. LastCall(name) \in DOMAIN calls /\ calls[LastCall(name)].name = name
  BY <1>1 DEF CallsOf
<1>3. calls[LastCall(name)] \in BuilderCalls
  BY <1>1, <1>2
<1>4. PICK n \in DOMAIN Setting : calls[LastCall(name)] \in [name : {n}, value : Setting[n]]
  BY <1>3 DEF BuilderCalls
<1> QED BY <1>2, <1>4 DEF Asked

LEMMA AskedValue ==
  ASSUME HistoryOK, NEW name \in Setters, IsSome(Asked(name))
  PROVE  name \in DOMAIN Setting /\ \E v \in Setting[name] : Asked(name) = Some(v)
<1>1. CallsOf(name) # {}
  BY NoneIs DEF Asked
<1> QED BY <1>1, AskedIs

LEMMA AskedNext ==
  ASSUME HistoryOK, NEW name \in DOMAIN Setting, NEW v \in Setting[name],
         calls' = Append(calls, [name |-> name, value |-> v])
  PROVE  /\ calls' \in Seq(BuilderCalls) /\ Len(calls') = Len(calls) + 1
         /\ CallsOf(name)' = CallsOf(name) \cup {Len(calls) + 1}
         /\ LastCall(name)' = Len(calls) + 1 /\ Asked(name)' = Some(v)
         /\ \A m \in Setters : m # name =>
              /\ CallsOf(m)' = CallsOf(m) /\ LastCall(m)' = LastCall(m) /\ Asked(m)' = Asked(m)
<1> DEFINE c == [name |-> name, value |-> v]
           n == Len(calls) + 1
<1>1. c \in BuilderCalls /\ c.name = name /\ c.value = v
  <2>1. c \in [name : {name}, value : Setting[name]]
    OBVIOUS
  <2> QED BY <2>1 DEF BuilderCalls
<1>2. calls \in Seq(BuilderCalls) /\ calls' = Append(calls, c)
  BY DEF HistoryOK
<1> HIDE DEF c
<1>3. /\ calls' \in Seq(BuilderCalls) /\ Len(calls') = n /\ n \in Nat
      /\ DOMAIN calls = 1..Len(calls) /\ DOMAIN calls' = 1..n
      /\ calls'[n] = c /\ \A i \in DOMAIN calls : calls'[i] = calls[i]
  BY <1>1, <1>2
<1>4. CallsOf(name)' = CallsOf(name) \cup {n}
  BY <1>1, <1>3 DEF CallsOf
<1>5. \A i \in CallsOf(name)' : i <= n /\ i \in Nat
  BY <1>3 DEF CallsOf
<1>6. LastCall(name)' = n
  <2>1. LastCall(name)' = CHOOSE i \in CallsOf(name)' : \A j \in CallsOf(name)' : j <= i
    BY DEF LastCall
  <2>2. n \in CallsOf(name)'
    BY <1>4
  <2>3. \A i \in CallsOf(name)' : (\A j \in CallsOf(name)' : j <= i) => i = n
    BY <1>3, <1>5, <2>2
  <2> QED BY <1>5, <2>1, <2>2, <2>3
<1>7. Asked(name)' = Some(v)
  BY <1>1, <1>3, <1>4, <1>6 DEF Asked
<1>8. ASSUME NEW m \in Setters, m # name
      PROVE  /\ CallsOf(m)' = CallsOf(m) /\ LastCall(m)' = LastCall(m) /\ Asked(m)' = Asked(m)
  <2>1. CallsOf(m)' = CallsOf(m)
    BY <1>1, <1>3, <1>8 DEF CallsOf
  <2>2. LastCall(m)' = LastCall(m)
    BY <2>1 DEF LastCall
  <2>3. CallsOf(m) # {} => LastCall(m) \in DOMAIN calls
    BY AskedIs
  <2> QED BY <1>3, <2>1, <2>2, <2>3 DEF Asked
<1> QED BY <1>3, <1>4, <1>6, <1>7, <1>8
-----------------------------------------------------------------------------
(* URLs: which can be used, and what split_connection_addr says of those. *)
Usable(u) == u.valid /\ u.addr.tag # "Unix" /\ ~(u.addr.tag = "TcpTls" /\ u.addr.tls_params)

Same(u, v) == /\ UrlTls(u) = UrlTls(v)
              /\ \A f \in {"db", "username", "password", "client_name"} : u.redis[f] = v.redis[f]

GoodUrls(us) == /\ us # <<>>
                /\ \A i \in DOMAIN us : Usable(us[i]) /\ us[i].redis.db = 0
                /\ \A i, j \in DOMAIN us : Same(us[i], us[j])

LEMMA OkIs ==
  /\ \A x : Ok(x).ok = TRUE /\ Ok(x).value = x
  /\ Err.ok = FALSE
BY DEF Ok, Err

LEMMA UrlTlsIs ==
  ASSUME NEW u \in Url
  PROVE  UrlTls(u) \in DOMAIN TlsMode
BY DEF UrlTls, TlsMode

LEMMA SeedIs ==
  ASSUME NEW u \in Url
  PROVE  /\ Seed(u).ok \in BOOLEAN /\ (Seed(u).ok <=> Usable(u))
         /\ Usable(u) => Seed(u).value.tls = UrlTls(u) /\ Seed(u).value.address = u.addr.node
<1>1. /\ u.valid \in BOOLEAN /\ u.addr.tag \in {"Tcp", "TcpTls", "Unix"}
      /\ u.addr.tag = "TcpTls" => u.addr.insecure \in BOOLEAN /\ u.addr.tls_params \in BOOLEAN
  BY UrlAssumption
<1>2. CASE ~u.valid
  BY <1>1, <1>2 DEF Seed, into_connection_info, Usable, Ok, Err
<1>3. CASE u.valid
  <2>1. Seed(u) = split_connection_addr(u.addr)
    BY <1>3 DEF Seed, into_connection_info, Ok, Err
  <2>2. CASE u.addr.tag = "Tcp"
    <3>1. Seed(u) = Ok([address |-> u.addr.node, tls |-> "NoTls"])
      BY <2>1, <2>2 DEF split_connection_addr
    <3>2. UrlTls(u) = "NoTls" /\ Usable(u)
      BY <1>3, <2>2 DEF UrlTls, Usable
    <3>3. Seed(u).ok = TRUE
      BY <3>1, OkIs
    <3>4. Seed(u).value = [address |-> u.addr.node, tls |-> "NoTls"]
      BY <3>1, OkIs
    <3>5. Seed(u).value.tls = "NoTls" /\ Seed(u).value.address = u.addr.node
      BY <3>4
    <3> QED BY <3>2, <3>3, <3>5
  <2>3. CASE u.addr.tag = "Unix"
    <3>1. Seed(u) = Err /\ ~Usable(u)
      BY <2>1, <2>3 DEF split_connection_addr, Usable
    <3> QED BY <3>1, OkIs
  <2>4. CASE u.addr.tag = "TcpTls" /\ u.addr.tls_params
    <3>1. Seed(u) = Err /\ ~Usable(u)
      BY <2>1, <2>4 DEF split_connection_addr, Usable
    <3> QED BY <3>1, OkIs
  <2>5. CASE u.addr.tag = "TcpTls" /\ ~u.addr.tls_params
    <3>1. Seed(u) = Ok([address |-> u.addr.node,
                        tls |-> IF u.addr.insecure THEN "InsecureTls" ELSE "SecureTls"])
      BY <1>1, <2>1, <2>5 DEF split_connection_addr
    <3>2. UrlTls(u) = IF u.addr.insecure THEN "InsecureTls" ELSE "SecureTls"
      BY <2>5 DEF UrlTls
    <3> QED BY <1>3, <2>5, <3>1, <3>2 DEF Usable, Ok
  <2> QED BY <1>1, <2>2, <2>3, <2>4, <2>5
<1> QED BY <1>1, <1>2, <1>3

(* from_urls succeeds exactly for URLs that can be used and agree. *)
LEMMA FromUrlsOk ==
  ASSUME NEW us \in Seq(Url)
  PROVE  /\ from_urls(us).ok \in BOOLEAN /\ (from_urls(us).ok <=> GoodUrls(us))
         /\ GoodUrls(us) =>
              from_urls(us).value = WithUrl(ClusterNew([i \in DOMAIN us |-> us[i].addr.node]),
                                            UrlTls(us[1]), us[1].redis)
<1> DEFINE Bad == \/ \E i \in DOMAIN us : ~Seed(us[i]).ok \/ Conflicts(us[i], us[1])
                  \/ us = <<>>
                  \/ us[1].redis.db # 0
<1>1. /\ Bad => from_urls(us) = Err
      /\ ~Bad => from_urls(us) = Ok(WithUrl(ClusterNew([i \in DOMAIN us |-> Seed(us[i]).value.address]),
                                            Seed(us[1]).value.tls, us[1].redis))
  BY DEF from_urls
<1>2. \A i \in DOMAIN us : us[i] \in Url
  OBVIOUS
<1>3. \A i \in DOMAIN us : /\ Seed(us[i]).ok <=> Usable(us[i])
                           /\ Usable(us[i]) => /\ Seed(us[i]).value.tls = UrlTls(us[i])
                                               /\ Seed(us[i]).value.address = us[i].addr.node
  BY <1>2, SeedIs
<1>4. us # <<>> => 1 \in DOMAIN us
  OBVIOUS
<1>5. ASSUME ~Bad PROVE GoodUrls(us)
  <2>1. us # <<>> /\ \A i \in DOMAIN us : Usable(us[i]) /\ ~Conflicts(us[i], us[1])
    BY <1>3, <1>5
  <2>2. \A i \in DOMAIN us : Same(us[i], us[1])
    BY <1>3, <1>4, <2>1 DEF Conflicts, Same
  <2>3. \A i, j \in DOMAIN us : Same(us[i], us[j])
    BY <2>2 DEF Same
  <2>4. \A i \in DOMAIN us : us[i].redis.db = 0
    BY <1>5, <2>2 DEF Same
  <2> QED BY <2>1, <2>3, <2>4 DEF GoodUrls
<1>6. ASSUME GoodUrls(us) PROVE ~Bad
  <2>1. 1 \in DOMAIN us /\ \A i \in DOMAIN us : Usable(us[i]) /\ Same(us[i], us[1])
    BY <1>4, <1>6 DEF GoodUrls
  <2>2. \A i \in DOMAIN us : ~Conflicts(us[i], us[1])
    BY <1>3, <2>1 DEF Conflicts, Same
  <2> QED BY <1>3, <1>6, <2>1, <2>2 DEF GoodUrls
<1>7. ASSUME GoodUrls(us)
      PROVE  /\ Seed(us[1]).value.tls = UrlTls(us[1])
             /\ [i \in DOMAIN us |-> Seed(us[i]).value.address] = [i \in DOMAIN us |-> us[i].addr.node]
  BY <1>3, <1>4, <1>7 DEF GoodUrls
<1> DEFINE Made == WithUrl(ClusterNew([i \in DOMAIN us |-> us[i].addr.node]),
                           UrlTls(us[1]), us[1].redis)
<1>8. ASSUME GoodUrls(us) PROVE from_urls(us) = Ok(Made)
  BY <1>1, <1>6, <1>7, <1>8
<1>9. ASSUME ~GoodUrls(us) PROVE from_urls(us) = Err
  BY <1>1, <1>5, <1>9
<1> HIDE DEF Bad, Made
<1>10. CASE GoodUrls(us)
  BY <1>8, <1>10, OkIs DEF Made
<1>11. CASE ~GoodUrls(us)
  BY <1>9, <1>11, OkIs
<1> QED BY <1>10, <1>11

LEMMA UrlsAgreeIs ==
  UrlsAgree <=>
    (cluster =>
       /\ phase = "refused" => ~GoodUrls(urls)
       /\ urls # <<>> /\ phase # "refused" =>
            /\ GoodUrls(urls)
            /\ cfg.addresses = [i \in DOMAIN urls |-> urls[i].addr.node]
            /\ calls = <<>> => \A i \in DOMAIN urls :
                 /\ cfg.tls = UrlTls(urls[i])
                 /\ cfg.client_name = urls[i].redis.client_name
                 /\ \A c \in {cfg.credentials[n] : n \in DOMAIN cfg.credentials} :
                      /\ c.username = urls[i].redis.username
                      /\ c.password = urls[i].redis.password)
BY DEF UrlsAgree, GoodUrls, Usable, Same
-----------------------------------------------------------------------------
(* A configuration before any builder call. *)
LEMMA FreshCfg ==
  ASSUME calls' = <<>>, cluster' = cluster, urls' \in Seq(Url), DOMAIN cfg' = Fields,
         cfg'.tls = IF urls' # <<>> THEN UrlTls(urls'[1]) ELSE "NoTls",
         cfg'.protocol = IF urls' # <<>> THEN urls'[1].redis.protocol ELSE "RESP3",
         ~cluster => cfg'.database_id = IF urls' # <<>> THEN urls'[1].redis.db ELSE 0,
         cfg'.read_from = Primary, cluster => cfg'.periodic_checks = Enabled,
         cfg'.lazy_connect = FALSE, cfg'.force_pubsub_channel = FALSE, cfg'.root_certs = <<>>,
         cfg'.pubsub_subscriptions = None, \A o \in OnlyAsked : cfg'[o] = None,
         IsOption(cfg'.credentials),
         IsSome(cfg'.credentials) => cfg'.credentials[1].password \in Password
  PROVE  CfgTyped(cfg)' /\ CfgAsked(cfg)'
<1>1. \A name : CallsOf(name)' = {} /\ Asked(name)' = None
  BY DEF CallsOf, Asked
<1>2. ~IsSome(None)
  BY NoneIs
<1>3. \A name : \A url, default : AskedOr(name, url, default)' = IF urls' # <<>> THEN url ELSE default
  BY <1>1, <1>2 DEF AskedOr
<1>4. urls' # <<>> => /\ urls'[1] \in Url /\ UrlTls(urls'[1]) \in DOMAIN TlsMode
                      /\ urls'[1].redis.protocol \in DOMAIN CoreProtocol
                      /\ urls'[1].redis.db \in Nat
  BY UrlTlsIs, UrlAssumption
<1>5. Fields' = Fields
  BY DEF Fields
<1>6. cfg'.tls \in DOMAIN TlsMode /\ cfg'.protocol \in DOMAIN CoreProtocol
  BY <1>4 DEF TlsMode, CoreProtocol
<1>7. CfgTyped(cfg)'
  <2>1. <<>> \in Seq(Setting["tls_ca_cert"])
    OBVIOUS
  <2>2. IsOption(cfg.credentials)' /\ (IsSome(cfg.credentials) => cfg.credentials[1].password \in Password)'
    BY DEF IsOption, IsSome
  <2>3. ~cluster => cfg'.database_id \in Nat
    BY <1>4
  <2> QED BY <1>5, <1>6, <2>1, <2>2, <2>3 DEF CfgTyped
<1>8. Collects(cfg.root_certs, "tls_ca_cert")'
  BY <1>1, FS_EmptySet DEF Collects
<1>9. /\ cfg'.tls = AskedOr("tls", UrlTls(urls[1]), "NoTls")'
      /\ cfg'.protocol = AskedOr("protocol", urls[1].redis.protocol, "RESP3")'
      /\ cfg'.lazy_connect = AskedOr("lazy_connect", FALSE, FALSE)'
      /\ cfg'.read_from = AskedOr("read_from", Primary, Primary)'
      /\ cluster => cfg'.periodic_checks = AskedOr("periodic_checks", Enabled, Enabled)'
      /\ ~cluster => cfg'.database_id = AskedOr("database_id", urls[1].redis.db, 0)'
  BY <1>1, <1>2 DEF AskedOr, UrlTls, Primary, Enabled
<1> QED BY <1>1, <1>2, <1>7, <1>8, <1>9 DEF CfgAsked

LEMMA CredentialsIs ==
  ASSUME NEW u, NEW p \in Password, NEW c, c = credentials_from_info(u, p)
  PROVE  /\ IsOption(c) /\ (IsSome(c) => c[1].password \in Password)
         /\ \A x \in {c[n] : n \in DOMAIN c} : x.username = u /\ x.password = p
<1>1. CASE u = None /\ p = None
  BY <1>1, NoneIs DEF credentials_from_info
<1>2. CASE ~(u = None /\ p = None)
  <2> DEFINE x == Credentials(u, p, None)
  <2>1. c = Some(x)
    BY <1>2 DEF credentials_from_info
  <2>2. x.username = u /\ x.password = p
    BY DEF Credentials
  <2> HIDE DEF x
  <2>3. c[1] = x /\ DOMAIN c = {1} /\ IsOption(c)
    BY <2>1, SomeIs
  <2> QED BY <2>2, <2>3
<1> QED BY <1>1, <1>2
-----------------------------------------------------------------------------
(* Every step keeps the invariant, action by action. *)
rest == <<req, client, stored, given, server, session>>

LEMMA Unconnected ==
  ASSUME SessionOK, phase # "connected", phase' # "connected", UNCHANGED rest
  PROVE  SessionOK'
BY DEF SessionOK, rest

LEMMA CfgKept ==
  ASSUME CfgOK, HasCfg' => HasCfg, UNCHANGED buildVars
  PROVE  CfgOK'
<1>1. cluster' = cluster /\ cfg' = cfg /\ urls' = urls /\ calls' = calls
  BY DEF buildVars
<1>2. CfgTyped(cfg) => CfgTyped(cfg)'
  BY <1>1 DEF CfgTyped, Fields
<1>3. \A name : CallsOf(name)' = CallsOf(name) /\ Asked(name)' = Asked(name)
  BY <1>1 DEF Asked, CallsOf, LastCall
<1>4. Collects(cfg.root_certs, "tls_ca_cert") => Collects(cfg.root_certs, "tls_ca_cert")'
  BY <1>1, <1>3 DEF Collects
<1>5. /\ AskedOr("tls", UrlTls(urls[1]), "NoTls")' = AskedOr("tls", UrlTls(urls[1]), "NoTls")
      /\ AskedOr("protocol", urls[1].redis.protocol, "RESP3")'
           = AskedOr("protocol", urls[1].redis.protocol, "RESP3")
      /\ AskedOr("lazy_connect", FALSE, FALSE)' = AskedOr("lazy_connect", FALSE, FALSE)
      /\ AskedOr("database_id", urls[1].redis.db, 0)' = AskedOr("database_id", urls[1].redis.db, 0)
      /\ AskedOr("read_from", Primary, Primary)' = AskedOr("read_from", Primary, Primary)
      /\ AskedOr("periodic_checks", Enabled, Enabled)' = AskedOr("periodic_checks", Enabled, Enabled)
  BY <1>1, <1>3 DEF AskedOr, UrlTls, Primary, Enabled
<1>6. CfgAsked(cfg) => CfgAsked(cfg)'
  BY <1>1, <1>3, <1>4, <1>5 DEF CfgAsked
<1> QED BY <1>2, <1>6 DEF CfgOK

(* A configuration is made, of URLs us, or refused. *)
LEMMA MakeInv ==
  ASSUME IInv, NEW result, NEW us \in Seq(Url), Len(us) <= MaxUrls + 1, Make(result, us),
         result.ok \in BOOLEAN,
         result.ok => /\ (CfgTyped(cfg)' /\ CfgAsked(cfg)')
                      /\ cluster => us = <<>> \/ UrlsAgree',
         ~result.ok => (cluster => ~GoodUrls(us))
  PROVE  IInv'
<1>1. /\ phase = "none" /\ urls' = us /\ UNCHANGED <<cluster, calls>> /\ UNCHANGED rest
      /\ result.ok => phase' = "building"
      /\ ~result.ok => phase' = "refused"
  BY DEF Make, rest
<1>2. calls = <<>> /\ calls' = <<>>
  BY <1>1 DEF IInv, HistoryOK, HasCfg
<1>3. HistoryOK'
  <2>1. \A name \in Setters : CallsOf(name)' = {}
    BY <1>2 DEF CallsOf
  <2>2. phase' \in {"building", "refused"}
    BY <1>1
  <2> QED BY <1>1, <1>2, <2>1, <2>2 DEF IInv, HistoryOK, HasCfg
<1>4. CfgOK'
  <2>1. CASE result.ok
    BY <2>1 DEF CfgOK
  <2>2. CASE ~result.ok
    BY <1>1, <2>2 DEF CfgOK, HasCfg
  <2> QED BY <2>1, <2>2
<1>5. SessionOK'
  BY <1>1, Unconnected DEF IInv
<1>6. UrlsAgree'
  <2>1. CASE ~cluster
    BY <1>1, <2>1 DEF UrlsAgree
  <2>2. CASE cluster /\ ~result.ok
    <3>1. phase' = "refused" /\ ~GoodUrls(urls')
      BY <1>1, <2>2
    <3> QED BY <1>1, <3>1 DEF UrlsAgree, GoodUrls, Usable, Same, UrlTls
  <2>3. CASE cluster /\ result.ok
    <3>1. phase' = "building"
      BY <1>1, <2>3
    <3>2. CASE us = <<>>
      BY <1>1, <3>1, <3>2 DEF UrlsAgree
    <3> QED BY <2>3, <3>2
  <2> QED BY <2>1, <2>2, <2>3
<1> QED BY <1>3, <1>4, <1>5, <1>6 DEF IInv

LEMMA WithAddressInv ==
  ASSUME IInv, NEW a \in Address, WithAddress(a)
  PROVE  IInv'
<1> DEFINE c == NewCfg(<<a>>)
<1>1. Make(Ok(c), <<>>) /\ Ok(c).ok = TRUE /\ Ok(c).value = c
  BY OkIs DEF WithAddress, NewCfg
<1>2. /\ cfg' = c /\ urls' = <<>> /\ calls' = calls /\ cluster' = cluster /\ phase = "none"
  BY <1>1 DEF Make
<1>3. calls' = <<>>
  BY <1>2 DEF IInv, HistoryOK, HasCfg
<1>4. /\ DOMAIN c = Fields
      /\ c.tls = "NoTls" /\ c.protocol = "RESP3" /\ c.lazy_connect = FALSE
      /\ c.force_pubsub_channel = FALSE /\ (~cluster => c.database_id = 0)
      /\ c.read_from = Primary /\ (cluster => c.periodic_checks = Enabled)
      /\ c.credentials = None /\ c.root_certs = <<>>
      /\ c.pubsub_subscriptions = None /\ \A o \in OnlyAsked : c[o] = None
  BY NewIs
<1> HIDE DEF c
<1>5. CfgTyped(cfg)' /\ CfgAsked(cfg)'
  <2>1. IsOption(c.credentials) /\ (IsSome(c.credentials) => c.credentials[1].password \in Password)
    BY <1>4, NoneIs
  <2>2. urls' \in Seq(Url) /\ ~(urls' # <<>>)
    BY <1>2
  <2> QED BY <1>2, <1>3, <1>4, <2>1, <2>2, FreshCfg
<1>6. <<>> \in Seq(Url) /\ Len(<<>>) <= MaxUrls + 1
  BY SessionAssumption
<1> QED BY <1>1, <1>5, <1>6, MakeInv

LEMMA FromUrlInv ==
  ASSUME IInv, NEW u \in Url, FromUrl(u)
  PROVE  IInv'
<1>1. ~cluster /\ Make(from_url(u), <<u>>) /\ phase = "none"
  BY DEF FromUrl, Make
<1>2. <<u>> \in Seq(Url) /\ Len(<<u>>) <= MaxUrls + 1 /\ <<u>> # <<>> /\ <<u>>[1] = u
  BY SessionAssumption
<1>3. CASE Seed(u).ok
  <2> DEFINE n == StandaloneNew(<<Seed(u).value.address>>)
             w == WithUrl(n, Seed(u).value.tls, u.redis)
             c == [w EXCEPT !.database_id = u.redis.db]
  <2>1. from_url(u) = Ok(c)
    BY <1>3 DEF from_url
  <2>2. /\ DOMAIN n = Fields /\ n.lazy_connect = FALSE
        /\ n.force_pubsub_channel = FALSE /\ n.database_id = 0 /\ n.root_certs = <<>>
        /\ n.read_from = Primary
        /\ n.pubsub_subscriptions = None /\ \A o \in OnlyAsked : n[o] = None
    <3>1. n = NewCfg(<<Seed(u).value.address>>)
      BY <1>1 DEF NewCfg
    <3> HIDE DEF n
    <3> QED BY <1>1, <3>1, NewIs
  <2>3. u.redis.protocol \in DOMAIN CoreProtocol /\ u.redis.password \in Password
    BY UrlAssumption
  <2> HIDE DEF n
  <2>4. /\ DOMAIN w = Fields /\ w.tls = Seed(u).value.tls /\ w.protocol = u.redis.protocol
        /\ w.credentials = credentials_from_info(u.redis.username, u.redis.password)
        /\ \A f \in Fields \ {"tls", "protocol", "client_name", "credentials"} : w[f] = n[f]
    BY <2>2, <2>3, WithUrlIs
  <2>5. Seed(u).value.tls = UrlTls(u)
    BY <1>3, SeedIs
  <2> HIDE DEF w
  <2>6. DOMAIN c = Fields /\ c.database_id = u.redis.db /\ \A f \in Fields : f # "database_id" => c[f] = w[f]
    BY <1>1, <2>4 DEF Fields
  <2> HIDE DEF c
  <2>7. /\ c.tls = UrlTls(u) /\ c.protocol = u.redis.protocol
        /\ c.credentials = credentials_from_info(u.redis.username, u.redis.password)
    BY <2>4, <2>5, <2>6 DEF Fields
  <2>8. /\ c.lazy_connect = FALSE /\ c.force_pubsub_channel = FALSE /\ c.root_certs = <<>>
        /\ c.pubsub_subscriptions = None /\ c.read_from = Primary
    BY <2>2, <2>4, <2>6 DEF Fields
  <2>9. \A o \in OnlyAsked : c[o] = None
    <3>1. \A o \in OnlyAsked : o \in Fields \ {"tls", "protocol", "client_name", "credentials", "database_id"}
      BY DEF OnlyAsked, Fields
    <3> QED BY <2>2, <2>4, <2>6, <3>1
  <2>10. IsOption(c.credentials) /\ (IsSome(c.credentials) => c.credentials[1].password \in Password)
    BY <2>3, <2>7, CredentialsIs
  <2>11. /\ cfg' = c /\ urls' = <<u>> /\ calls' = calls /\ cluster' = cluster
         /\ from_url(u).ok = TRUE
    BY <1>1, <2>1, OkIs DEF Make
  <2>12. calls' = <<>>
    BY <1>1, <2>11 DEF IInv, HistoryOK, HasCfg
  <2>13. CfgTyped(cfg)' /\ CfgAsked(cfg)'
    BY <1>1, <1>2, <2>6, <2>7, <2>8, <2>9, <2>10, <2>11, <2>12, FreshCfg
  <2> QED BY <1>1, <1>2, <2>11, <2>13, MakeInv
<1>4. CASE ~Seed(u).ok
  <2>1. from_url(u) = Err
    BY <1>4 DEF from_url
  <2>2. from_url(u).ok = FALSE
    BY <2>1, OkIs
  <2> QED BY <1>1, <1>2, <2>2, MakeInv
<1> QED BY <1>3, <1>4

LEMMA FromUrlsInv ==
  ASSUME IInv, NEW us \in Seq(Url), Len(us) <= MaxUrls, FromUrls(us)
  PROVE  IInv'
<1>1. cluster /\ Make(from_urls(us), us) /\ phase = "none" /\ Len(us) <= MaxUrls + 1
  BY SessionAssumption DEF FromUrls, Make
<1>2. CASE GoodUrls(us)
  <2> DEFINE a == [i \in DOMAIN us |-> us[i].addr.node]
             n == ClusterNew(a)
             c == WithUrl(n, UrlTls(us[1]), us[1].redis)
  <2>1. from_urls(us).ok = TRUE /\ from_urls(us).value = c
    BY <1>2, FromUrlsOk
  <2>2. us # <<>> /\ 1 \in DOMAIN us /\ us[1] \in Url
    BY <1>2 DEF GoodUrls
  <2>3. us[1].redis.protocol \in DOMAIN CoreProtocol /\ us[1].redis.password \in Password
    BY <2>2, UrlAssumption
  <2>4. /\ DOMAIN n = Fields /\ n.addresses = a /\ n.lazy_connect = FALSE
        /\ n.force_pubsub_channel = FALSE /\ n.root_certs = <<>>
        /\ n.read_from = Primary /\ n.periodic_checks = Enabled
        /\ n.pubsub_subscriptions = None /\ \A o \in OnlyAsked : n[o] = None
    <3>1. n = NewCfg(a)
      BY <1>1 DEF NewCfg
    <3> HIDE DEF n, a
    <3> QED BY <1>1, <3>1, NewIs
  <2> HIDE DEF n
  <2>5. /\ DOMAIN c = Fields /\ c.tls = UrlTls(us[1]) /\ c.protocol = us[1].redis.protocol
        /\ c.client_name = us[1].redis.client_name
        /\ c.credentials = credentials_from_info(us[1].redis.username, us[1].redis.password)
        /\ \A f \in Fields \ {"tls", "protocol", "client_name", "credentials"} : c[f] = n[f]
    BY <2>3, <2>4, WithUrlIs
  <2> HIDE DEF c
  <2>6. /\ c.lazy_connect = FALSE /\ c.force_pubsub_channel = FALSE /\ c.root_certs = <<>>
        /\ c.pubsub_subscriptions = None /\ c.addresses = a
        /\ c.read_from = Primary /\ c.periodic_checks = Enabled
    BY <1>1, <2>4, <2>5 DEF Fields
  <2>7. \A o \in OnlyAsked : c[o] = None
    <3>1. \A o \in OnlyAsked : o \in Fields \ {"tls", "protocol", "client_name", "credentials"}
      BY DEF OnlyAsked, Fields
    <3> QED BY <2>4, <2>5, <3>1
  <2>8. /\ IsOption(c.credentials) /\ (IsSome(c.credentials) => c.credentials[1].password \in Password)
        /\ \A x \in {c.credentials[i] : i \in DOMAIN c.credentials} :
             x.username = us[1].redis.username /\ x.password = us[1].redis.password
    BY <2>3, <2>5, CredentialsIs
  <2>9. /\ cfg' = c /\ urls' = us /\ calls' = calls /\ cluster' = cluster /\ phase' = "building"
    BY <1>1, <2>1 DEF Make
  <2>10. calls' = <<>>
    BY <1>1, <2>9 DEF IInv, HistoryOK, HasCfg
  <2>11. CfgTyped(cfg)' /\ CfgAsked(cfg)'
    BY <1>1, <2>2, <2>5, <2>6, <2>7, <2>8, <2>9, <2>10, FreshCfg
  <2>12. ASSUME NEW i \in DOMAIN us
         PROVE  /\ c.tls = UrlTls(us[i]) /\ c.client_name = us[i].redis.client_name
                /\ \A x \in {c.credentials[k] : k \in DOMAIN c.credentials} :
                     x.username = us[i].redis.username /\ x.password = us[i].redis.password
    <3>1. Same(us[1], us[i])
      BY <1>2, <2>2 DEF GoodUrls
    <3> QED BY <2>5, <2>8, <3>1 DEF Same
  <2>13. UrlsAgree'
    <3>1. GoodUrls(urls')
      BY <1>2, <2>9
    <3> QED BY <2>6, <2>9, <2>12, <3>1 DEF UrlsAgree, GoodUrls, Usable, Same, UrlTls
  <2> QED BY <1>1, <2>1, <2>11, <2>13, MakeInv
<1>3. CASE ~GoodUrls(us)
  <2>1. from_urls(us).ok = FALSE
    BY <1>3, FromUrlsOk
  <2> QED BY <1>1, <1>3, <2>1, MakeInv
<1> QED BY <1>2, <1>3

(* Neither the URLs nor the calls change, and the phase does not become refused. *)
LEMMA Onwards ==
  ASSUME IInv, UNCHANGED buildVars, phase' \in {"building", "failed", "connected"}, HasCfg
  PROVE  HistoryOK' /\ CfgOK' /\ UrlsAgree'
<1>1. cluster' = cluster /\ cfg' = cfg /\ urls' = urls /\ calls' = calls
  BY DEF buildVars
<1>2. HistoryOK'
  BY <1>1 DEF IInv, HistoryOK, HasCfg, CallsOf, LastCall
<1>3. CfgOK'
  BY CfgKept DEF IInv
<1>4. UrlsAgree'
  <2>1. phase # "refused" /\ phase' # "refused"
    BY DEF HasCfg
  <2> QED BY <1>1, <2>1 DEF IInv, UrlsAgree, UrlTls
<1> QED BY <1>2, <1>3, <1>4

LEMMA StartOverInv ==
  ASSUME IInv, StartOver
  PROVE  IInv'
<1>1. /\ phase = "refused" /\ phase' = "none" /\ urls' = <<>>
      /\ cluster' = cluster /\ cfg' = cfg /\ calls' = calls /\ UNCHANGED rest
  BY DEF StartOver, rest
<1>2. calls = <<>>
  BY <1>1 DEF IInv, HistoryOK, HasCfg
<1>3. HistoryOK'
  <2>1. \A name \in Setters : CallsOf(name)' = {}
    BY <1>1, <1>2 DEF CallsOf
  <2> QED BY <1>1, <1>2, <2>1, SessionAssumption DEF IInv, HistoryOK, HasCfg
<1>4. CfgOK' /\ UrlsAgree'
  BY <1>1 DEF CfgOK, HasCfg, UrlsAgree
<1>5. SessionOK'
  BY <1>1, Unconnected DEF IInv
<1> QED BY <1>3, <1>4, <1>5 DEF IInv

(* One more certificate, one more call of its method. *)
LEMMA CollectsNext ==
  ASSUME HistoryOK, NEW v \in Setting["tls_ca_cert"], "tls_ca_cert" \in DOMAIN Setting,
         calls' = Append(calls, [name |-> "tls_ca_cert", value |-> v]),
         NEW vs \in Seq(Setting["tls_ca_cert"]), Collects(vs, "tls_ca_cert")
  PROVE  Collects(Append(vs, v), "tls_ca_cert")'
<1> DEFINE S == CallsOf("tls_ca_cert")
           T == S \cup {Len(calls) + 1}
           ws == Append(vs, v)
<1>1. /\ CallsOf("tls_ca_cert")' = T
      /\ calls \in Seq(BuilderCalls) /\ S \subseteq DOMAIN calls /\ DOMAIN calls = 1..Len(calls)
  BY AskedNext DEF HistoryOK, CallsOf
<1>2. IsFiniteSet(S) /\ Len(calls) + 1 \notin S /\ S \subseteq Nat
  <2>1. IsFiniteSet(1..Len(calls))
    BY <1>1, FS_Interval
  <2> QED BY <1>1, <2>1, FS_Subset
<1>3. Cardinality(T) = Cardinality(S) + 1 /\ Cardinality(S) \in Nat
  BY <1>2, FS_AddElement, FS_CardinalityType
<1>4. Len(vs) = Cardinality(S) /\ \A i \in S : vs[Cardinality({j \in S : j <= i})] = calls[i].value
  BY DEF Collects
<1>5. /\ ws \in Seq(Setting["tls_ca_cert"]) /\ Len(ws) = Cardinality(T)
      /\ ws[Len(vs) + 1] = v /\ \A k \in 1..Len(vs) : ws[k] = vs[k]
  BY <1>3, <1>4
<1>6. /\ calls'[Len(calls) + 1].value = v
      /\ \A i \in DOMAIN calls : calls'[i] = calls[i]
  <2> DEFINE c == [name |-> "tls_ca_cert", value |-> v]
  <2>1. c.value = v /\ calls' = Append(calls, c)
    OBVIOUS
  <2> HIDE DEF c
  <2> QED BY <1>1, <2>1
<1> HIDE DEF S, ws
<1>7. ASSUME NEW i \in T
      PROVE  ws[Cardinality({j \in T : j <= i})] = calls'[i].value
  <2>1. CASE i = Len(calls) + 1
    <3>1. {j \in T : j <= i} = T
      <4>1. Len(calls) \in Nat /\ \A j \in S : j \in 1..Len(calls)
        BY <1>1
      <4>2. \A j \in T : j <= i
        BY <2>1, <4>1
      <4> QED BY <4>2
    <3> QED BY <1>3, <1>4, <1>5, <1>6, <2>1, <3>1
  <2>2. CASE i \in S
    <3> DEFINE R == {j \in S : j <= i}
    <3>1. {j \in T : j <= i} = R
      <4>1. Len(calls) \in Nat /\ i \in 1..Len(calls)
        BY <1>1, <2>2
      <4>2. ~(Len(calls) + 1 <= i)
        BY <4>1
      <4> QED BY <4>2
    <3>2. i \in R /\ R \subseteq S
      BY <1>2, <2>2
    <3>3. IsFiniteSet(R) /\ Cardinality(R) <= Cardinality(S) /\ Cardinality(R) \in Nat
      BY <1>2, <3>2, FS_Subset, FS_CardinalityType
    <3>4. Cardinality(R) # 0
      BY <3>2, <3>3, FS_EmptySet
    <3>5. Cardinality(R) \in 1..Len(vs)
      BY <1>3, <1>4, <3>3, <3>4
    <3>6. ws[Cardinality(R)] = calls[i].value
      BY <1>4, <1>5, <2>2, <3>5
    <3> QED BY <1>1, <1>6, <2>2, <3>1, <3>6
  <2> QED BY <2>1, <2>2
<1> QED BY <1>1, <1>5, <1>7 DEF Collects, ws

LEMMA CallInv ==
  ASSUME IInv, NEW name \in DOMAIN Setting, NEW v \in Setting[name], Call(name, v)
  PROVE  IInv'
<1>1. /\ phase = "building" /\ phase' = phase /\ cluster' = cluster /\ urls' = urls
      /\ UNCHANGED rest /\ Len(urls) + Len(calls) < MaxInputs
      /\ cfg' = Set(cfg, name, v) /\ calls' = Append(calls, [name |-> name, value |-> v])
      /\ name = "database_id" => ~cluster
      /\ name = "periodic_checks" => cluster
  BY DEF Call, rest
<1>2. HistoryOK /\ CfgTyped(cfg) /\ CfgAsked(cfg) /\ DOMAIN cfg = Fields
  BY <1>1 DEF IInv, CfgOK, HasCfg, CfgTyped
<1>3. name \in Setters
  BY SettingAssumption DEF Setters
<1>4. /\ calls' \in Seq(BuilderCalls) /\ Len(calls') = Len(calls) + 1
      /\ CallsOf(name)' = CallsOf(name) \cup {Len(calls) + 1}
      /\ LastCall(name)' = Len(calls) + 1 /\ Asked(name)' = Some(v)
      /\ \A m \in Setters : m # name =>
           /\ CallsOf(m)' = CallsOf(m) /\ LastCall(m)' = LastCall(m) /\ Asked(m)' = Asked(m)
  BY <1>1, <1>2, AskedNext
<1> DEFINE d == Set(cfg, name, v)
<1>5. /\ DOMAIN d = Fields
      /\ \A f \in Fields : f # Target(name) => d[f] = cfg[f]
      /\ name \in OptionSetters => d[name] = Some(v)
      /\ name \in ValueSetters => d[name] = v
      /\ name = "tls_ca_cert" => d.root_certs = Append(cfg.root_certs, v)
      /\ name = "subscriptions" => d.pubsub_subscriptions = Some(v)
      /\ name = "enable_pubsub" => d.force_pubsub_channel = TRUE
  BY <1>1, <1>2, <1>3, SetIs
<1>6. cfg' = d
  BY <1>1
<1> HIDE DEF d
<1>7. HistoryOK'
  <2>1. Len(calls') <= MaxInputs
    <3>1. Len(urls) \in Nat /\ Len(calls) \in Nat
      BY <1>2 DEF HistoryOK
    <3> QED BY <1>1, <1>4, <3>1, SessionAssumption
  <2>2. ASSUME NEW m \in Setters, CallsOf(m)' # {}
        PROVE  LastCall(m)' \in CallsOf(m)'
    BY <1>2, <1>4, <2>2 DEF HistoryOK
  <2> QED BY <1>1, <1>2, <1>4, <2>1, <2>2 DEF HistoryOK, HasCfg
<1>8. \A m \in OptionSetters \cup ValueSetters : Target(m) = m
  BY DEF Target, OptionSetters, ValueSetters
<1>9. /\ \A f \in OptionSetters \cap Fields : d[f] = IF f = name THEN Some(v) ELSE cfg[f]
      /\ \A f \in ValueSetters \cap Fields : d[f] = IF f = name THEN v ELSE cfg[f]
      /\ d.pubsub_subscriptions = IF name = "subscriptions" THEN Some(v) ELSE cfg.pubsub_subscriptions
      /\ d.root_certs = IF name = "tls_ca_cert" THEN Append(cfg.root_certs, v) ELSE cfg.root_certs
      /\ d.force_pubsub_channel = IF name = "enable_pubsub" THEN TRUE ELSE cfg.force_pubsub_channel
      /\ d.addresses = cfg.addresses
  <2>1. \A f \in OptionSetters \cup ValueSetters : f # name => f # Target(name)
    BY <1>3, <1>8 DEF Target, Setters, OptionSetters, ValueSetters, OtherSetters
  <2>2. /\ name # "subscriptions" => Target(name) # "pubsub_subscriptions"
        /\ name # "tls_ca_cert" => Target(name) # "root_certs"
        /\ name # "enable_pubsub" => Target(name) # "force_pubsub_channel"
        /\ Target(name) # "addresses"
    BY <1>3 DEF Target, Setters, OptionSetters, ValueSetters, OtherSetters
  <2>3. {"pubsub_subscriptions", "root_certs", "force_pubsub_channel", "addresses"} \subseteq Fields
    BY DEF Fields
  <2> QED BY <1>5, <2>1, <2>2, <2>3
<1>10. Fields' = Fields
  BY <1>1 DEF Fields
<1>11. CfgTyped(cfg)'
  <2>1. DOMAIN d = Fields'
    BY <1>5, <1>10
  <2>2. d.tls \in DOMAIN TlsMode /\ d.protocol \in DOMAIN CoreProtocol /\ d.lazy_connect \in BOOLEAN
    <3>1. {"tls", "protocol", "lazy_connect"} \subseteq ValueSetters \cap Fields
      BY DEF ValueSetters, Fields
    <3>2. /\ d.tls = IF name = "tls" THEN v ELSE cfg.tls
          /\ d.protocol = IF name = "protocol" THEN v ELSE cfg.protocol
          /\ d.lazy_connect = IF name = "lazy_connect" THEN v ELSE cfg.lazy_connect
      BY <1>9, <3>1
    <3>3. name = "lazy_connect" => v \in BOOLEAN
      BY SettingAssumption
    <3>4. d.lazy_connect \in BOOLEAN
      BY <1>2, <3>2, <3>3 DEF CfgTyped
    <3> QED BY <1>2, <3>2, <3>4, SettingAssumption DEF CfgTyped
  <2>3. d.force_pubsub_channel \in BOOLEAN
    BY <1>2, <1>9 DEF CfgTyped
  <2>4. ~cluster => d.database_id \in Nat
    <3>1. ~cluster => "database_id" \in ValueSetters \cap Fields
      BY DEF ValueSetters, Fields
    <3>2. ~cluster => d.database_id = IF name = "database_id" THEN v ELSE cfg.database_id
      BY <1>9, <3>1
    <3> QED BY <1>2, <3>2, SettingAssumption DEF CfgTyped
  <2>5. IsOption(d.credentials) /\ (IsSome(d.credentials) => d.credentials[1].password \in Password)
    <3>1. "credentials" \in OptionSetters \cap Fields
      BY DEF OptionSetters, Fields
    <3>2. CASE name = "credentials"
      <4>1. d.credentials = Some(v)
        BY <1>9, <3>1, <3>2
      <4>2. v.password \in Password
        BY <3>2, SettingAssumption
      <4> QED BY <4>1, <4>2, SomeIs
    <3>3. CASE name # "credentials"
      <4>1. d.credentials = cfg.credentials
        BY <1>9, <3>1, <3>3
      <4> QED BY <1>2, <4>1 DEF CfgTyped
    <3> QED BY <3>2, <3>3
  <2>6. d.root_certs \in Seq(Setting["tls_ca_cert"])
    <3>1. cfg.root_certs \in Seq(Setting["tls_ca_cert"])
      BY <1>2 DEF CfgTyped
    <3>2. CASE name = "tls_ca_cert"
      <4>1. v \in Setting["tls_ca_cert"] /\ d.root_certs = Append(cfg.root_certs, v)
        BY <1>9, <3>2
      <4>2. \A S : \A q \in Seq(S), x \in S : Append(q, x) \in Seq(S)
        OBVIOUS
      <4>3. Append(cfg.root_certs, v) \in Seq(Setting["tls_ca_cert"])
        BY <3>1, <4>1, <4>2, Zenon
      <4> QED BY <4>1, <4>3
    <3>3. CASE name # "tls_ca_cert"
      BY <1>9, <3>1, <3>3
    <3> QED BY <3>2, <3>3
  <2>7. /\ IsOption(cfg.credentials)'
        /\ IsSome(cfg.credentials)' => cfg'.credentials[1].password \in Password
    BY <1>6, <2>5 DEF IsOption, IsSome
  <2> QED BY <1>1, <1>6, <2>1, <2>2, <2>3, <2>4, <2>6, <2>7 DEF CfgTyped
<1>12. CfgAsked(cfg)'
  <2>1. \A m \in Setters : Asked(m)' = IF m = name THEN Some(v) ELSE Asked(m)
    BY <1>4
  <2>2. \A o \in OnlyAsked : d[o] = Asked(o)'
    <3>1. \A o \in OnlyAsked : o \in OptionSetters \cap Fields /\ o \in Setters
      BY DEF OnlyAsked, OptionSetters, Fields, Setters
    <3> QED BY <1>2, <1>9, <2>1, <3>1 DEF CfgAsked
  <2>3. d.pubsub_subscriptions = Asked("subscriptions")'
    <3>1. "subscriptions" \in Setters
      BY DEF Setters, OtherSetters
    <3> QED BY <1>2, <1>9, <2>1, <3>1 DEF CfgAsked
  <2>4. /\ IsSome(Asked("credentials"))' => d.credentials = Asked("credentials")'
        /\ IsSome(Asked("client_name"))' => d.client_name = Asked("client_name")'
    <3>1. {"credentials", "client_name"} \subseteq Setters \cap (OptionSetters \cap Fields)
      BY DEF Setters, OptionSetters, Fields
    <3>2. /\ d.credentials = IF name = "credentials" THEN Some(v) ELSE cfg.credentials
          /\ d.client_name = IF name = "client_name" THEN Some(v) ELSE cfg.client_name
      BY <1>9, <3>1
    <3> QED BY <1>2, <2>1, <3>1, <3>2 DEF CfgAsked, IsSome
  <2>5. \A x : Some(x)[1] = x /\ IsSome(Some(x))
    BY SomeIs
  <2>6. ASSUME NEW m \in ValueSetters \cap Fields, NEW url, NEW default,
               cfg[m] = IF IsSome(Asked(m)) THEN Asked(m)[1]
                        ELSE IF urls # <<>> THEN url ELSE default
        PROVE  d[m] = IF IsSome(Asked(m)') THEN Asked(m)'[1]
                      ELSE IF urls # <<>> THEN url ELSE default
    <3>1. m \in Setters
      BY DEF Setters
    <3> QED BY <1>9, <2>1, <2>5, <2>6, <3>1
  <2>7. /\ {"tls", "protocol", "lazy_connect", "read_from"} \subseteq ValueSetters \cap Fields
        /\ cluster => "periodic_checks" \in ValueSetters \cap Fields
        /\ ~cluster => "database_id" \in ValueSetters \cap Fields
    BY DEF ValueSetters, Fields
  <2>8. d.tls = AskedOr("tls", UrlTls(urls[1]), "NoTls")'
    <3>1. cfg["tls"] = IF IsSome(Asked("tls")) THEN Asked("tls")[1]
                       ELSE IF urls # <<>> THEN UrlTls(urls[1]) ELSE "NoTls"
      BY <1>2 DEF CfgAsked, AskedOr
    <3>2. d["tls"] = IF IsSome(Asked("tls")') THEN Asked("tls")'[1]
                     ELSE IF urls # <<>> THEN UrlTls(urls[1]) ELSE "NoTls"
      BY <2>6, <2>7, <3>1
    <3> QED BY <1>1, <3>2 DEF AskedOr, IsSome, UrlTls
  <2>9. d.protocol = AskedOr("protocol", urls[1].redis.protocol, "RESP3")'
    <3>1. cfg["protocol"] = IF IsSome(Asked("protocol")) THEN Asked("protocol")[1]
                            ELSE IF urls # <<>> THEN urls[1].redis.protocol ELSE "RESP3"
      BY <1>2 DEF CfgAsked, AskedOr
    <3>2. d["protocol"] = IF IsSome(Asked("protocol")') THEN Asked("protocol")'[1]
                          ELSE IF urls # <<>> THEN urls[1].redis.protocol ELSE "RESP3"
      BY <2>6, <2>7, <3>1
    <3> QED BY <1>1, <3>2 DEF AskedOr, IsSome
  <2>10. d.lazy_connect = AskedOr("lazy_connect", FALSE, FALSE)'
    <3>1. cfg["lazy_connect"] = IF IsSome(Asked("lazy_connect")) THEN Asked("lazy_connect")[1]
                                ELSE IF urls # <<>> THEN FALSE ELSE FALSE
      BY <1>2 DEF CfgAsked, AskedOr
    <3>2. d["lazy_connect"] = IF IsSome(Asked("lazy_connect")') THEN Asked("lazy_connect")'[1]
                              ELSE IF urls # <<>> THEN FALSE ELSE FALSE
      BY <2>6, <2>7, <3>1
    <3> QED BY <1>1, <3>2 DEF AskedOr, IsSome
  <2>11. ~cluster => d.database_id = AskedOr("database_id", urls[1].redis.db, 0)'
    <3> SUFFICES ASSUME ~cluster PROVE d.database_id = AskedOr("database_id", urls[1].redis.db, 0)'
      OBVIOUS
    <3>1. cfg["database_id"] = IF IsSome(Asked("database_id")) THEN Asked("database_id")[1]
                               ELSE IF urls # <<>> THEN urls[1].redis.db ELSE 0
      BY <1>2 DEF CfgAsked, AskedOr
    <3>2. d["database_id"] = IF IsSome(Asked("database_id")') THEN Asked("database_id")'[1]
                             ELSE IF urls # <<>> THEN urls[1].redis.db ELSE 0
      BY <2>6, <2>7, <3>1
    <3> QED BY <1>1, <3>2 DEF AskedOr, IsSome
  <2>12. d.read_from = AskedOr("read_from", Primary, Primary)'
    <3>1. cfg["read_from"] = IF IsSome(Asked("read_from")) THEN Asked("read_from")[1]
                             ELSE IF urls # <<>> THEN Primary ELSE Primary
      BY <1>2 DEF CfgAsked, AskedOr
    <3>2. d["read_from"] = IF IsSome(Asked("read_from")') THEN Asked("read_from")'[1]
                           ELSE IF urls # <<>> THEN Primary ELSE Primary
      BY <2>6, <2>7, <3>1
    <3> QED BY <1>1, <3>2 DEF AskedOr, IsSome, Primary
  <2>13. cluster => d.periodic_checks = AskedOr("periodic_checks", Enabled, Enabled)'
    <3> SUFFICES ASSUME cluster PROVE d.periodic_checks = AskedOr("periodic_checks", Enabled, Enabled)'
      OBVIOUS
    <3>1. cfg["periodic_checks"] = IF IsSome(Asked("periodic_checks")) THEN Asked("periodic_checks")[1]
                                   ELSE IF urls # <<>> THEN Enabled ELSE Enabled
      BY <1>2 DEF CfgAsked, AskedOr
    <3>2. d["periodic_checks"] = IF IsSome(Asked("periodic_checks")') THEN Asked("periodic_checks")'[1]
                                 ELSE IF urls # <<>> THEN Enabled ELSE Enabled
      BY <2>6, <2>7, <3>1
    <3> QED BY <1>1, <3>2 DEF AskedOr, IsSome, Enabled
  <2>14. Collects(cfg.root_certs, "tls_ca_cert")'
    <3>1. PICK w : w = cfg.root_certs
      OBVIOUS
    <3>2. w \in Seq(Setting["tls_ca_cert"]) /\ Collects(w, "tls_ca_cert")
      BY <1>2, <3>1 DEF CfgTyped, CfgAsked
    <3>3. CASE name = "tls_ca_cert"
      <4>1. Collects(Append(w, v), "tls_ca_cert")'
        BY <1>1, <1>2, <3>2, <3>3, CollectsNext
      <4>2. cfg'.root_certs = Append(w, v)
        BY <1>6, <1>9, <3>1, <3>3
      <4> QED BY <4>1, <4>2 DEF Collects
    <3>4. CASE name # "tls_ca_cert"
      <4>1. CallsOf("tls_ca_cert")' = CallsOf("tls_ca_cert")
        <5>1. "tls_ca_cert" \in Setters
          BY DEF Setters, OtherSetters
        <5> QED BY <1>4, <3>4, <5>1
      <4>2. \A i \in CallsOf("tls_ca_cert") : calls'[i] = calls[i]
        BY <1>1, <1>2 DEF CallsOf, HistoryOK
      <4>3. cfg'.root_certs = w
        BY <1>6, <1>9, <3>1, <3>4
      <4> QED BY <3>2, <4>1, <4>2, <4>3 DEF Collects
    <3> QED BY <3>3, <3>4
  <2> QED BY <1>1, <1>6, <2>2, <2>3, <2>4, <2>8, <2>9, <2>10, <2>11, <2>12, <2>13, <2>14 DEF CfgAsked, Primary, Enabled
<1>13. SessionOK'
  BY <1>1, Unconnected DEF IInv
<1>14. UrlsAgree'
  <2>1. calls' # <<>>
    <3>1. Len(calls) \in Nat
      BY <1>2 DEF HistoryOK
    <3> QED BY <1>4, <3>1
  <2>2. cfg'.addresses = cfg.addresses /\ phase # "refused" /\ phase' # "refused"
    BY <1>1, <1>6, <1>9
  <2> QED BY <1>1, <2>1, <2>2 DEF IInv, UrlsAgree, UrlTls
<1> QED BY <1>7, <1>11, <1>12, <1>13, <1>14 DEF IInv, CfgOK
-----------------------------------------------------------------------------
(* The request: to_request and common_request, field by field. *)
Request == to_request(cluster, cfg)

LEMMA RequestIs ==
  ASSUME cluster \in BOOLEAN
  PROVE  /\ Request.tls_mode = Some(TlsMode[cfg.tls])
         /\ Request.protocol = Some(CoreProtocol[cfg.protocol])
         /\ Request.client_name = cfg.client_name /\ Request.lazy_connect = cfg.lazy_connect
         /\ Request.inflight_requests_limit = cfg.inflight_requests_limit
         /\ Request.root_certs = cfg.root_certs
         /\ Request.client_cert = Map(LAMBDA i : i.cert_pem, cfg.client_identity)
         /\ Request.client_key = Map(LAMBDA i : i.key_pem, cfg.client_identity)
         /\ Request.pubsub_subscriptions = Map(SubscriptionInfo, cfg.pubsub_subscriptions)
         /\ Request.authentication_info = Map(AuthenticationInfo, cfg.credentials)
         /\ Request.request_timeout = Map(duration_as_millis_u32, cfg.request_timeout)
         /\ Request.connection_timeout = Map(duration_as_millis_u32, cfg.connection_timeout)
         /\ Request.connection_retry_strategy = Map(ConnectionRetryStrategy, cfg.reconnect_strategy)
         /\ Request.database_id = IF cluster THEN 0 ELSE cfg.database_id
         /\ Request.read_from = Some(CoreReadFrom(cfg.read_from))
         /\ Request.periodic_checks = IF cluster THEN Some(PeriodicCheck(cfg.periodic_checks)) ELSE None
<1>1. CASE cluster
  BY <1>1 DEF Request, to_request, common_request
<1>2. CASE ~cluster
  BY <1>2 DEF Request, to_request, common_request
<1> QED BY <1>1, <1>2

(* The password of the request is that of the credentials. *)
LEMMA PasswordIs ==
  ASSUME cluster \in BOOLEAN, CfgTyped(cfg)
  PROVE  PasswordOf(Request) \in Password
<1>1. Request.authentication_info = Map(AuthenticationInfo, cfg.credentials)
  BY RequestIs
<1>2. CASE ~IsSome(cfg.credentials)
  <2>1. cfg.credentials = None
    BY <1>2 DEF IsSome
  <2>2. Request.authentication_info = None
    BY <1>1, <2>1 DEF Map, None
  <2> QED BY <2>2, NoneIs, SessionAssumption DEF PasswordOf
<1>3. CASE IsSome(cfg.credentials)
  <2>1. PICK x : x = cfg.credentials[1]
    OBVIOUS
  <2>2. cfg.credentials = Some(x) /\ x.password \in Password
    BY <1>3, <2>1 DEF CfgTyped, IsOption
  <2>3. Request.authentication_info = Some(AuthenticationInfo(x))
    BY <1>1, <2>2 DEF Map, Some
  <2>4. AuthenticationInfo(x).password = x.password
    BY DEF AuthenticationInfo
  <2> QED BY <2>2, <2>3, <2>4, SomeIs DEF PasswordOf
<1> QED BY <1>2, <1>3

(* The subscriptions of the request are the ones asked for. *)
Wanted ==
  {s \in (DOMAIN SubscriptionKind) \X Channel :
     \E i \in DOMAIN Asked("subscriptions") :
       LET asked == Asked("subscriptions")[i]
       IN s[1] \in DOMAIN asked /\ s[2] \in asked[s[1]]}

LEMMA InfoIs ==
  ASSUME NEW v, DOMAIN v \subseteq DOMAIN SubscriptionKind
  PROVE  /\ DOMAIN SubscriptionInfo(v) = DOMAIN v
         /\ \A k \in DOMAIN v : SubscriptionInfo(v)[k] = v[k]
<1>1. \A m \in DOMAIN SubscriptionKind : SubscriptionKind[m] = m
  BY DEF SubscriptionKind
<1>2. {SubscriptionKind[m] : m \in DOMAIN v} = DOMAIN v
  BY <1>1
<1>3. ASSUME NEW k \in DOMAIN v
      PROVE  UNION {v[m] : m \in {x \in DOMAIN v : SubscriptionKind[x] = k}} = v[k]
  <2>1. {x \in DOMAIN v : SubscriptionKind[x] = k} = {k}
    BY <1>1
  <2> QED BY <2>1
<1> QED BY <1>2, <1>3 DEF SubscriptionInfo

LEMMA SubscribedIs ==
  ASSUME HistoryOK, CfgAsked(cfg)
  PROVE  /\ Subscribed(Request) = Wanted
         /\ Wanted # {} => HasPushChannel(cfg)
<1>1. Request.pubsub_subscriptions = Map(SubscriptionInfo, Asked("subscriptions"))
  BY RequestIs DEF HistoryOK, CfgAsked
<1>2. cfg.pubsub_subscriptions = Asked("subscriptions")
  BY DEF CfgAsked
<1>3. CASE ~IsSome(Asked("subscriptions"))
  <2>1. Asked("subscriptions") = None
    BY <1>3 DEF IsSome
  <2>2. Request.pubsub_subscriptions = None
    BY <1>1, <2>1 DEF Map, None
  <2>3. Subscribed(Request) = {}
    BY <2>2, NoneIs DEF Subscribed
  <2>4. Wanted = {}
    BY <2>1, NoneIs DEF Wanted
  <2> QED BY <2>3, <2>4
<1>4. CASE IsSome(Asked("subscriptions"))
  <2>1. "subscriptions" \in Setters
    BY DEF Setters, OtherSetters
  <2>2. PICK v \in Setting["subscriptions"] :
          "subscriptions" \in DOMAIN Setting /\ Asked("subscriptions") = Some(v)
    BY <1>4, <2>1, AskedValue
  <2>3. DOMAIN v \subseteq DOMAIN SubscriptionKind /\ \A m \in DOMAIN v : v[m] \subseteq Channel
    BY <2>2, SettingAssumption
  <2>4. Request.pubsub_subscriptions = Some(SubscriptionInfo(v))
    BY <1>1, <2>2 DEF Map, Some
  <2>5. Subscribed(Request) = UNION {{<<k, ch>> : ch \in v[k]} : k \in DOMAIN v}
    <3>1. PICK info : info = SubscriptionInfo(v)
      OBVIOUS
    <3>2. Subscribed(Request) = UNION {{<<k, ch>> : ch \in info[k]} : k \in DOMAIN info}
      BY <2>4, <3>1, SomeIs DEF Subscribed
    <3>3. DOMAIN info = DOMAIN v /\ \A k \in DOMAIN v : info[k] = v[k]
      BY <2>3, <3>1, InfoIs
    <3> QED BY <3>2, <3>3
  <2>6. Wanted = {s \in (DOMAIN SubscriptionKind) \X Channel : s[1] \in DOMAIN v /\ s[2] \in v[s[1]]}
    BY <2>2, SomeIs DEF Wanted
  <2>7. Subscribed(Request) = Wanted
    <3>1. ASSUME NEW s \in Subscribed(Request) PROVE s \in Wanted
      <4>1. PICK k \in DOMAIN v : s \in {<<k, ch>> : ch \in v[k]}
        BY <2>5, <3>1
      <4>2. PICK ch \in v[k] : s = <<k, ch>>
        BY <4>1
      <4>3. s \in (DOMAIN SubscriptionKind) \X Channel /\ s[1] = k /\ s[2] = ch
        BY <2>3, <4>1, <4>2
      <4> QED BY <2>6, <4>1, <4>2, <4>3
    <3>2. ASSUME NEW s \in Wanted PROVE s \in Subscribed(Request)
      <4>1. s[1] \in DOMAIN v /\ s[2] \in v[s[1]] /\ s = <<s[1], s[2]>>
        BY <2>6, <3>2
      <4> QED BY <2>5, <4>1
    <3> QED BY <3>1, <3>2
  <2>8. Wanted # {} => ~is_empty(v)
    BY <2>6 DEF is_empty
  <2> QED BY <1>2, <2>2, <2>7, <2>8, SomeIs DEF HasPushChannel
<1> QED BY <1>3, <1>4
-----------------------------------------------------------------------------
LEMMA DownIs == Down \in SessionType /\ ~Down.up
BY SessionAssumption DEF Down, SessionType

LEMMA OpenedIs ==
  ASSUME HistoryOK, CfgTyped(cfg), CfgAsked(cfg), NEW p \in Password
  PROVE  LET o == Opened(Request, p) IN
         /\ o \in SessionType /\ o.password = p
         /\ o.db = Request.database_id /\ o.subs = Subscribed(Request)
<1>1. Request.database_id \in Nat
  BY RequestIs DEF HistoryOK, CfgTyped
<1>2. Subscribed(Request) \subseteq (DOMAIN SubscriptionKind) \X Channel
  BY SubscribedIs DEF Wanted
<1> QED BY <1>1, <1>2 DEF Opened, SessionType

LEMMA ConnectInv ==
  ASSUME IInv, Connect
  PROVE  IInv'
<1>1. /\ phase \in {"building", "failed"} /\ phase' = "connected" /\ UNCHANGED buildVars
      /\ req' = Some(Request) /\ server' = server
      /\ client' = [db |-> IF cluster THEN 0 ELSE cfg.database_id, channel |-> HasPushChannel(cfg)]
      /\ stored' = PasswordOf(Request) /\ given' = PasswordOf(Request)
      /\ session' = Down \/ session' = Opened(Request, stored')
  BY DEF Connect, Request
<1>2. HistoryOK /\ CfgTyped(cfg) /\ CfgAsked(cfg) /\ cluster \in BOOLEAN /\ HasCfg
  BY <1>1 DEF IInv, CfgOK, HasCfg, HistoryOK
<1>3. HistoryOK' /\ CfgOK' /\ UrlsAgree'
  BY <1>1, <1>2, Onwards
<1>4. stored' \in Password /\ given' = stored'
  BY <1>1, <1>2, PasswordIs
<1>5. /\ client'.db = IF cluster THEN 0 ELSE cfg.database_id
      /\ client'.channel = HasPushChannel(cfg) /\ client' \in [db : Nat, channel : BOOLEAN]
  <2>1. HasPushChannel(cfg) \in BOOLEAN
    BY DEF HasPushChannel
  <2>2. (IF cluster THEN 0 ELSE cfg.database_id) \in Nat
    BY <1>2 DEF CfgTyped
  <2> QED BY <1>1, <2>1, <2>2
<1>6. PICK p : p = stored'
  OBVIOUS
<1>7. /\ session' \in SessionType /\ (session'.up => session'.password = stored')
      /\ session'.up => session'.db = Request.database_id /\ session'.subs = Subscribed(Request)
  <2>1. CASE session' = Down
    BY <2>1, DownIs
  <2>2. CASE session' = Opened(Request, p)
    BY <1>2, <1>4, <1>6, <2>2, OpenedIs
  <2> QED BY <1>1, <1>6, <2>1, <2>2
<1>8. req'[1] = Request
  BY <1>1, SomeIs
<1>9. cluster' = cluster /\ cfg' = cfg
  BY <1>1 DEF buildVars
<1>10. /\ to_request(cluster, cfg)' = Request
       /\ HasPushChannel(cfg)' = HasPushChannel(cfg)
       /\ Subscribed(req[1])' = Subscribed(Request)
  <2>1. Subscribed(req[1])' = Subscribed(Request)
    BY <1>8 DEF Subscribed, IsSome
  <2> QED BY <1>9, <2>1 DEF Request
<1>11. SessionOK'
  BY <1>1, <1>4, <1>5, <1>7, <1>8, <1>9, <1>10 DEF SessionOK, IInv
<1> QED BY <1>3, <1>11 DEF IInv

LEMMA ConnectFailsInv ==
  ASSUME IInv, ConnectFails
  PROVE  IInv'
<1>1. /\ phase \in {"building", "failed"} /\ phase' = "failed" /\ UNCHANGED buildVars
      /\ UNCHANGED rest
  BY DEF ConnectFails, rest
<1>2. HistoryOK' /\ CfgOK' /\ UrlsAgree'
  BY <1>1, Onwards DEF HasCfg
<1>3. SessionOK'
  BY <1>1, Unconnected DEF IInv
<1> QED BY <1>2, <1>3 DEF IInv

(* A step of a connected client: only its session and passwords change. *)
LEMMA Connected ==
  ASSUME IInv, phase = "connected", UNCHANGED <<buildVars, phase, req, client>>,
         session' \in SessionType, given' \in Password, stored' = given', server' \in Password,
         session'.up /\ session'.current => session'.password = given',
         session'.up /\ ~session'.touched =>
           session'.db = Request.database_id /\ session'.subs = Subscribed(Request)
  PROVE  IInv'
<1>1. HistoryOK' /\ CfgOK' /\ UrlsAgree'
  BY Onwards DEF HasCfg
<1>2. cluster' = cluster /\ cfg' = cfg /\ phase' = "connected" /\ client' = client /\ req' = req
  BY DEF buildVars
<1>3. req = Some(Request) /\ req[1] = Request
  BY SomeIs DEF IInv, SessionOK, Request
<1>4. Subscribed(req[1])' = Subscribed(Request) /\ req'[1] = Request
  BY <1>2, <1>3 DEF Subscribed, IsSome
<1>5. to_request(cluster, cfg)' = Request /\ HasPushChannel(cfg)' = HasPushChannel(cfg)
  BY <1>2 DEF Request
<1>6. SessionOK'
  BY <1>2, <1>3, <1>4, <1>5 DEF IInv, SessionOK
<1> QED BY <1>1, <1>6 DEF IInv

(* An open session belongs to a client. *)
LEMMA UpIsConnected ==
  ASSUME IInv, session.up
  PROVE  phase = "connected"
BY DownIs DEF IInv, SessionOK

LEMMA ReqIs ==
  ASSUME IInv, phase = "connected"
  PROVE  /\ req[1] = Request /\ HistoryOK /\ CfgTyped(cfg) /\ CfgAsked(cfg)
         /\ session.up /\ ~session.touched =>
              session.db = Request.database_id /\ session.subs = Subscribed(Request)
<1>1. req[1] = Request
  BY SomeIs DEF IInv, SessionOK, Request
<1> QED BY <1>1 DEF IInv, SessionOK, CfgOK, HasCfg

LEMMA LoseInv ==
  ASSUME IInv, Lose
  PROVE  IInv'
<1>1. phase = "connected"
  BY UpIsConnected DEF Lose
<1>2. session' = Down /\ UNCHANGED <<buildVars, phase, req, client>> /\ UNCHANGED <<stored, given, server>>
  BY DEF Lose
<1>3. session' \in SessionType /\ ~session'.up
  BY <1>2, DownIs
<1> QED BY <1>1, <1>2, <1>3, Connected DEF IInv, SessionOK

LEMMA ReopenInv ==
  ASSUME IInv, Reopen
  PROVE  IInv'
<1>1. /\ phase = "connected" /\ UNCHANGED <<buildVars, phase, req, client>>
      /\ UNCHANGED <<stored, given, server>> /\ session' = Opened(req[1], stored)
  BY DEF Reopen
<1>2. req[1] = Request /\ HistoryOK /\ CfgTyped(cfg) /\ CfgAsked(cfg) /\ stored \in Password
  BY <1>1, ReqIs DEF IInv, SessionOK
<1>3. session' = Opened(Request, stored)
  BY <1>1, <1>2
<1>4. /\ session' \in SessionType /\ session'.password = stored
      /\ session'.db = Request.database_id /\ session'.subs = Subscribed(Request)
  BY <1>2, <1>3, OpenedIs
<1> QED BY <1>1, <1>4, Connected DEF IInv, SessionOK

LEMMA RotateInv ==
  ASSUME IInv, NEW p \in Password, Rotate(p)
  PROVE  IInv'
<1>1. /\ phase = "connected" /\ UNCHANGED <<buildVars, phase, req, client>>
      /\ UNCHANGED <<stored, given, session>> /\ server' = p
  BY DEF Rotate
<1>2. /\ session.up /\ ~session.touched =>
           session.db = Request.database_id /\ session.subs = Subscribed(Request)
  BY <1>1, ReqIs
<1> QED BY <1>1, <1>2, Connected DEF IInv, SessionOK

LEMMA UpdatePasswordInv ==
  ASSUME IInv, NEW p \in Password, NEW b \in BOOLEAN, update_connection_password(p, b)
  PROVE  IInv'
<1> DEFINE accepted == b /\ session.up /\ IsSome(p) /\ p = server
<1>1. /\ phase = "connected" /\ UNCHANGED <<buildVars, phase, req, client>>
      /\ stored' = p /\ given' = p /\ server' = server
      /\ session' = [session EXCEPT !.password = IF accepted THEN p ELSE @, !.current = accepted]
  BY DEF update_connection_password
<1>2. accepted \in BOOLEAN /\ session \in SessionType /\ server \in Password
  BY DEF IInv, SessionOK
<1> HIDE DEF accepted
<1>3. /\ session'.up = session.up /\ session'.touched = session.touched
      /\ session'.db = session.db /\ session'.subs = session.subs
      /\ session'.current = accepted
      /\ session'.password = IF accepted THEN p ELSE session.password
  BY <1>1, <1>2 DEF SessionType
<1>4. session' \in SessionType
  BY <1>1, <1>2 DEF SessionType
<1>5. /\ session.up /\ ~session.touched =>
           session.db = Request.database_id /\ session.subs = Subscribed(Request)
  BY <1>1, ReqIs
<1> QED BY <1>1, <1>2, <1>3, <1>4, <1>5, Connected

LEMMA RuntimeInv ==
  ASSUME IInv, NEW db \in Nat, NEW subs \in SUBSET ((DOMAIN SubscriptionKind) \X Channel),
         Runtime(db, subs)
  PROVE  IInv'
<1>1. /\ session' = [session EXCEPT !.db = db, !.subs = subs, !.touched = TRUE]
      /\ UNCHANGED <<buildVars, phase, req, client>> /\ UNCHANGED <<stored, given, server>>
      /\ phase = "connected" /\ session \in SessionType
  BY UpIsConnected DEF Runtime, IInv, SessionOK
<1>2. /\ session'.up = session.up /\ session'.touched = TRUE
      /\ session'.current = session.current /\ session'.password = session.password
      /\ session' \in SessionType
  BY <1>1 DEF SessionType
<1> QED BY <1>1, <1>2, Connected DEF IInv, SessionOK

LEMMA SubscribeInv ==
  ASSUME IInv, NEW k \in Kinds, NEW cs \in SUBSET Channel,
         subscribe_at_runtime(k, cs) \/ unsubscribe_at_runtime(k, cs)
  PROVE  IInv'
<1>1. /\ session.db \in Nat /\ session.subs \subseteq (DOMAIN SubscriptionKind) \X Channel
      /\ k \in DOMAIN SubscriptionKind
  BY SessionAssumption DEF IInv, SessionOK, SessionType
<1>2. CASE subscribe_at_runtime(k, cs)
  <2>1. \A ch \in cs : <<k, ch>> \in (DOMAIN SubscriptionKind) \X Channel
    BY <1>1
  <2>2. session.subs \cup {<<k, ch>> : ch \in cs} \subseteq (DOMAIN SubscriptionKind) \X Channel
    BY <1>1, <2>1
  <2> QED BY <1>1, <1>2, <2>2, RuntimeInv DEF subscribe_at_runtime
<1>3. CASE unsubscribe_at_runtime(k, cs)
  <2> DEFINE left == {s \in session.subs : s[1] # k \/ (cs # {} /\ s[2] \notin cs)}
  <2>1. left \subseteq (DOMAIN SubscriptionKind) \X Channel
    BY <1>1
  <2>2. Runtime(session.db, left)
    BY <1>3 DEF unsubscribe_at_runtime
  <2> HIDE DEF left
  <2> QED BY <1>1, <2>1, <2>2, RuntimeInv
<1> QED BY <1>2, <1>3

LEMMA InitInv == Init => IInv
<1> SUFFICES ASSUME Init PROVE IInv
  OBVIOUS
<1>1. calls = <<>> /\ urls = <<>> /\ phase = "none" /\ cluster \in BOOLEAN
  BY DEF Init
<1>2. HistoryOK
  <2>1. \A name \in Setters : CallsOf(name) = {}
    BY <1>1, NothingAsked
  <2> QED BY <1>1, <2>1, SessionAssumption DEF HistoryOK, HasCfg
<1>3. CfgOK /\ UrlsAgree
  BY <1>1 DEF CfgOK, HasCfg, UrlsAgree
<1>4. SessionOK
  BY <1>1, DownIs, SessionAssumption DEF Init, SessionOK
<1> QED BY <1>2, <1>3, <1>4 DEF IInv

LEMMA StutterInv ==
  ASSUME IInv, UNCHANGED vars
  PROVE  IInv'
<1>1. /\ UNCHANGED buildVars /\ phase' = phase /\ UNCHANGED rest
      /\ cluster' = cluster /\ cfg' = cfg /\ urls' = urls /\ calls' = calls
  BY DEF vars, buildVars, rest
<1>2. HistoryOK'
  BY <1>1 DEF IInv, HistoryOK, HasCfg, CallsOf, LastCall
<1>3. CfgOK'
  BY <1>1, CfgKept DEF IInv, HasCfg
<1>4. UrlsAgree'
  BY <1>1 DEF IInv, UrlsAgree, UrlTls
<1>5. SessionOK'
  BY <1>1 DEF IInv, SessionOK, rest
<1> QED BY <1>2, <1>3, <1>4, <1>5 DEF IInv

LEMMA SelectInv ==
  ASSUME IInv, select(1)
  PROVE  IInv'
<1>1. session.subs \in SUBSET ((DOMAIN SubscriptionKind) \X Channel) /\ 1 \in Nat
  BY DEF IInv, SessionOK, SessionType
<1>2. PICK subs \in SUBSET ((DOMAIN SubscriptionKind) \X Channel) : subs = session.subs
  BY <1>1
<1>3. Runtime(1, subs)
  BY <1>2 DEF select
<1> QED
  BY <1>3, RuntimeInv

(* Every reachable state satisfies the inductive invariant. *)
THEOREM Inductive == Spec => []IInv
<1>1. Init => IInv
  BY InitInv
<1>2. ASSUME IInv, [Next]_vars
      PROVE  IInv'
  <2>1. CASE UNCHANGED vars
    BY <1>2, <2>1, StutterInv
  <2>2. ASSUME NEW u \in Url, FromUrl(u)
        PROVE  IInv'
    BY <1>2, <2>2, FromUrlInv
  <2>3. ASSUME NEW n \in 0..MaxUrls, NEW us \in [1..n -> Url], FromUrls(us)
        PROVE  IInv'
    <3>1. n \in Nat /\ n <= MaxUrls
      BY SessionAssumption
    <3>2. us \in Seq(Url) /\ Len(us) = n
      BY <3>1
    <3> QED
      BY <1>2, <2>3, <3>1, <3>2, FromUrlsInv
  <2>4. ASSUME NEW a \in Address, WithAddress(a)
        PROVE  IInv'
    BY <1>2, <2>4, WithAddressInv
  <2>5. ASSUME NEW name \in DOMAIN Setting, NEW v \in Setting[name], Call(name, v)
        PROVE  IInv'
    BY <1>2, <2>5, CallInv
  <2>6. CASE StartOver
    BY <1>2, <2>6, StartOverInv
  <2>7. CASE Connect
    BY <1>2, <2>7, ConnectInv
  <2>8. CASE ConnectFails
    BY <1>2, <2>8, ConnectFailsInv
  <2>9. CASE Lose
    BY <1>2, <2>9, LoseInv
  <2>10. CASE Reopen
    BY <1>2, <2>10, ReopenInv
  <2>11. ASSUME NEW p \in Password, Rotate(p)
         PROVE  IInv'
    BY <1>2, <2>11, RotateInv
  <2>12. ASSUME NEW p \in Password, NEW b \in BOOLEAN, update_connection_password(p, b)
         PROVE  IInv'
    BY <1>2, <2>12, UpdatePasswordInv
  <2>13. ASSUME NEW k \in Kinds, NEW ch \in Channel, subscribe_at_runtime(k, {ch})
         PROVE  IInv'
    <3>1. {ch} \in SUBSET Channel
      OBVIOUS
    <3> QED
      BY <1>2, <2>13, <3>1, SubscribeInv
  <2>14. ASSUME NEW k \in Kinds, NEW cs \in SUBSET Channel, unsubscribe_at_runtime(k, cs)
         PROVE  IInv'
    BY <1>2, <2>14, SubscribeInv
  <2>15. CASE select(1)
    BY <1>2, <2>15, SelectInv
  <2> QED
    BY <1>2, <2>1, <2>2, <2>3, <2>4, <2>5, <2>6, <2>7, <2>8, <2>9, <2>10, <2>11, <2>12,
       <2>13, <2>14, <2>15 DEF Next
<1> QED
  BY <1>1, <1>2, PTL DEF Spec
-----------------------------------------------------------------------------
(* What the invariant says of the request. *)
LEMMA ReqOr ==
  ASSUME IInv
  PROVE  IsSome(req) => phase = "connected" /\ req[1] = Request
<1>1. phase # "connected" => req = None
  BY DEF IInv, SessionOK
<1> QED
  BY <1>1, NoneIs, ReqIs

LEMMA MillisIs ==
  ASSUME NEW d \in Nat
  PROVE  LET ms == duration_as_millis_u32(d) IN
         /\ ms \in 0..MaxU32
         /\ ms * 1000 <= d
         /\ d < (ms + 1) * 1000 \/ ms = MaxU32
<1>1. PICK q \in Nat : q = d \div 1000
  OBVIOUS
<1>2. q * 1000 <= d /\ d < (q + 1) * 1000
  BY <1>1
<1>3. CASE q <= MaxU32
  BY <1>1, <1>2, <1>3, MaxU32Assumption DEF duration_as_millis_u32
<1>4. CASE ~(q <= MaxU32)
  <2>1. duration_as_millis_u32(d) = MaxU32
    BY <1>1, <1>4 DEF duration_as_millis_u32
  <2>2. MaxU32 * 1000 <= d
    BY <1>2, <1>4, MaxU32Assumption
  <2> QED
    BY <2>1, <2>2, MaxU32Assumption
<1> QED
  BY <1>3, <1>4

(* A timeout of the request, from what was asked for. *)
LEMMA TimeoutIs ==
  ASSUME IInv, IsSome(req), NEW t \in {"request_timeout", "connection_timeout"}
  PROVE  \/ /\ Asked(t) = None /\ req[1][t] = None
         \/ \E d \in Nat : Asked(t) = Some(d) /\ req[1][t] = Some(duration_as_millis_u32(d))
<1>1. phase = "connected" /\ req[1] = Request /\ HistoryOK /\ CfgAsked(cfg)
  BY ReqOr, ReqIs
<1>2. req[1][t] = Map(duration_as_millis_u32, cfg[t])
  BY <1>1, RequestIs DEF HistoryOK
<1>3. cfg[t] = Asked(t) /\ t \in Setters
  BY <1>1 DEF CfgAsked, OnlyAsked, Setters, OptionSetters
<1>4. CASE ~IsSome(Asked(t))
  BY <1>2, <1>3, <1>4 DEF IsSome, Map, None
<1>5. CASE IsSome(Asked(t))
  <2>1. PICK d \in Setting[t] : Asked(t) = Some(d) /\ t \in DOMAIN Setting
    BY <1>1, <1>3, <1>5, AskedValue
  <2>2. d \in Nat
    BY <2>1, SettingAssumption
  <2>3. Map(duration_as_millis_u32, Some(d)) = Some(duration_as_millis_u32(d))
    BY DEF Map, Some
  <2> QED
    BY <1>2, <1>3, <2>1, <2>2, <2>3
<1> QED
  BY <1>4, <1>5

(***************************************************************************)
(* Type correctness.  In particular a Duration of any length becomes a     *)
(* timeout of 32 bits (duration_as_millis_u32), in every request.          *)
(***************************************************************************)
THEOREM TypeCorrect == Spec => []TypeOK
<1>1. IInv => TypeOK
  <2> SUFFICES ASSUME IInv PROVE TypeOK
    OBVIOUS
  <2>1. /\ cluster \in BOOLEAN /\ phase \in {"none", "refused", "building", "failed", "connected"}
        /\ Len(urls) <= MaxUrls + 1 /\ Len(calls) <= MaxInputs
        /\ client \in [db : Nat, channel : BOOLEAN] /\ session \in SessionType
        /\ stored \in Password /\ given \in Password /\ server \in Password
    BY DEF IInv, HistoryOK, SessionOK
  <2>2. \A i \in DOMAIN calls : calls[i].name \in DOMAIN Setting
    <3> TAKE i \in DOMAIN calls
    <3>1. calls[i] \in BuilderCalls
      BY DEF IInv, HistoryOK
    <3> QED
      BY <3>1 DEF BuilderCalls
  <2>3. session.password \in Password /\ \A s \in session.subs : s[1] \in DOMAIN SubscriptionKind
    BY <2>1 DEF SessionType
  <2>4. IsSome(req) => \A t \in {"request_timeout", "connection_timeout"} :
          req[1][t] \in {None} \cup {Some(n) : n \in 0..MaxU32}
    <3> SUFFICES ASSUME IsSome(req), NEW t \in {"request_timeout", "connection_timeout"}
                 PROVE  req[1][t] \in {None} \cup {Some(n) : n \in 0..MaxU32}
      OBVIOUS
    <3>1. \A d \in Nat : duration_as_millis_u32(d) \in 0..MaxU32
      BY MillisIs
    <3> QED
      BY <3>1, TimeoutIs
  <2> QED
    BY <2>1, <2>2, <2>3, <2>4 DEF TypeOK
<1> QED
  BY <1>1, Inductive, PTL

(***************************************************************************)
(* from_urls accepts exactly the lists whose URLs are usable and agree,    *)
(* for lists of any length in any order.                                   *)
(***************************************************************************)
THEOREM UrlsAreChecked == Spec => []UrlsAgree
<1>1. IInv => UrlsAgree
  BY DEF IInv
<1> QED
  BY <1>1, Inductive, PTL

(***************************************************************************)
(* The request the core is given (to_request) has what was asked last of   *)
(* each setting, after any sequence of builder calls on a configuration    *)
(* made from nothing, from a URL or from URLs.                             *)
(***************************************************************************)
THEOREM RequestsAreAsAsked == Spec => []RequestAsAsked
<1>1. IInv => RequestAsAsked
  <2> SUFFICES ASSUME IInv, IsSome(req) PROVE RequestAsAsked
    BY DEF RequestAsAsked
  <2> DEFINE r == req[1]
             timeoutOk(t) ==
               IF IsSome(Asked(t))
               THEN LET d == Asked(t)[1]  ms == r[t][1]
                    IN ms * 1000 <= d /\ (d < (ms + 1) * 1000 \/ ms = MaxU32)
               ELSE r[t] = None
  <2>1. phase = "connected" /\ r = Request /\ HistoryOK /\ CfgTyped(cfg) /\ CfgAsked(cfg)
    BY ReqOr, ReqIs
  <2>2. cluster \in BOOLEAN
    BY <2>1 DEF HistoryOK
  <2>3. ASSUME NEW t \in {"request_timeout", "connection_timeout"}
        PROVE  timeoutOk(t)
    <3>1. CASE Asked(t) = None /\ r[t] = None
      BY <3>1, NoneIs
    <3>2. ASSUME NEW d \in Nat, Asked(t) = Some(d), r[t] = Some(duration_as_millis_u32(d))
          PROVE  timeoutOk(t)
      <4>1. IsSome(Asked(t)) /\ Asked(t)[1] = d /\ r[t][1] = duration_as_millis_u32(d)
        BY <3>2, SomeIs
      <4> QED
        BY <4>1, MillisIs
    <3> HIDE DEF timeoutOk
    <3> QED
      BY <3>1, <3>2, TimeoutIs
  <2>4. /\ r.tls_mode = Some(AskedOr("tls", UrlTls(urls[1]), "NoTls"))
        /\ r.protocol = Some(AskedOr("protocol", urls[1].redis.protocol, "RESP3"))
    <3>1. TlsMode[cfg.tls] = cfg.tls /\ CoreProtocol[cfg.protocol] = cfg.protocol
      BY <2>1 DEF CfgTyped, TlsMode, CoreProtocol
    <3> QED
      BY <2>1, <2>2, <3>1, RequestIs DEF CfgAsked
  <2>5. /\ Collects(r.root_certs, "tls_ca_cert")
        /\ IsSome(Asked("client_name")) => r.client_name = Asked("client_name")
        /\ r.inflight_requests_limit = Asked("inflight_requests_limit")
        /\ r.lazy_connect = AskedOr("lazy_connect", FALSE, FALSE)
    BY <2>1, <2>2, RequestIs DEF CfgAsked, OnlyAsked
  <2>6. ASSUME NEW name \in Setters, NEW i \in DOMAIN Asked(name)
        PROVE  i = 1 /\ IsSome(Asked(name)) /\ Asked(name) = Some(Asked(name)[1])
    <3>1. IsSome(Asked(name))
      BY <2>6, NoneIs DEF IsSome
    <3>2. PICK v : Asked(name) = Some(v)
      BY <2>1, <3>1, AskedValue
    <3> QED
      BY <2>6, <3>1, <3>2, SomeIs
  <2>7. ASSUME NEW i \in DOMAIN Asked("client_identity")
        PROVE  LET id == Asked("client_identity")[i]
               IN <<id.cert_pem, id.key_pem>> = <<r.client_cert[1], r.client_key[1]>>
    <3>1. i = 1 /\ Asked("client_identity") = Some(Asked("client_identity")[1])
      BY <2>6, <2>7 DEF Setters, OptionSetters
    <3>2. PICK id : id = Asked("client_identity")[1]
      OBVIOUS
    <3>3. /\ r.client_cert = Map(LAMBDA x : x.cert_pem, Some(id))
          /\ r.client_key = Map(LAMBDA x : x.key_pem, Some(id))
      BY <2>1, <2>2, <3>1, <3>2, RequestIs DEF CfgAsked, OnlyAsked
    <3>4. r.client_cert[1] = id.cert_pem /\ r.client_key[1] = id.key_pem
      BY <3>3 DEF Map, Some
    <3> QED
      BY <3>1, <3>2, <3>4
  <2>8. ASSUME NEW i \in DOMAIN Asked("reconnect_strategy")
        PROVE  LET b == Asked("reconnect_strategy")[i]  s == r.connection_retry_strategy[1]
               IN /\ <<b.factor, b.exponent_base>> = <<s.factor, s.exponent_base>>
                  /\ b.num_of_retries = s.number_of_retries
                  /\ b.jitter_percent = s.jitter_percent
    <3>1. i = 1 /\ Asked("reconnect_strategy") = Some(Asked("reconnect_strategy")[1])
      BY <2>6, <2>8 DEF Setters, OptionSetters
    <3>2. PICK b : b = Asked("reconnect_strategy")[1]
      OBVIOUS
    <3>3. r.connection_retry_strategy = Map(ConnectionRetryStrategy, Some(b))
      BY <2>1, <2>2, <3>1, <3>2, RequestIs DEF CfgAsked, OnlyAsked
    <3>4. r.connection_retry_strategy[1] = ConnectionRetryStrategy(b)
      BY <3>3 DEF Map, Some
    <3> QED
      BY <3>1, <3>2, <3>4 DEF ConnectionRetryStrategy
  <2>9. ASSUME NEW i \in DOMAIN Asked("credentials")
        PROVE  LET c == Asked("credentials")[i]  a == r.authentication_info[1]
               IN /\ <<a.username, a.password>> = <<c.username, c.password>>
                  /\ IsSome(a.iam_config) <=> IsSome(c.iam_config)
                  /\ \A n \in DOMAIN c.iam_config :
                       \A f \in {"cluster_name", "region", "service_type",
                                 "refresh_interval_seconds"} :
                         a.iam_config[n][f] = c.iam_config[n][f]
    <3>1. i = 1 /\ Asked("credentials") = Some(Asked("credentials")[1]) /\ IsSome(Asked("credentials"))
      BY <2>6, <2>9 DEF Setters, OptionSetters
    <3>2. PICK c : c = Asked("credentials")[1]
      OBVIOUS
    <3>3. r.authentication_info = Map(AuthenticationInfo, Some(c))
      BY <2>1, <2>2, <3>1, <3>2, RequestIs DEF CfgAsked
    <3>4. r.authentication_info[1] = AuthenticationInfo(c)
      BY <3>3 DEF Map, Some
    <3>5. IsOption(c.iam_config)
      <4>1. PICK v \in Setting["credentials"] : Asked("credentials") = Some(v) /\ "credentials" \in DOMAIN Setting
        BY <2>1, <3>1, AskedValue DEF Setters, OptionSetters
      <4> QED
        BY <3>2, <4>1, SomeIs, SettingAssumption
    <3>6. PICK a : a = AuthenticationInfo(c)
      OBVIOUS
    <3>7. a.username = c.username /\ a.password = c.password
      BY <3>6 DEF AuthenticationInfo
    <3> DEFINE I(x) == IamAuthConfig(x.cluster_name, x.region, x.service_type,
                                     x.refresh_interval_seconds)
    <3>8. \A n \in DOMAIN c.iam_config :
            \A f \in {"cluster_name", "region", "service_type", "refresh_interval_seconds"} :
              a.iam_config[n][f] = c.iam_config[n][f]
      <4>1. \A n \in DOMAIN c.iam_config : a.iam_config[n] = I(c.iam_config[n])
        BY <3>6 DEF AuthenticationInfo, Map
      <4>2. \A x : \A f \in {"cluster_name", "region", "service_type", "refresh_interval_seconds"} :
              I(x)[f] = x[f]
        BY DEF IamAuthConfig
      <4> HIDE DEF I
      <4> QED
        BY <4>1, <4>2
    <3>9. IsSome(a.iam_config) <=> IsSome(c.iam_config)
      <4>1. a.iam_config = [n \in DOMAIN c.iam_config |-> I(c.iam_config[n])]
        BY <3>6 DEF AuthenticationInfo, Map
      <4>2. CASE c.iam_config = None
        BY <4>1, <4>2 DEF IsSome, None
      <4>3. CASE c.iam_config = Some(c.iam_config[1])
        <5>1. DOMAIN a.iam_config = {1} /\ DOMAIN None = {}
          BY <4>1, <4>3, SomeIs, NoneIs
        <5>2. a.iam_config # None
          BY <5>1
        <5> QED
          BY <4>3, <5>2, SomeIs DEF IsSome
      <4> QED
        BY <3>5, <4>2, <4>3 DEF IsOption, IsSome
    <3> QED
      BY <3>1, <3>2, <3>4, <3>6, <3>7, <3>8, <3>9
  <2>10. LET from == AskedOr("read_from", Primary, Primary)
         IN /\ r.read_from[1].tag = from.tag
            /\ from.tag \in {"AZAffinity", "AZAffinityReplicasAndPrimary"} =>
                 r.read_from[1].az = from.az
    <3>1. r.read_from[1] = CoreReadFrom(AskedOr("read_from", Primary, Primary))
      BY <2>1, <2>2, RequestIs, SomeIs DEF CfgAsked
    <3> QED
      BY <3>1 DEF CoreReadFrom
  <2>11. LET checks == AskedOr("periodic_checks", Enabled, Enabled)
         IN /\ ~cluster => r.periodic_checks = None
            /\ cluster => /\ r.periodic_checks[1].tag = checks.tag
                          /\ checks.tag = "ManualInterval" =>
                               r.periodic_checks[1].interval = checks.secs * 1000 * 1000
    <3>1. CASE ~cluster
      BY <2>1, <2>2, <3>1, RequestIs
    <3>2. CASE cluster
      <4>1. r.periodic_checks[1] = PeriodicCheck(AskedOr("periodic_checks", Enabled, Enabled))
        BY <2>1, <2>2, <3>2, RequestIs, SomeIs DEF CfgAsked
      <4> QED
        BY <3>2, <4>1 DEF PeriodicCheck
    <3> QED
      BY <3>1, <3>2
  <2> QED
    BY <2>3, <2>4, <2>5, <2>7, <2>8, <2>9, <2>10, <2>11 DEF RequestAsAsked, Primary, Enabled
<1> QED
  BY <1>1, Inductive, PTL

(***************************************************************************)
(* Every session, the first one and each that replaces a lost one, starts  *)
(* in the configured database with the configured subscriptions, and a     *)
(* client with subscriptions has a push channel.                           *)
(***************************************************************************)
THEOREM SessionsAreAsConfigured == Spec => []SessionAsConfigured
<1>1. IInv => SessionAsConfigured
  <2> SUFFICES ASSUME IInv, phase = "connected" PROVE SessionAsConfigured
    BY DEF SessionAsConfigured
  <2>1. /\ HistoryOK /\ CfgAsked(cfg) /\ cluster \in BOOLEAN
        /\ session.up /\ ~session.touched =>
             session.db = Request.database_id /\ session.subs = Subscribed(Request)
    BY ReqIs DEF HistoryOK
  <2>2. /\ client.db = IF cluster THEN 0 ELSE cfg.database_id
        /\ client.channel = HasPushChannel(cfg)
    BY DEF IInv, SessionOK
  <2>3. /\ Subscribed(Request) = Wanted /\ (Wanted # {} => HasPushChannel(cfg))
        /\ Request.database_id = client.db
        /\ client.db = IF cluster THEN 0 ELSE AskedOr("database_id", urls[1].redis.db, 0)
    BY <2>1, <2>2, SubscribedIs, RequestIs DEF CfgAsked
  <2> QED
    BY <2>1, <2>2, <2>3 DEF SessionAsConfigured, Wanted
<1> QED
  BY <1>1, Inductive, PTL

(***************************************************************************)
(* A password given to update_connection_password through any clone is the *)
(* one the next session uses: no stale password is used after a reconnect. *)
(***************************************************************************)
THEOREM PasswordsAreShared == Spec => []PasswordIsShared
<1>1. IInv => PasswordIsShared
  BY DEF IInv, SessionOK, PasswordIsShared
<1> QED
  BY <1>1, Inductive, PTL
=============================================================================
