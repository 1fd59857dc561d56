---------------------------- MODULE AccessProofs ----------------------------
(***************************************************************************)
(* Theorems about Access: type correctness, the order of precedence of     *)
(* flags and files, and that requests are let pass for whom the running    *)
(* configuration entitles, for all of them and for no others.              *)
(***************************************************************************)
EXTENDS Access, TLAPS

-----------------------------------------------------------------------------
(* The configuration.                                                      *)

\* What the files say of a field.
Filed(s, f) == IF s.files = None THEN None ELSE FileSetting(s.files, f)

LEMMA SaysIs ==
    ASSUME NEW s, NEW f
    PROVE  /\ Says(s, f, <<"file", "flag">>) = IF Filed(s, f) # None THEN Filed(s, f) ELSE s.flags[f]
           /\ Says(s, f, <<"flag", "file">>) = IF s.flags[f] # None THEN s.flags[f] ELSE Filed(s, f)
BY DEF Says, Filed

\* The fields of which a file has the last word.
LastInFiles == {"dataDir", "tokenSecret", "tokenTimeout"}

Fields == {"rbac", "dataDir", "proxies", "adminName", "adminPwd", "tokenSecret", "tokenTimeout",
           "addr", "ui", "certfile", "keyfile"}

\* BuildOptions: a file has the last word of the one half, the flag of the
\* other.
LEMMA OptionIs ==
    ASSUME NEW s, DOMAIN s.flags = DOMAIN FlagDefaults
    PROVE  /\ \A f \in LastInFiles :
                 BuildOptions(s.flags, s.files)[f] = Says(s, f, <<"file", "flag">>)
           /\ \A f \in WebFields :
                 BuildOptions(s.flags, s.files)[f] = Says(s, f, <<"flag", "file">>)
<1> DEFINE flags == s.flags
           early == WithAll(NoOptions, DOMAIN flags \ WebFields, flags)
           ms == s.files
           cfg == [early EXCEPT !.rbac = EngineFrom(ms),
                                !.proxies = IF Setting(ms, "dataDir") = None THEN @ ELSE ProxiesFrom(ms)]
           read == IF ms = None THEN early ELSE WithCfgDirs(early, ms)
<1>1. DOMAIN NoOptions = Fields /\ \A f \in Fields \ {"proxies"} : NoOptions[f] = None
  BY DEF NoOptions, Fields
<1>2. /\ DOMAIN flags = {"dataDir", "adminName", "adminPwd", "tokenSecret", "tokenTimeout",
                         "addr", "ui", "certfile", "keyfile"}
      /\ LastInFiles \subseteq DOMAIN flags \ WebFields /\ WebFields \subseteq DOMAIN flags
      /\ CfgFields \subseteq Fields \ {"rbac", "proxies"}
      /\ CfgFields = LastInFiles \union WebFields
      /\ LastInFiles \intersect WebFields = {}
  BY DEF FlagDefaults, WebFields, CfgFields, LastInFiles, Fields
<1>3. /\ DOMAIN early = Fields
      /\ \A f \in LastInFiles : early[f] = flags[f]
      /\ \A f \in WebFields : early[f] = None
  BY <1>1, <1>2 DEF WithAll
<1>4. DOMAIN cfg = Fields /\ \A f \in CfgFields : cfg[f] = early[f]
  BY <1>2, <1>3
<1> HIDE DEF early, cfg
<1>5. /\ DOMAIN read = Fields
      /\ \A f \in CfgFields : read[f] = IF Filed(s, f) # None THEN Filed(s, f) ELSE early[f]
  <2>1. CASE ms = None
    BY <1>3, <2>1 DEF Filed
  <2>2. CASE ms # None
    <3>1. read = WithAll(cfg, CfgFields, [f \in CfgFields |-> FileSetting(ms, f)])
      BY <2>2 DEF WithCfgDirs, cfg
    <3> QED
      BY <1>2, <1>4, <2>2, <3>1 DEF WithAll, Filed
  <2> QED
    BY <2>1, <2>2
<1>6. BuildOptions(s.flags, s.files) = WithAll(read, WebFields, flags)
  BY DEF BuildOptions, early
<1> HIDE DEF read
<1>7. /\ \A f \in LastInFiles : BuildOptions(s.flags, s.files)[f] = read[f]
      /\ \A f \in WebFields :
          BuildOptions(s.flags, s.files)[f] = IF flags[f] # None THEN flags[f] ELSE read[f]
  BY <1>2, <1>5, <1>6 DEF WithAll
<1> QED
  BY <1>2, <1>3, <1>5, <1>7, SaysIs

\* What New makes of a setup, with the secret it generates.
LEMMA NewIs ==
    ASSUME NEW s \in Setups, NEW secret
    PROVE  /\ New(s, secret).tokenSecret = IF SecretOf(s) = None THEN secret ELSE SecretOf(s)
           /\ New(s, secret).tokenTimeout =
                 IF Says(s, "tokenTimeout", <<"file", "flag">>) = None THEN 30
                 ELSE Says(s, "tokenTimeout", <<"file", "flag">>)
           /\ New(s, secret).tokenTimeout \in Int
           /\ New(s, secret).dataDir = Says(s, "dataDir", <<"file", "flag">>)
           /\ New(s, secret).addr = IF Says(s, "addr", <<"flag", "file">>) = None THEN "0.0.0.0:5000"
                                    ELSE Says(s, "addr", <<"flag", "file">>)
           /\ New(s, secret).tls = \A f \in {"certfile", "keyfile"} :
                                       Says(s, f, <<"flag", "file">>) # None
           /\ Starts(s) => New(s, secret).dataDir # None
<1> DEFINE o == BuildOptions(s.flags, s.files)
<1>1. /\ o.tokenSecret = SecretOf(s)
      /\ o.tokenTimeout = Says(s, "tokenTimeout", <<"file", "flag">>)
      /\ o.dataDir = Says(s, "dataDir", <<"file", "flag">>)
      /\ \A f \in {"addr", "certfile", "keyfile"} : o[f] = Says(s, f, <<"flag", "file">>)
  BY OptionIs, AccessSetups DEF LastInFiles, WebFields, SecretOf
<1>2. Says(s, "tokenTimeout", <<"file", "flag">>) \in Int \union {None}
  BY AccessSetups
<1>3. Starts(s) => o.dataDir # None
  BY DEF Starts
<1>4. /\ New(s, secret).tokenSecret = IF o["tokenSecret"] = None THEN secret ELSE o["tokenSecret"]
      /\ New(s, secret).tokenTimeout = IF o["tokenTimeout"] = None THEN 30 ELSE o["tokenTimeout"]
      /\ New(s, secret).dataDir = o.dataDir
      /\ New(s, secret).addr = IF o["addr"] = None THEN "0.0.0.0:5000" ELSE o["addr"]
      /\ New(s, secret).tls = (o.certfile # None /\ o.keyfile # None)
  BY DEF New
<1> HIDE DEF o
<1>5. o["certfile"] = Says(s, "certfile", <<"flag", "file">>)
      /\ o["keyfile"] = Says(s, "keyfile", <<"flag", "file">>)
      /\ o["addr"] = Says(s, "addr", <<"flag", "file">>)
  BY <1>1
<1>6. New(s, secret).tls = \A f \in {"certfile", "keyfile"} : Says(s, f, <<"flag", "file">>) # None
  <2>1. (\A f \in {"certfile", "keyfile"} : Says(s, f, <<"flag", "file">>) # None) <=>
        Says(s, "certfile", <<"flag", "file">>) # None /\ Says(s, "keyfile", <<"flag", "file">>) # None
    OBVIOUS
  <2> QED
    BY <1>4, <1>5, <2>1
<1>7. New(s, secret).tokenTimeout = IF Says(s, "tokenTimeout", <<"file", "flag">>) = None THEN 30
                                    ELSE Says(s, "tokenTimeout", <<"file", "flag">>)
  BY <1>1, <1>4
<1>8. New(s, secret).tokenTimeout \in Int
  BY <1>2, <1>7
<1>9. New(s, secret).addr = IF Says(s, "addr", <<"flag", "file">>) = None THEN "0.0.0.0:5000"
                            ELSE Says(s, "addr", <<"flag", "file">>)
  BY <1>4, <1>5
<1>10. New(s, secret).tokenSecret = IF SecretOf(s) = None THEN secret ELSE SecretOf(s)
  BY <1>1, <1>4
<1> QED
  BY <1>1, <1>3, <1>4, <1>6, <1>7, <1>8, <1>9, <1>10

-----------------------------------------------------------------------------
(* Who a request is from.                                                  *)

\* The user whose password or token came with the request.
Whose(auth, name) ==
    \/ auth.kind = "basic" /\ name = auth.user /\ HasUser(server.rbac, name, auth.pwd)
    \/ auth.kind = "bearer" /\ name = auth.token.sub /\ Ours(auth.token)
    \/ auth.kind \in {"none", "malformed"} /\ name = Anonymous

Names == Users \union {Anonymous}

\* The request may do it, as far as its token has not expired.
MayDo(auth, resource, scope, verb) ==
    \E name \in Names : Whose(auth, name) /\ Granted(name, resource, scope, verb)

Live(auth) == auth.kind = "bearer" => Alive(auth.token)
Sure(auth) == auth.kind = "bearer" => SurelyAlive(auth.token)

LEMMA EntitledIs ==
    ASSUME NEW auth, NEW resource, NEW scope, NEW verb
    PROVE  /\ Entitled(auth, resource, scope, verb, Alive) <=>
                 MayDo(auth, resource, scope, verb) /\ Live(auth)
           /\ Entitled(auth, resource, scope, verb, SurelyAlive) <=>
                 MayDo(auth, resource, scope, verb) /\ Sure(auth)
           /\ Entitled(auth, resource, scope, verb, LAMBDA x : TRUE) <=>
                 MayDo(auth, resource, scope, verb)
BY DEF Entitled, From, MayDo, Whose, Live, Sure, Names

\* The engine grants what the bindings that apply grant.
LEMMA GrantedIs ==
    ASSUME NEW name, NEW resource, resource # "", NEW scope, NEW verb
    PROVE  IsAllowed(server.rbac, name, resource, scope, verb) <=>
           Granted(name, resource, scope, verb)
BY DEF IsAllowed, Granted, Applicable

-----------------------------------------------------------------------------
(* The invariant.                                                          *)

ServerInv ==
    /\ setup \in Setups /\ starts \in 0 .. MaxStarts
    /\ second \in 0 .. MaxSecond /\ tick \in 0 .. Ticks - 1
    /\ Running => /\ Starts(setup) /\ server = New(setup, Generated(starts))
                  /\ starts \in 1 .. MaxStarts

\* A token says when it was given, and is signed with the secret of the
\* server that gave it.
Given(t) ==
    /\ t \in Tokens /\ t.iat = t.second /\ t.start <= starts
    /\ t.secret = New(t.setup, Generated(t.start)).tokenSecret
    /\ t.start = starts /\ Running => t.setup = setup

TokenInv == \A t \in tokens : Given(t)

\* A request that is served for a while was let pass for what it is about to
\* answer, and only its token may have expired since.
InFlight(r) ==
    /\ r.st = "mount" =>
          /\ Running /\ r.h = "BlobsUploadsPost" /\ r.from # None
          /\ MayDo(r.auth, "blobs", r.scope, "POST")
    /\ r.st = "filter" =>
          /\ Running /\ r.h = "TagsList"
          /\ \A t \in r.list : MayDo(r.auth, "tags", <<r.scope, t>>, "GET")
          /\ \A t \in Tags \ (r.list \union r.todo) :
                ~(MayDo(r.auth, "tags", <<r.scope, t>>, "GET") /\ Sure(r.auth))

RequestInv ==
    /\ req \in [Procs -> Requests]
    /\ \A p \in Procs :
          /\ req[p].auth.kind = "bearer" => req[p].auth.token \in tokens
          /\ InFlight(req[p])

AccessInv == ServerInv /\ TokenInv /\ RequestInv

-----------------------------------------------------------------------------
(* Decisions.                                                              *)

\* A token counts if its signature is that of the running server, that is if
\* it is from this start or from one with the same secret.
LEMMA SignatureIs ==
    ASSUME ServerInv, Running, NEW t, Given(t)
    PROVE  t.secret = server.tokenSecret <=> Ours(t)
<1>1. /\ t.setup \in Setups /\ t.start \in 1 .. MaxStarts
      /\ t.secret = New(t.setup, Generated(t.start)).tokenSecret
  BY DEF Given, Tokens
<1>2. /\ setup \in Setups /\ starts \in 1 .. MaxStarts
      /\ server = New(setup, Generated(starts))
  BY DEF ServerInv
<1>3. /\ t.secret = IF SecretOf(t.setup) = None THEN Generated(t.start) ELSE SecretOf(t.setup)
      /\ server.tokenSecret = IF SecretOf(setup) = None THEN Generated(starts) ELSE SecretOf(setup)
  <2>1. ASSUME NEW s \in Setups, NEW secret
        PROVE  New(s, secret).tokenSecret = IF SecretOf(s) = None THEN secret ELSE SecretOf(s)
    BY NewIs
  <2>2. New(t.setup, Generated(t.start)).tokenSecret =
           IF SecretOf(t.setup) = None THEN Generated(t.start) ELSE SecretOf(t.setup)
    BY ONLY <1>1, <2>1
  <2>3. New(setup, Generated(starts)).tokenSecret =
           IF SecretOf(setup) = None THEN Generated(starts) ELSE SecretOf(setup)
    BY ONLY <1>2, <2>1
  <2> QED
    BY <1>1, <1>2, <2>2, <2>3
<1>4. /\ Generated(t.start) # SecretOf(setup) /\ Generated(starts) # SecretOf(t.setup)
      /\ Generated(t.start) = Generated(starts) => t.start = starts
  BY <1>1, <1>2, AccessSetups DEF Generated
<1>5. t.start = starts => t.setup = setup
  BY DEF Given
<1> QED
  BY <1>3, <1>4, <1>5 DEF Ours

\* Its age: iat is the second it was given in, so it expires in the tick of
\* that second's beginning, and not later than a timeout after it was given.
LEMMA AgeIs ==
    ASSUME ServerInv, Running, NEW t, Given(t)
    PROVE  (~Expired(t) => Alive(t)) /\ (SurelyAlive(t) => ~Expired(t))
<1>1. t.second \in Nat /\ t.tick \in 0 .. Ticks - 1 /\ t.iat = t.second
  BY DEF Given, Tokens
<1>2. server.tokenTimeout \in Int /\ second \in Nat /\ tick \in Nat /\ Ticks \in Nat
  <2>1. setup \in Setups /\ server = New(setup, Generated(starts))
    BY DEF ServerInv
  <2>2. ASSUME NEW s \in Setups, NEW secret PROVE New(s, secret).tokenTimeout \in Int
    BY NewIs
  <2>3. New(setup, Generated(starts)).tokenTimeout \in Int
    BY ONLY <2>1, <2>2
  <2> QED
    BY <2>1, <2>3, AccessConstants DEF ServerInv
<1> QED
  BY <1>1, <1>2 DEF Expired, Alive, SurelyAlive

\* Who is let pass is entitled, and who surely is entitled is let pass.
LEMMA DecisionIs ==
    ASSUME ServerInv, Running, NEW auth, auth.kind = "bearer" => Given(auth.token),
           auth.kind = "basic" => auth.user \in Users,
           NEW resource, resource # "", NEW scope, NEW verb
    PROVE  /\ IsRequestAllowed(auth, resource, scope, verb) =>
                 MayDo(auth, resource, scope, verb) /\ Live(auth)
           /\ MayDo(auth, resource, scope, verb) /\ Sure(auth) =>
                 IsRequestAllowed(auth, resource, scope, verb)
<1>1. ASSUME NEW name
      PROVE  IsAllowed(server.rbac, name, resource, scope, verb) <=> Granted(name, resource, scope, verb)
  BY GrantedIs
<1>2. CASE auth.kind = "basic"
  BY <1>1, <1>2 DEF IsRequestAllowed, MayDo, Whose, Live, Sure, Names
<1>3. CASE auth.kind = "bearer"
  <2>1. auth.token.sub \in Users
    BY <1>3 DEF Given, Tokens
  <2>2. /\ auth.token.secret = server.tokenSecret <=> Ours(auth.token)
        /\ ~Expired(auth.token) => Alive(auth.token)
        /\ SurelyAlive(auth.token) => ~Expired(auth.token)
    BY <1>3, SignatureIs, AgeIs
  <2> QED
    BY <1>1, <1>3, <2>1, <2>2
    DEF IsRequestAllowed, GetClaimFromToken, MayDo, Whose, Live, Sure, Names
<1>4. CASE auth.kind \in {"none", "malformed"}
  <2>1. ASSUME Granted(Anonymous, resource, scope, verb)
        PROVE  IsAnonymousUserEnabled(server.rbac)
    BY <2>1 DEF Granted, IsAnonymousUserEnabled
  <2> QED
    BY <1>1, <1>4, <2>1 DEF IsRequestAllowed, MayDo, Whose, Live, Sure, Names
<1>5. CASE auth.kind \notin {"basic", "bearer", "none", "malformed"}
  BY <1>5 DEF IsRequestAllowed, MayDo, Whose
<1> QED
  BY <1>2, <1>3, <1>4, <1>5

LEMMA RightsAre ==
    /\ \A h \in Handlers : Right[h][1] # "" /\ h \notin {"Index", "Token"}
    /\ {"TagsList", "BlobsUploadsPost"} \subseteq Handlers
    /\ Right["TagsList"][1] = "tags" /\ Right["TagsList"][2] = "GET"
    /\ Right["BlobsUploadsPost"][1] = "blobs" /\ Right["BlobsUploadsPost"][2] = "POST"
<1>1. Handlers = {"CatalogList", "ReferrersGet", "TagsList", "BlobsGet", "BlobsDelete",
                  "BlobsUploadsPost", "BlobsUploadsGet", "BlobsUploadsPatch", "BlobsUploadsPut",
                  "BlobsUploadsDelete", "ManifestsGet", "ManifestsPut", "ManifestsDelete"}
  BY DEF Handlers, Right
<1>2. ASSUME NEW h \in Handlers
      PROVE  \E a \in {"catalog", "manifests", "tags", "blobs"},
                v \in {"GET", "POST", "PUT", "PATCH", "DELETE"} : Right[h] = <<a, v>>
  BY <1>1 DEF Right
<1>3. ASSUME NEW h \in Handlers PROVE Right[h][1] # ""
  <2>1. PICK a \in {"catalog", "manifests", "tags", "blobs"},
             v \in {"GET", "POST", "PUT", "PATCH", "DELETE"} : Right[h] = <<a, v>>
    BY <1>2
  <2>2. Right[h][1] = a
    BY <2>1
  <2> QED
    BY <2>2
<1>4. Right["TagsList"] = <<"tags", "GET">> /\ Right["BlobsUploadsPost"] = <<"blobs", "POST">>
  BY DEF Right
<1>5. /\ Right["TagsList"][1] = "tags" /\ Right["TagsList"][2] = "GET"
      /\ Right["BlobsUploadsPost"][1] = "blobs" /\ Right["BlobsUploadsPost"][2] = "POST"
  BY <1>4
<1> QED
  BY <1>1, <1>3, <1>5

-----------------------------------------------------------------------------
(* The steps.                                                              *)

\* What a request may do depends on the running server only.
LEMMA MayDoKept ==
    ASSUME UNCHANGED <<server, setup, starts>>, NEW auth, NEW resource, NEW scope, NEW verb
    PROVE  MayDo(auth, resource, scope, verb)' <=> MayDo(auth, resource, scope, verb)
BY DEF MayDo, Whose, Ours, Granted, Applicable

LEMMA SureKept ==
    ASSUME UNCHANGED <<server, second, tick>>, NEW auth
    PROVE  Sure(auth)' <=> Sure(auth)
BY DEF Sure, SurelyAlive

\* A step of a request only: the server, the time and the tokens stay.
LEMMA OneRequestStep ==
    ASSUME AccessInv, NEW p \in Procs, NEW r \in Requests, req' = [req EXCEPT ![p] = r],
           r.auth.kind = "bearer" => r.auth.token \in tokens, InFlight(r),
           UNCHANGED <<setup, server, starts, second, tick, tokens>>
    PROVE  AccessInv'
<1>1. ServerInv' /\ TokenInv'
  BY DEF AccessInv, ServerInv, TokenInv, Given, Running
<1>2. \A q \in Procs : /\ req'[q].auth.kind = "bearer" => req'[q].auth.token \in tokens
                       /\ InFlight(req'[q])
  BY DEF AccessInv, RequestInv
<1>3. ASSUME NEW x, InFlight(x) PROVE InFlight(x)'
  BY <1>3, MayDoKept, SureKept DEF InFlight, Running
<1>4. \A q \in Procs : InFlight(req[q])'
  BY <1>2, <1>3
<1>5. req' \in [Procs -> Requests]
  BY DEF AccessInv, RequestInv
<1> QED
  BY <1>1, <1>2, <1>4, <1>5 DEF AccessInv, RequestInv

\* What an Authorization header holds.
LEMMA AuthsAre ==
    ASSUME AccessInv, NEW auth \in Auths
    PROVE  /\ auth \in Headers
           /\ auth.kind = "bearer" => auth.token \in tokens /\ Given(auth.token)
           /\ auth.kind = "basic" => auth.user \in Users
<1>1. \A t \in tokens : t \in Tokens /\ Given(t)
  BY DEF AccessInv, TokenInv, Given
<1>2. CASE auth \in {[kind |-> "none"], [kind |-> "malformed"]}
  BY <1>2 DEF Headers
<1>3. CASE auth \in [kind : {"basic"}, user : Users, pwd : Passwords]
  BY <1>3 DEF Headers
<1>4. CASE auth \in [kind : {"bearer"}, token : tokens]
  <2>1. auth.kind = "bearer" /\ auth.token \in tokens
    BY <1>4
  <2>2. auth \in [kind : {"bearer"}, token : Tokens]
    BY <1>1, <1>4
  <2> QED
    BY <1>1, <2>1, <2>2 DEF Headers
<1> QED
  BY <1>2, <1>3, <1>4 DEF Auths

\* The same of a request that is served.
LEMMA ServedAuth ==
    ASSUME AccessInv, NEW p \in Procs
    PROVE  /\ req[p] \in Requests /\ InFlight(req[p])
           /\ req[p].auth.kind = "bearer" => req[p].auth.token \in tokens /\ Given(req[p].auth.token)
           /\ req[p].auth.kind = "basic" => req[p].auth.user \in Users
<1>1. /\ req[p] \in Requests /\ InFlight(req[p])
      /\ req[p].auth.kind = "bearer" => req[p].auth.token \in tokens
  BY DEF AccessInv, RequestInv
<1>2. req[p].auth \in Headers
  BY <1>1 DEF Requests
<1> HIDE DEF Tokens
<1>3. req[p].auth.kind = "basic" => req[p].auth.user \in Users
  BY <1>2 DEF Headers
<1> QED
  BY <1>1, <1>3 DEF AccessInv, TokenInv

LEMMA IdleIs ==
    /\ Idle \in Requests /\ Idle.st = "idle" /\ Idle.auth.kind = "none"
    /\ Idle.from = None /\ Idle.todo = {} /\ Idle.list = {} /\ InFlight(Idle)
<1>1. [kind |-> "none"] \in Headers
  BY DEF Headers
<1> QED
  BY <1>1 DEF Idle, Requests, InFlight, Scopes

LEMMA ScopesAre ==
    ASSUME NEW h, NEW scope \in ScopesOf(h)
    PROVE  scope \in Scopes
BY DEF ScopesOf, Scopes

LEMMA InitHolds == Init => AccessInv
<1> SUFFICES ASSUME Init PROVE AccessInv
  OBVIOUS
<1>1. ServerInv
  BY AccessConstants DEF Init, ServerInv, Running
<1>2. TokenInv
  BY DEF Init, TokenInv
<1>3. RequestInv
  BY IdleIs DEF Init, RequestInv
<1> QED
  BY <1>1, <1>2, <1>3 DEF AccessInv

LEMMA StartStep ==
    ASSUME AccessInv, NEW s \in Setups, Start(s)
    PROVE  AccessInv'
<1>1. /\ ~Running /\ starts \in 0 .. MaxStarts /\ starts < MaxStarts /\ starts' = starts + 1
      /\ setup' = s /\ server' = (IF Starts(s) THEN New(s, Generated(starts')) ELSE Off)
      /\ UNCHANGED <<second, tick, tokens, req>>
  BY DEF Start, AccessInv, ServerInv
<1>2. starts' \in 1 .. MaxStarts /\ starts' \in 0 .. MaxStarts
  BY <1>1, AccessConstants
<1>3. ServerInv'
  BY <1>1, <1>2 DEF AccessInv, ServerInv, Running
<1>4. ASSUME NEW t \in tokens PROVE Given(t)'
  <2>1. Given(t) /\ t.start \in 1 .. MaxStarts /\ t.start <= starts
    BY DEF AccessInv, TokenInv, Given, Tokens
  <2>2. t.start <= starts' /\ t.start # starts'
    BY <1>1, <2>1
  <2> QED
    BY <2>1, <2>2 DEF Given
<1>5. RequestInv'
  <2>1. \A p \in Procs : req[p].st \notin {"mount", "filter"}
    BY <1>1 DEF AccessInv, RequestInv, InFlight
  <2> QED
    BY <1>1, <2>1 DEF AccessInv, RequestInv, InFlight
<1> QED
  BY <1>1, <1>3, <1>4, <1>5 DEF AccessInv, TokenInv

LEMMA StopStep ==
    ASSUME AccessInv, Stop
    PROVE  AccessInv'
<1>1. ServerInv' /\ TokenInv'
  BY DEF Stop, AccessInv, ServerInv, TokenInv, Given, Running
<1>2. RequestInv'
  BY IdleIs DEF Stop, RequestInv, InFlight
<1> QED
  BY <1>1, <1>2 DEF AccessInv

\* Time makes a token die, and never revives it.
LEMMA TickStep ==
    ASSUME AccessInv, Tick
    PROVE  AccessInv'
<1>1. /\ second \in 0 .. MaxSecond /\ tick \in 0 .. Ticks - 1 /\ second < MaxSecond
      /\ \/ tick + 1 < Ticks /\ tick' = tick + 1 /\ second' = second
         \/ tick' = 0 /\ second' = second + 1
      /\ UNCHANGED <<setup, server, starts, tokens, req>>
  BY DEF Tick, AccessInv, ServerInv
<1>2. ServerInv'
  BY <1>1, AccessConstants DEF AccessInv, ServerInv, Running
<1>3. TokenInv'
  BY <1>1 DEF AccessInv, TokenInv, Given, Running
<1>4. ASSUME NEW t \in tokens, Running, SurelyAlive(t)' PROVE SurelyAlive(t)
  <2>1. t.second \in Nat
    BY DEF AccessInv, TokenInv, Given, Tokens
  <2>2. server.tokenTimeout \in Int
    <3>1. setup \in Setups /\ server = New(setup, Generated(starts))
      BY <1>4 DEF AccessInv, ServerInv
    <3>2. ASSUME NEW s \in Setups, NEW secret PROVE New(s, secret).tokenTimeout \in Int
      BY NewIs
    <3>3. New(setup, Generated(starts)).tokenTimeout \in Int
      BY ONLY <3>1, <3>2
    <3> QED
      BY <3>1, <3>3
  <2> QED
    BY <1>1, <1>4, <2>1, <2>2, AccessConstants DEF SurelyAlive
<1>5. ASSUME NEW p \in Procs PROVE InFlight(req[p])'
  <2>1. InFlight(req[p]) /\ (req[p].auth.kind = "bearer" => req[p].auth.token \in tokens)
    BY ServedAuth
  <2>2. Running => (Sure(req[p].auth)' => Sure(req[p].auth))
    BY <1>1, <1>4, <2>1 DEF Sure
  <2>3. \A resource, scope, verb :
           MayDo(req[p].auth, resource, scope, verb)' <=> MayDo(req[p].auth, resource, scope, verb)
    BY <1>1, MayDoKept
  <2> QED
    BY <1>1, <2>1, <2>2, <2>3 DEF InFlight, Running
<1>6. RequestInv'
  BY <1>1, <1>5 DEF AccessInv, RequestInv
<1> QED
  BY <1>2, <1>3, <1>6 DEF AccessInv

LEMMA IndexStep ==
    ASSUME AccessInv, NEW p \in Procs, NEW auth \in Auths, Index(p, auth)
    PROVE  AccessInv'
<1> DEFINE r == [Idle EXCEPT !.st = IF IsValidAuth(auth) THEN "ok" ELSE ChallengeRequest(auth),
                             !.h = "Index", !.auth = auth]
<1>1. /\ r \in Requests /\ r.st \notin {"mount", "filter"} /\ r.auth = auth
  BY IdleIs, AuthsAre DEF Requests, ChallengeRequest
<1>2. req' = [req EXCEPT ![p] = r] /\ UNCHANGED <<setup, server, starts, second, tick, tokens>>
  BY DEF Index, Begin
<1> HIDE DEF r
<1>3. InFlight(r)
  BY <1>1 DEF InFlight
<1> QED
  BY <1>1, <1>2, <1>3, AuthsAre, OneRequestStep

\* A new token is one that says who it was given to, and when.
LEMMA GetTokenStep ==
    ASSUME AccessInv, NEW p \in Procs, NEW auth \in Auths, GetToken(p, auth)
    PROVE  AccessInv'
<1>1. PICK st \in {"ok", "challenged", "denied"} :
         req' = [req EXCEPT ![p] = [Idle EXCEPT !.st = st, !.h = "Token", !.auth = auth]]
  BY DEF GetToken, Begin
<1> DEFINE r == [Idle EXCEPT !.st = st, !.h = "Token", !.auth = auth]
<1>2. r \in Requests /\ r.st \notin {"mount", "filter"} /\ r.auth = auth
  BY IdleIs, AuthsAre DEF Requests
<1>3. Running /\ UNCHANGED <<setup, server, starts, second, tick>>
  BY DEF GetToken
<1> HIDE DEF r
<1>4. InFlight(r)
  BY <1>2 DEF InFlight
<1>5. CASE UNCHANGED tokens
  BY <1>1, <1>2, <1>3, <1>4, <1>5, AuthsAre, OneRequestStep DEF r
<1>6. CASE auth.kind = "basic" /\ tokens' = tokens \union {GenerateToken(auth.user)}
  <2> DEFINE t == GenerateToken(auth.user)
  <2>1. /\ setup \in Setups /\ starts \in 1 .. MaxStarts /\ server = New(setup, Generated(starts))
        /\ second \in Nat /\ tick \in 0 .. Ticks - 1
    BY <1>3, AccessConstants DEF AccessInv, ServerInv
  <2>2. server.tokenSecret \in Secrets
    BY <2>1 DEF Secrets
  <2>3. auth.user \in Users
    BY <1>6, AuthsAre
  <2>4. t \in Tokens
    BY <2>1, <2>2, <2>3 DEF GenerateToken, Tokens
  <2>5. /\ t.iat = t.second /\ t.start = starts /\ t.setup = setup
        /\ t.secret = server.tokenSecret
    BY DEF GenerateToken
  <2> HIDE DEF t
  <2>6. Given(t)
    BY <2>1, <2>4, <2>5 DEF Given
  <2>7. ASSUME NEW x, Given(x) PROVE Given(x)'
    BY <1>3, <2>7 DEF Given, Running
  <2>8. TokenInv'
    BY <1>6, <2>6, <2>7 DEF t, AccessInv, TokenInv
  <2>9. ServerInv'
    BY <1>3 DEF AccessInv, ServerInv, Running
  <2>10. ASSUME NEW x, InFlight(x) PROVE InFlight(x)'
    BY <1>3, <2>10, MayDoKept, SureKept DEF InFlight, Running
  <2>11. RequestInv'
    <3>1. ASSUME NEW q \in Procs
          PROVE  /\ InFlight(req'[q])
                 /\ req'[q].auth.kind = "bearer" => req'[q].auth.token \in tokens'
      BY <1>1, <1>2, <1>4, <1>6, ServedAuth DEF r, AccessInv, RequestInv
    <3>2. ASSUME NEW q \in Procs PROVE InFlight(req[q])'
      BY <2>10, <3>1
    <3> QED
      BY <1>1, <1>2, <3>1, <3>2 DEF r, AccessInv, RequestInv
  <2> QED
    BY <2>8, <2>9, <2>11 DEF AccessInv
<1> QED
  BY <1>5, <1>6 DEF GetToken

\* What a handler decides first.
LEMMA DecideIs ==
    ASSUME AccessInv, NEW p \in Procs, NEW auth \in Auths, NEW h \in Handlers,
           NEW scope \in Scopes,
           NEW from \in Repos \union {NoRepo, None},
           from # None => h = "BlobsUploadsPost",
           Decide(p, h, auth, scope, from)
    PROVE  /\ req'[p] \in Requests /\ req' = [req EXCEPT ![p] = req'[p]]
           /\ req'[p].h = h /\ req'[p].auth = auth /\ req'[p].scope = scope /\ req'[p].from = from
           /\ req'[p].st \in Lets =>
                 MayDo(auth, Right[h][1], scope, Right[h][2]) /\ Live(auth)
           /\ req'[p].st \in Refuses =>
                 ~(MayDo(auth, Right[h][1], scope, Right[h][2]) /\ Sure(auth))
           /\ req'[p].st \in {"ok", "filter", "mount", "challenged", "denied"}
           /\ req'[p].st \in {"ok", "mount"} => (req'[p].st = "mount" <=> from # None)
           /\ InFlight(req'[p])
<1> DEFINE ok == IsRequestAllowed(auth, Right[h][1], scope, Right[h][2])
           st == IF ~ok THEN ChallengeRequest(auth)
                 ELSE IF h = "TagsList" THEN "filter"
                 ELSE IF from # None THEN "mount" ELSE "ok"
           r == [Idle EXCEPT !.st = st, !.h = h, !.auth = auth, !.scope = scope, !.from = from,
                             !.todo = IF h = "TagsList" /\ ok THEN Tags ELSE {}]
<1>1. Running /\ req' = [req EXCEPT ![p] = r]
  BY DEF Decide, Begin
<1>2. req \in [Procs -> Requests]
  BY DEF AccessInv, RequestInv
<1>3. req'[p] = r
  BY <1>1, <1>2
<1>4. ChallengeRequest(auth) \in {"challenged", "denied"}
  BY DEF ChallengeRequest
<1>5. /\ r.h = h /\ r.auth = auth /\ r.scope = scope /\ r.from = from /\ r.st = st
      /\ r.list = {} /\ r.todo = IF h = "TagsList" /\ ok THEN Tags ELSE {}
  BY DEF Idle
<1>6. r \in Requests
  <2>1. auth \in Headers
    BY AuthsAre
  <2>2. st \in {"ok", "filter", "mount", "challenged", "denied"}
    BY <1>4
  <2>3. Idle \in Requests
    BY IdleIs
  <2> DEFINE todo == IF h = "TagsList" /\ ok THEN Tags ELSE {}
  <2>4. todo \in SUBSET Tags
    OBVIOUS
  <2>5. r = [Idle EXCEPT !.st = st, !.h = h, !.auth = auth, !.scope = scope, !.from = from, !.todo = todo]
    OBVIOUS
  <2> HIDE DEF st, ok, todo, r
  <2> QED
    BY <2>1, <2>2, <2>3, <2>4, <2>5 DEF Requests
<1>7. /\ ok => MayDo(auth, Right[h][1], scope, Right[h][2]) /\ Live(auth)
      /\ MayDo(auth, Right[h][1], scope, Right[h][2]) /\ Sure(auth) => ok
  BY <1>1, AuthsAre, RightsAre, DecisionIs DEF AccessInv
<1> HIDE DEF r, ok
<1>8. /\ st \in Lets <=> ok
      /\ st \in Refuses <=> ~ok
      /\ st \in {"ok", "filter", "mount", "challenged", "denied"}
      /\ st \in {"ok", "mount"} => (st = "mount" <=> from # None)
  BY <1>4, RightsAre DEF Lets, Refuses
<1>9. InFlight(r)
  <2>1. CASE st = "mount"
    <3>1. h = "BlobsUploadsPost" /\ from # None /\ ok
      BY <1>4, <2>1
    <3>2. Right[h][1] = "blobs" /\ Right[h][2] = "POST"
      BY <3>1, RightsAre
    <3>3. MayDo(auth, "blobs", scope, "POST")
      BY <1>7, <3>1, <3>2
    <3> QED
      BY <1>1, <1>5, <2>1, <3>1, <3>3 DEF InFlight
  <2>2. CASE st = "filter"
    <3>1. h = "TagsList" /\ ok
      BY <1>4, <2>2
    <3> QED
      BY <1>1, <1>5, <2>2, <3>1 DEF InFlight
  <2>3. CASE st \notin {"mount", "filter"}
    BY <1>5, <2>3 DEF InFlight
  <2> QED
    BY <2>1, <2>2, <2>3
<1> QED
  BY <1>1, <1>3, <1>5, <1>6, <1>7, <1>8, <1>9

LEMMA DecideStep ==
    ASSUME AccessInv, NEW p \in Procs, NEW auth \in Auths, NEW h \in Handlers,
           NEW scope \in Scopes,
           NEW from \in Repos \union {NoRepo, None},
           from # None => h = "BlobsUploadsPost",
           Decide(p, h, auth, scope, from)
    PROVE  AccessInv'
<1>1. UNCHANGED <<setup, server, starts, second, tick, tokens>>
  BY DEF Decide
<1>2. auth.kind = "bearer" => auth.token \in tokens
  BY AuthsAre
<1>3. /\ req'[p] \in Requests /\ req' = [req EXCEPT ![p] = req'[p]]
      /\ req'[p].auth = auth /\ InFlight(req'[p])
  BY DecideIs
<1>4. PICK r : r = req'[p]
  OBVIOUS
<1> QED
  BY <1>1, <1>2, <1>3, <1>4, OneRequestStep

\* The later steps of a request.
LEMMA CheckFromIs ==
    ASSUME AccessInv, NEW p \in Procs, CheckFrom(p)
    PROVE  /\ req'[p] \in Requests /\ req' = [req EXCEPT ![p] = req'[p]]
           /\ req'[p].h = "BlobsUploadsPost" /\ req'[p].auth = req[p].auth
           /\ req'[p].scope = req[p].scope /\ req'[p].from = req[p].from
           /\ req'[p].st \in {"ok", "unauthorized"} /\ InFlight(req'[p])
           /\ MayDo(req[p].auth, "blobs", req[p].scope, "POST")
           /\ req'[p].st = "ok" => MayDo(req[p].auth, "blobs", req[p].from, "GET") /\ Live(req[p].auth)
           /\ req'[p].st = "unauthorized" =>
                 ~(MayDo(req[p].auth, "blobs", req[p].from, "GET") /\ Sure(req[p].auth))
<1> DEFINE ok == IsRequestAllowed(req[p].auth, "blobs", req[p].from, "GET")
           r == [req[p] EXCEPT !.st = IF ok THEN "ok" ELSE "unauthorized"]
<1>1. /\ req[p].st = "mount" /\ req' = [req EXCEPT ![p] = r] /\ req \in [Procs -> Requests]
  BY DEF CheckFrom, At, AccessInv, RequestInv
<1>2. req'[p] = r
  BY <1>1
<1>3. Running /\ req[p].h = "BlobsUploadsPost" /\ MayDo(req[p].auth, "blobs", req[p].scope, "POST")
  BY <1>1, ServedAuth DEF InFlight
<1>4. /\ ok => MayDo(req[p].auth, "blobs", req[p].from, "GET") /\ Live(req[p].auth)
      /\ MayDo(req[p].auth, "blobs", req[p].from, "GET") /\ Sure(req[p].auth) => ok
  BY <1>3, ServedAuth, DecisionIs DEF AccessInv
<1> HIDE DEF ok
<1>5. /\ r \in Requests /\ r.h = req[p].h /\ r.auth = req[p].auth /\ r.scope = req[p].scope
      /\ r.from = req[p].from /\ r.st = IF ok THEN "ok" ELSE "unauthorized"
  BY ServedAuth DEF Requests
<1> HIDE DEF r
<1>6. InFlight(r)
  BY <1>5 DEF InFlight
<1> QED
  BY <1>1, <1>2, <1>3, <1>4, <1>5, <1>6

LEMMA FilterTagIs ==
    ASSUME AccessInv, NEW p \in Procs, NEW t \in Tags, FilterTag(p, t)
    PROVE  /\ req'[p] \in Requests /\ req' = [req EXCEPT ![p] = req'[p]]
           /\ req'[p].auth = req[p].auth /\ req'[p].st = "filter" /\ InFlight(req'[p])
<1> DEFINE ok == Allowed(p, <<req[p].scope, t>>)
           list == IF ok THEN req[p].list \union {t} ELSE req[p].list
           r == [req[p] EXCEPT !.todo = @ \ {t}, !.list = list]
<1>1. /\ req[p].st = "filter" /\ t \in req[p].todo /\ req' = [req EXCEPT ![p] = r]
      /\ req \in [Procs -> Requests] /\ req[p] \in Requests
  BY ServedAuth DEF FilterTag, At, AccessInv, RequestInv
<1>2. req'[p] = r
  BY <1>1
<1>3. /\ Running /\ req[p].h = "TagsList"
      /\ \A x \in req[p].list : MayDo(req[p].auth, "tags", <<req[p].scope, x>>, "GET")
      /\ \A x \in Tags \ (req[p].list \union req[p].todo) :
            ~(MayDo(req[p].auth, "tags", <<req[p].scope, x>>, "GET") /\ Sure(req[p].auth))
  BY <1>1, ServedAuth DEF InFlight
<1>4. ok <=> IsRequestAllowed(req[p].auth, "tags", <<req[p].scope, t>>, "GET")
  BY <1>3, RightsAre DEF Allowed
<1>5. /\ ok => MayDo(req[p].auth, "tags", <<req[p].scope, t>>, "GET")
      /\ MayDo(req[p].auth, "tags", <<req[p].scope, t>>, "GET") /\ Sure(req[p].auth) => ok
  BY <1>3, <1>4, ServedAuth, DecisionIs DEF AccessInv
<1> HIDE DEF ok
<1>6. list \in SUBSET Tags
  BY <1>1 DEF Requests
<1> HIDE DEF list
<1>7. /\ r \in Requests /\ r.h = req[p].h /\ r.auth = req[p].auth /\ r.scope = req[p].scope
      /\ r.st = "filter" /\ r.list = list /\ r.todo = req[p].todo \ {t}
  BY <1>1, <1>6 DEF Requests
<1> HIDE DEF r
<1>8. InFlight(r)
  <2>1. ASSUME NEW x \in list PROVE MayDo(req[p].auth, "tags", <<req[p].scope, x>>, "GET")
    BY <1>3, <1>5 DEF list
  <2>2. ASSUME NEW x \in Tags \ (list \union (req[p].todo \ {t}))
        PROVE  ~(MayDo(req[p].auth, "tags", <<req[p].scope, x>>, "GET") /\ Sure(req[p].auth))
    <3>1. x \notin req[p].list
      BY DEF list
    <3>2. CASE x = t
      BY <1>5, <3>2 DEF list
    <3>3. CASE x # t
      BY <1>3, <3>1, <3>3
    <3> QED
      BY <3>2, <3>3
  <2> QED
    BY <1>3, <1>7, <2>1, <2>2 DEF InFlight
<1> QED
  BY <1>1, <1>2, <1>7, <1>8

LEMMA LaterStep ==
    ASSUME AccessInv, NEW p \in Procs,
           CheckFrom(p) \/ (\E t \in Tags : FilterTag(p, t)) \/ AnswerTags(p) \/ Finish(p)
    PROVE  AccessInv'
<1>0. req \in [Procs -> Requests]
  BY DEF AccessInv, RequestInv
<1>1. UNCHANGED <<setup, server, starts, second, tick, tokens>>
  BY DEF CheckFrom, FilterTag, AnswerTags, Finish
<1>2. ASSUME NEW r \in Requests, req' = [req EXCEPT ![p] = r], InFlight(r),
             r.auth = req[p].auth \/ r.auth.kind = "none"
      PROVE  AccessInv'
  BY <1>1, <1>2, ServedAuth, OneRequestStep
<1>3. CASE CheckFrom(p)
  BY <1>2, <1>3, CheckFromIs
<1>4. ASSUME NEW t \in Tags, FilterTag(p, t) PROVE AccessInv'
  BY <1>2, <1>4, FilterTagIs
<1>5. CASE AnswerTags(p)
  <2>1. req' = [req EXCEPT ![p] = [req[p] EXCEPT !.st = "ok"]]
    BY <1>5 DEF AnswerTags
  <2>2. /\ [req[p] EXCEPT !.st = "ok"] \in Requests /\ [req[p] EXCEPT !.st = "ok"].st = "ok"
        /\ [req[p] EXCEPT !.st = "ok"].auth = req[p].auth
    BY ServedAuth DEF Requests
  <2>3. InFlight([req[p] EXCEPT !.st = "ok"])
    BY <2>2 DEF InFlight
  <2> QED
    BY <1>2, <2>1, <2>2, <2>3
<1>6. CASE Finish(p)
  <2>1. req' = [req EXCEPT ![p] = Idle]
    BY <1>6 DEF Finish
  <2> QED
    BY <1>2, <2>1, IdleIs
<1> QED
  BY <1>3, <1>4, <1>5, <1>6

LEMMA ServeStep ==
    ASSUME AccessInv, NEW p \in Procs, Serve(p)
    PROVE  AccessInv'
<1>1. ASSUME NEW auth \in Auths, NEW h \in Handlers, NEW scope \in ScopesOf(h),
             Decide(p, h, auth, scope, None)
      PROVE  AccessInv'
  BY <1>1, DecideStep, ScopesAre
<1>2. ASSUME NEW auth \in Auths, NEW scope \in Repos, NEW from \in Repos \union {NoRepo},
             Decide(p, "BlobsUploadsPost", auth, scope, from)
      PROVE  AccessInv'
  BY <1>2, DecideStep, RightsAre DEF Scopes
<1> QED
  BY <1>1, <1>2, IndexStep, GetTokenStep, LaterStep DEF Serve

LEMMA StepHolds == AccessInv /\ [Next]_vars => AccessInv'
<1> SUFFICES ASSUME AccessInv, [Next]_vars PROVE AccessInv'
  OBVIOUS
<1>1. CASE UNCHANGED vars
  <2>1. /\ setup' = setup /\ server' = server /\ starts' = starts /\ second' = second
        /\ tick' = tick /\ tokens' = tokens /\ req' = req
    BY <1>1 DEF vars
  <2>2. ASSUME NEW x, InFlight(x) PROVE InFlight(x)'
    BY <2>1, <2>2, MayDoKept, SureKept DEF InFlight, Running
  <2>3. \A p \in Procs : InFlight(req[p])'
    BY <2>1, <2>2, ServedAuth
  <2> QED
    BY <2>1, <2>3 DEF AccessInv, ServerInv, TokenInv, Given, RequestInv, Running
<1> QED
  BY <1>1, StartStep, StopStep, TickStep, ServeStep DEF Next

THEOREM AccessInvariant == Spec => []AccessInv
BY InitHolds, StepHolds, PTL DEF Spec

-----------------------------------------------------------------------------
(* The theorems.                                                           *)

\* Every variable keeps its type (Access), and what runs has a place for its
\* data, a secret and a timeout.
THEOREM AccessTypeCorrect == Spec => []TypeOK
<1>1. AccessInv => TypeOK
  <2> SUFFICES ASSUME AccessInv PROVE TypeOK
    OBVIOUS
  <2>1. tokens \subseteq Tokens /\ req \in [Procs -> Requests]
    BY DEF AccessInv, TokenInv, Given, RequestInv
  <2>2. ASSUME Running
        PROVE  /\ server.dataDir # None /\ server.tokenSecret # None
               /\ server.tokenTimeout \in Int
    <3>1. /\ setup \in Setups /\ starts \in 1 .. MaxStarts /\ Starts(setup)
          /\ server = New(setup, Generated(starts))
      BY <2>2 DEF AccessInv, ServerInv
    <3>2. ASSUME NEW s \in Setups, NEW secret
          PROVE  /\ New(s, secret).tokenSecret = IF SecretOf(s) = None THEN secret ELSE SecretOf(s)
                 /\ New(s, secret).tokenTimeout \in Int
                 /\ Starts(s) => New(s, secret).dataDir # None
      BY NewIs
    <3>3. LET c == New(setup, Generated(starts)) IN
          /\ c.tokenSecret = IF SecretOf(setup) = None THEN Generated(starts) ELSE SecretOf(setup)
          /\ c.tokenTimeout \in Int
          /\ Starts(setup) => c.dataDir # None
      BY ONLY <3>1, <3>2
    <3>4. Generated(starts) # None
      BY <3>1, AccessSetups
    <3> QED
      BY <3>1, <3>3, <3>4
  <2> QED
    BY <2>1, <2>2 DEF AccessInv, ServerInv, TypeOK
<1> QED
  BY <1>1, AccessInvariant, PTL

\* Of data, secret and timeout a file has the last word, of the address and
\* the certificates a flag.
THEOREM AccessPrecedence == Spec => []Precedence
<1>1. AccessInv => Precedence
  <2> SUFFICES ASSUME AccessInv, Running
               PROVE  /\ \A f \in {"dataDir", "tokenSecret", "tokenTimeout"} :
                            Says(setup, f, <<"file", "flag">>) \in {None, server[f]}
                      /\ Says(setup, "addr", <<"flag", "file">>) \in {None, server.addr}
                      /\ server.tls = \A f \in {"certfile", "keyfile"} :
                            Says(setup, f, <<"flag", "file">>) # None
    BY DEF Precedence
  <2>1. setup \in Setups /\ server = New(setup, Generated(starts))
    BY DEF AccessInv, ServerInv
  <2>2. ASSUME NEW s \in Setups, NEW secret
        PROVE  LET c == New(s, secret) IN
               /\ c.tokenSecret = IF SecretOf(s) = None THEN secret ELSE SecretOf(s)
               /\ c.tokenTimeout = IF Says(s, "tokenTimeout", <<"file", "flag">>) = None THEN 30
                                   ELSE Says(s, "tokenTimeout", <<"file", "flag">>)
               /\ c.dataDir = Says(s, "dataDir", <<"file", "flag">>)
               /\ c.addr = IF Says(s, "addr", <<"flag", "file">>) = None THEN "0.0.0.0:5000"
                           ELSE Says(s, "addr", <<"flag", "file">>)
               /\ c.tls = \A f \in {"certfile", "keyfile"} : Says(s, f, <<"flag", "file">>) # None
    BY NewIs
  <2>3. LET c == New(setup, Generated(starts)) IN
        /\ c.tokenSecret = IF SecretOf(setup) = None THEN Generated(starts) ELSE SecretOf(setup)
        /\ c.tokenTimeout = IF Says(setup, "tokenTimeout", <<"file", "flag">>) = None THEN 30
                            ELSE Says(setup, "tokenTimeout", <<"file", "flag">>)
        /\ c.dataDir = Says(setup, "dataDir", <<"file", "flag">>)
        /\ c.addr = IF Says(setup, "addr", <<"flag", "file">>) = None THEN "0.0.0.0:5000"
                    ELSE Says(setup, "addr", <<"flag", "file">>)
        /\ c.tls = \A f \in {"certfile", "keyfile"} : Says(setup, f, <<"flag", "file">>) # None
    BY ONLY <2>1, <2>2
  <2>4. Says(setup, "tokenSecret", <<"file", "flag">>) \in {None, server.tokenSecret}
    BY <2>1, <2>3 DEF SecretOf
  <2>5. Says(setup, "tokenTimeout", <<"file", "flag">>) \in {None, server.tokenTimeout}
    BY <2>1, <2>3
  <2>6. Says(setup, "dataDir", <<"file", "flag">>) \in {None, server.dataDir}
    BY <2>1, <2>3
  <2>7. Says(setup, "addr", <<"flag", "file">>) \in {None, server.addr}
    BY <2>1, <2>3
  <2>8. server.tls = \A f \in {"certfile", "keyfile"} : Says(setup, f, <<"flag", "file">>) # None
    BY <2>1, <2>3
  <2> QED
    BY <2>4, <2>5, <2>6, <2>7, <2>8
<1> QED
  BY <1>1, AccessInvariant, PTL

\* Which steps let a request pass, or refuse one.
LEMMA AnswersAre ==
    ASSUME AccessInv, [Next]_vars, NEW p \in Procs, req'[p] # req[p], req'[p].h \in Handlers,
           req'[p].st \in Lets \union Refuses, ~At(p, "filter")
    PROVE  \/ CheckFrom(p)
           \/ \E auth \in Auths, h \in Handlers, scope \in Scopes, from \in Repos \union {NoRepo, None} :
                 (from # None => h = "BlobsUploadsPost") /\ Decide(p, h, auth, scope, from)
<1>0. req \in [Procs -> Requests]
  BY DEF AccessInv, RequestInv
<1>1. req' # req
  OBVIOUS
<1>2. ~Stop /\ ~Tick /\ \A s \in Setups : ~Start(s)
  BY <1>1, IdleIs DEF Stop, Tick, Start, Lets, Refuses
<1>3. ASSUME NEW q \in Procs, Serve(q), q # p PROVE req'[p] = req[p]
  <2>1. PICK r : req' = [req EXCEPT ![q] = r]
    BY <1>3 DEF Serve, Index, GetToken, Decide, Begin, CheckFrom, FilterTag, AnswerTags, Finish
  <2> QED
    BY <1>0, <1>3, <2>1
<1>4. Serve(p)
  BY <1>1, <1>2, <1>3 DEF Next, vars
<1>5. ASSUME NEW auth \in Auths PROVE ~Index(p, auth) /\ ~GetToken(p, auth)
  <2>1. ASSUME Index(p, auth) \/ GetToken(p, auth) PROVE req'[p].h \in {"Index", "Token"}
    BY <1>0, <2>1 DEF Index, GetToken, Begin, Idle
  <2> QED
    BY <2>1, RightsAre
<1>6. ~AnswerTags(p) /\ \A t \in Tags : ~FilterTag(p, t)
  BY DEF AnswerTags, FilterTag
<1>7. ~Finish(p)
  BY <1>0, IdleIs DEF Finish, Lets, Refuses
<1>8. ASSUME NEW auth \in Auths, NEW h \in Handlers, NEW scope \in ScopesOf(h),
             Decide(p, h, auth, scope, None)
      PROVE  \E a \in Auths, g \in Handlers, s \in Scopes, from \in Repos \union {NoRepo, None} :
                (from # None => g = "BlobsUploadsPost") /\ Decide(p, g, a, s, from)
  BY <1>8, ScopesAre
<1>9. ASSUME NEW auth \in Auths, NEW scope \in Repos, NEW from \in Repos \union {NoRepo},
             Decide(p, "BlobsUploadsPost", auth, scope, from)
      PROVE  \E a \in Auths, g \in Handlers, s \in Scopes, f \in Repos \union {NoRepo, None} :
                (f # None => g = "BlobsUploadsPost") /\ Decide(p, g, a, s, f)
  BY <1>9, RightsAre DEF Scopes
<1> QED
  BY <1>4, <1>5, <1>6, <1>7, <1>8, <1>9 DEF Serve

\* Nobody is let pass, and no mount is completed, without the right to it, now,
\* and a password or a living token of this server's secret.
THEOREM AccessOnlyEntitled == Spec => OnlyEntitled
<1>1. AccessInv /\ [Next]_vars => \A p \in Procs : PassesEntitled(p)
  <2> SUFFICES ASSUME AccessInv, [Next]_vars, NEW p \in Procs, req'[p] # req[p],
                      req'[p].st \in Lets, req'[p].h \in Handlers, ~At(p, "filter")
               PROVE  LET r == req'[p] IN
                      /\ Entitled(r.auth, Right[r.h][1], r.scope, Right[r.h][2], Alive)
                      /\ r.from # None /\ r.st = "ok" =>
                            Entitled(r.auth, "blobs", r.from, "GET", Alive)
    BY DEF PassesEntitled
  <2> DEFINE r == req'[p]
  <2>1. CASE CheckFrom(p)
    <3>1. /\ MayDo(r.auth, "blobs", r.scope, "POST") /\ r.h = "BlobsUploadsPost"
          /\ MayDo(r.auth, "blobs", r.from, "GET") /\ Live(r.auth)
      BY <2>1, CheckFromIs DEF Lets
    <3>2. MayDo(r.auth, Right[r.h][1], r.scope, Right[r.h][2])
      BY <3>1, RightsAre
    <3> QED
      BY <3>1, <3>2, EntitledIs
  <2>2. ASSUME NEW auth \in Auths, NEW h \in Handlers, NEW scope \in Scopes,
               NEW from \in Repos \union {NoRepo, None},
               from # None => h = "BlobsUploadsPost", Decide(p, h, auth, scope, from)
        PROVE  /\ MayDo(r.auth, Right[r.h][1], r.scope, Right[r.h][2]) /\ Live(r.auth)
               /\ r.st = "ok" => r.from = None
    BY <2>2, DecideIs
  <2>3. CASE \E auth \in Auths, h \in Handlers, scope \in Scopes, from \in Repos \union {NoRepo, None} :
                (from # None => h = "BlobsUploadsPost") /\ Decide(p, h, auth, scope, from)
    BY <2>2, <2>3, EntitledIs
  <2> QED
    BY <2>1, <2>3, AnswersAre
<1>2. AccessInv /\ [Next]_vars => [\A p \in Procs : PassesEntitled(p)]_vars
  BY <1>1
<1> QED
  BY <1>2, AccessInvariant, PTL DEF Spec, OnlyEntitled

\* Whoever has the right to it, and a password or a token that is surely
\* alive, is not refused.
THEOREM AccessEntitledServed == Spec => EntitledServed
<1>1. AccessInv /\ [Next]_vars => \A p \in Procs : RefusesOthers(p)
  <2> SUFFICES ASSUME AccessInv, [Next]_vars, NEW p \in Procs, req'[p] # req[p],
                      req'[p].st \in Refuses, req'[p].h \in Handlers
               PROVE  LET r == req'[p] IN
                      IF r.st = "unauthorized"
                      THEN ~Entitled(r.auth, "blobs", r.from, "GET", SurelyAlive)
                      ELSE ~Entitled(r.auth, Right[r.h][1], r.scope, Right[r.h][2], SurelyAlive)
    BY DEF RefusesOthers
  <2> DEFINE r == req'[p]
  <2>1. ~At(p, "filter")
    <3>1. ASSUME At(p, "filter") PROVE req'[p].st \in {"filter", "ok", "idle"} \/ req'[p] = req[p]
      <4>0. req \in [Procs -> Requests]
        BY DEF AccessInv, RequestInv
      <4>1. ASSUME NEW q \in Procs, Serve(q), q # p PROVE req'[p] = req[p]
        <5>1. PICK x : req' = [req EXCEPT ![q] = x]
          BY <4>1 DEF Serve, Index, GetToken, Decide, Begin, CheckFrom, FilterTag, AnswerTags, Finish
        <5> QED
          BY <4>0, <4>1, <5>1
      <4>2. ASSUME Serve(p) PROVE req'[p].st \in {"filter", "ok", "idle"}
        <5>1. (\E t \in Tags : FilterTag(p, t)) \/ AnswerTags(p)
          BY <3>1, <4>2 DEF Serve, Index, GetToken, Decide, Begin, CheckFrom, Finish, At
        <5>2. CASE AnswerTags(p)
          BY <4>0, <5>2, ServedAuth DEF AnswerTags, Requests
        <5> QED
          BY <5>1, <5>2, FilterTagIs
      <4>3. ASSUME Stop PROVE req'[p].st = "idle"
        BY <4>3, IdleIs DEF Stop
      <4> QED
        BY <4>1, <4>2, <4>3 DEF Next, Tick, Start, vars
    <3> QED
      BY <3>1 DEF Refuses
  <2>2. CASE CheckFrom(p)
    <3>1. r.st = "unauthorized" /\ ~(MayDo(r.auth, "blobs", r.from, "GET") /\ Sure(r.auth))
      BY <2>2, CheckFromIs DEF Refuses
    <3> QED
      BY <3>1, EntitledIs
  <2>3. ASSUME NEW auth \in Auths, NEW h \in Handlers, NEW scope \in Scopes,
               NEW from \in Repos \union {NoRepo, None},
               from # None => h = "BlobsUploadsPost", Decide(p, h, auth, scope, from)
        PROVE  /\ ~(MayDo(r.auth, Right[r.h][1], r.scope, Right[r.h][2]) /\ Sure(r.auth))
               /\ r.st # "unauthorized"
    BY <2>3, DecideIs
  <2>4. CASE \E auth \in Auths, h \in Handlers, scope \in Scopes, from \in Repos \union {NoRepo, None} :
                (from # None => h = "BlobsUploadsPost") /\ Decide(p, h, auth, scope, from)
    BY <2>3, <2>4, EntitledIs
  <2> QED
    BY <2>1, <2>2, <2>4, AnswersAre
<1>2. AccessInv /\ [Next]_vars => [\A p \in Procs : RefusesOthers(p)]_vars
  BY <1>1
<1> QED
  BY <1>2, AccessInvariant, PTL DEF Spec, EntitledServed

\* A list of tags is that of the tags its user may see.
THEOREM AccessTagsAsAllowed == Spec => TagsAsAllowed
<1>1. AccessInv /\ [Next]_vars => [\A p \in Procs : ListsAllowed(p)]_vars
  <2> SUFFICES ASSUME AccessInv, [Next]_vars, vars' # vars, NEW p \in Procs,
                      At(p, "filter"), req'[p].st = "ok"
               PROVE  LET r == req[p] IN
                      /\ \A t \in r.list :
                            Entitled(r.auth, "tags", <<r.scope, t>>, "GET", LAMBDA x : TRUE)
                      /\ \A t \in Tags \ r.list :
                            ~Entitled(r.auth, "tags", <<r.scope, t>>, "GET", SurelyAlive)
    BY DEF ListsAllowed
  <2>0. req \in [Procs -> Requests] /\ req[p].st = "filter" /\ InFlight(req[p])
    BY DEF AccessInv, RequestInv, At
  <2>1. req[p].todo = {}
    <3>1. ASSUME NEW q \in Procs, Serve(q), q # p PROVE req'[p] = req[p]
      <4>1. PICK x : req' = [req EXCEPT ![q] = x]
        BY <3>1 DEF Serve, Index, GetToken, Decide, Begin, CheckFrom, FilterTag, AnswerTags, Finish
      <4> QED
        BY <2>0, <3>1, <4>1
    <3>2. ~Stop /\ ~Tick /\ \A s \in Setups : ~Start(s)
      BY <2>0, IdleIs DEF Stop, Tick, Start
    <3>3. Serve(p)
      BY <2>0, <3>1, <3>2 DEF Next
    <3>4. \A t \in Tags : ~FilterTag(p, t)
      BY FilterTagIs
    <3> QED
      BY <2>0, <3>3, <3>4 DEF Serve, Index, GetToken, Decide, Begin, CheckFrom, AnswerTags, Finish, At
  <2>2. /\ \A t \in req[p].list : MayDo(req[p].auth, "tags", <<req[p].scope, t>>, "GET")
        /\ \A t \in Tags \ req[p].list :
              ~(MayDo(req[p].auth, "tags", <<req[p].scope, t>>, "GET") /\ Sure(req[p].auth))
    BY <2>0, <2>1 DEF InFlight
  <2> QED
    BY <2>2, EntitledIs
<1> QED
  BY <1>1, AccessInvariant, PTL DEF Spec, TagsAsAllowed

=============================================================================
