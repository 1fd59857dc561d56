------------------------------- MODULE Access -------------------------------
(***************************************************************************)
(* Who is let in: the server is started with a setup, hands out tokens,    *)
(* decides on requests by password, by token or as on those of the         *)
(* anonymous user, and is started again with the same or another setup.    *)
(*                                                                         *)
(* Most handlers decide once, before anything else (the models of the      *)
(* storage begin where they let a request pass).  A mount decides twice, a *)
(* list of tags once more for every tag, and time goes on in between.      *)
(*                                                                         *)
(* Time is a second and a tick within it: tokens know seconds only.        *)
(* Passwords and secrets are not guessed, so clients have the tokens they  *)
(* were given.  The configuration does not change while the server runs.   *)
(***************************************************************************)
EXTENDS Configuration

CONSTANTS
    Setups,      \* what the server may be started with
    Repos,       \* repository names
    Tags,        \* tags of each of them
    Users,       \* names that clients know
    Passwords,   \* passwords that clients know
    Procs,       \* request goroutines
    Ticks,       \* ticks of the clock in a second
    Off,         \* no server runs
    MaxSecond,   \* bound of the clock
    MaxStarts,   \* bound: how often the server is started
    MaxTokens    \* bound: how many tokens clients have

ASSUME AccessConstants ==
    /\ Ticks \in Nat \ {0}
    /\ MaxSecond \in Nat /\ MaxStarts \in Nat /\ MaxTokens \in Nat
    /\ None \notin Repos \union Passwords

\* What the setup says of one setting, the sources in the order they count.
Says(s, field, sources) ==
    LET Value(source) == IF source = "flag" THEN s.flags[field]
                         ELSE IF s.files = None THEN None ELSE FileSetting(s.files, field)
    IN  IF Value(sources[1]) # None THEN Value(sources[1]) ELSE Value(sources[2])

SecretOf(s) == Says(s, "tokenSecret", <<"file", "flag">>)

\* The secret New generates when none is configured: never the same twice.
Generated(n) == <<"generated", n>>

\* The flags are those of parseFlags; a secret that is configured is none that
\* is generated.
ASSUME AccessSetups ==
    \A s \in Setups :
        /\ DOMAIN s.flags = DOMAIN FlagDefaults
        /\ Says(s, "tokenTimeout", <<"file", "flag">>) \in Int \union {None}
        /\ \A n \in 1 .. MaxStarts : /\ Generated(n) \notin {None, SecretOf(s)}
                                    /\ New(s, Generated(n)) # Off

VARIABLES
    setup,        \* what the server was last started with
    server,       \* the running configuration, or Off
    starts,       \* how often it was started
    second, tick, \* the time
    tokens,       \* the tokens that clients have
    req           \* the request each goroutine serves, or its answer

vars == <<setup, server, starts, second, tick, tokens, req>>

Running == server # Off

-----------------------------------------------------------------------------
(* Tokens.                                                                 *)

\* sub, iat and the secret it is signed with; and when exactly it was given,
\* by which start of the server, and with which setup (history).
GenerateToken(user) ==
    [sub |-> user, iat |-> second, secret |-> server.tokenSecret,
     second |-> second, tick |-> tick, start |-> starts, setup |-> setup]

\* time.Since(iat) > TokenTimeout.
Expired(t) ==
    \/ second - t.iat > server.tokenTimeout
    \/ second - t.iat = server.tokenTimeout /\ tick > 0

\* A mutant: the signature is all that counts.
GetClaimForever(t) == t.secret = server.tokenSecret

\* A mutant: the last second is one too many.
GetClaimBefore(t) == t.secret = server.tokenSecret /\ second - t.iat < server.tokenTimeout

\* GetClaimFromToken.
GetClaimFromToken(t) == t.secret = server.tokenSecret /\ ~Expired(t)

-----------------------------------------------------------------------------
(* Decisions.                                                              *)

\* The Authorization header of a request; "malformed" is neither of Basic
\* nor of Bearer form.
Auths ==
    {[kind |-> "none"], [kind |-> "malformed"]}
        \union [kind : {"basic"}, user : Users, pwd : Passwords]
        \union [kind : {"bearer"}, token : tokens]

\* isBasicAuthAllowed, isBearerAllowed, or anonymous.
IsRequestAllowed(auth, resource, scope, verb) ==
    LET MayBe(user) == IsAllowed(server.rbac, user, resource, scope, verb) IN
    \/ auth.kind = "basic" /\ HasUser(server.rbac, auth.user, auth.pwd) /\ MayBe(auth.user)
    \/ auth.kind = "bearer" /\ GetClaimFromToken(auth.token) /\ MayBe(auth.token.sub)
    \/ auth.kind \in {"none", "malformed"} /\ IsAnonymousUserEnabled(server.rbac) /\ MayBe(Anonymous)

IsValidAuth(auth) ==
    \/ auth.kind = "basic" /\ HasUser(server.rbac, auth.user, auth.pwd)
    \/ auth.kind = "bearer" /\ GetClaimFromToken(auth.token)

\* 401 with a challenge to who came without a header, 403 to all others.
ChallengeRequest(auth) == IF auth.kind = "none" THEN "challenged" ELSE "denied"

\* The right that each handler asks for: resource and verb.
Right ==
    [CatalogList        |-> <<"catalog", "GET">>,
     ReferrersGet       |-> <<"manifests", "GET">>,
     TagsList           |-> <<"tags", "GET">>,
     BlobsGet           |-> <<"blobs", "GET">>,
     BlobsDelete        |-> <<"blobs", "DELETE">>,
     BlobsUploadsPost   |-> <<"blobs", "POST">>,
     BlobsUploadsGet    |-> <<"blobs", "POST">>,
     BlobsUploadsPatch  |-> <<"blobs", "PATCH">>,
     BlobsUploadsPut    |-> <<"blobs", "PUT">>,
     BlobsUploadsDelete |-> <<"blobs", "DELETE">>,
     ManifestsGet       |-> <<"manifests", "GET">>,
     ManifestsPut       |-> <<"manifests", "PUT">>,
     ManifestsDelete    |-> <<"manifests", "DELETE">>]

Handlers == DOMAIN Right

\* ... and its scopes: a manifest by tag is asked for as repository:tag.
ScopesOf(h) ==
    IF h = "CatalogList" THEN {NoRepo}
    ELSE IF h \in {"ManifestsGet", "ManifestsPut", "ManifestsDelete"}
         THEN Repos \union (Repos \X Tags)
    ELSE Repos

-----------------------------------------------------------------------------
(* Requests.                                                               *)

\* h: the handler; scope: what it asks a right for; from: the repository a
\* mount takes a blob from; todo, list: the tags still to be filtered, and
\* those that passed.
Idle == [st |-> "idle", h |-> None, auth |-> [kind |-> "none"], scope |-> NoRepo,
         from |-> None, todo |-> {}, list |-> {}]

At(p, st) == req[p].st = st

Begin(p, r) == At(p, "idle") /\ req' = [req EXCEPT ![p] = r]

Allowed(p, scope) == IsRequestAllowed(req[p].auth, Right[req[p].h][1], scope, Right[req[p].h][2])

Init ==
    /\ setup \in Setups
    /\ server = Off
    /\ starts = 0
    /\ second = 0 /\ tick = 0
    /\ tokens = {}
    /\ req = [p \in Procs |-> Idle]

\* The server is started, or panics.
Start(s) ==
    /\ ~Running /\ starts < MaxStarts
    /\ starts' = starts + 1
    /\ setup' = s
    /\ server' = IF Starts(s) THEN New(s, Generated(starts')) ELSE Off
    /\ UNCHANGED <<second, tick, tokens, req>>

\* It is stopped or killed, with the requests it serves.
Stop ==
    /\ Running
    /\ server' = Off
    /\ req' = [p \in Procs |-> Idle]
    /\ UNCHANGED <<setup, starts, second, tick, tokens>>

\* Time goes on.
Tick ==
    /\ second < MaxSecond
    /\ IF tick + 1 < Ticks THEN tick' = tick + 1 /\ UNCHANGED second
                           ELSE tick' = 0 /\ second' = second + 1
    /\ UNCHANGED <<setup, server, starts, tokens, req>>

\* GET /v2/.
Index(p, auth) ==
    /\ Running
    /\ Begin(p, [Idle EXCEPT !.st = IF IsValidAuth(auth) THEN "ok" ELSE ChallengeRequest(auth),
                             !.h = "Index", !.auth = auth])
    /\ UNCHANGED <<setup, server, starts, second, tick, tokens>>

\* GET /token: for a name and a password only.
GetToken(p, auth) ==
    /\ Running
    /\ \/ /\ auth.kind # "basic"
          /\ Begin(p, [Idle EXCEPT !.st = "challenged", !.h = "Token", !.auth = auth])
          /\ UNCHANGED tokens
       \/ /\ auth.kind = "basic" /\ ~HasUser(server.rbac, auth.user, auth.pwd)
          /\ Begin(p, [Idle EXCEPT !.st = "denied", !.h = "Token", !.auth = auth])
          /\ UNCHANGED tokens
       \/ /\ auth.kind = "basic" /\ HasUser(server.rbac, auth.user, auth.pwd)
          /\ Cardinality(tokens) < MaxTokens
          /\ Begin(p, [Idle EXCEPT !.st = "ok", !.h = "Token", !.auth = auth])
          /\ tokens' = tokens \union {GenerateToken(auth.user)}
    /\ UNCHANGED <<setup, server, starts, second, tick>>

\* Any other handler: it lets the request pass, goes on to a second decision,
\* or refuses.
Decide(p, h, auth, scope, from) ==
    LET ok == IsRequestAllowed(auth, Right[h][1], scope, Right[h][2]) IN
    /\ Running
    /\ Begin(p, [Idle EXCEPT !.st = IF ~ok THEN ChallengeRequest(auth)
                                    ELSE IF h = "TagsList" THEN "filter"
                                    ELSE IF from # None THEN "mount"
                                    ELSE "ok",
                             !.h = h, !.auth = auth, !.scope = scope, !.from = from,
                             !.todo = IF h = "TagsList" /\ ok THEN Tags ELSE {}])
    /\ UNCHANGED <<setup, server, starts, second, tick, tokens>>

\* BlobsUploadsPost: a mount reads from another repository.
CheckFrom(p) ==
    /\ At(p, "mount")
    /\ req' = [req EXCEPT ![p].st =
                 IF IsRequestAllowed(req[p].auth, "blobs", req[p].from, "GET")
                 THEN "ok" ELSE "unauthorized"]
    /\ UNCHANGED <<setup, server, starts, second, tick, tokens>>

\* A mutant: the right to the repository stands for its tags.
FilterTagByRepo(p, t) ==
    /\ At(p, "filter") /\ t \in req[p].todo
    /\ req' = [req EXCEPT ![p].todo = @ \ {t},
                          ![p].list = IF Allowed(p, req[p].scope) THEN @ \union {t} ELSE @]
    /\ UNCHANGED <<setup, server, starts, second, tick, tokens>>

\* TagsList: a tag that may not be seen is left out.
FilterTag(p, t) ==
    /\ At(p, "filter") /\ t \in req[p].todo
    /\ req' = [req EXCEPT ![p].todo = @ \ {t},
                          ![p].list = IF Allowed(p, <<req[p].scope, t>>) THEN @ \union {t} ELSE @]
    /\ UNCHANGED <<setup, server, starts, second, tick, tokens>>

AnswerTags(p) ==
    /\ At(p, "filter") /\ req[p].todo = {}
    /\ req' = [req EXCEPT ![p].st = "ok"]
    /\ UNCHANGED <<setup, server, starts, second, tick, tokens>>

\* The client has read the answer.
Finish(p) ==
    /\ req[p].st \in {"ok", "challenged", "denied", "unauthorized"}
    /\ req' = [req EXCEPT ![p] = Idle]
    /\ UNCHANGED <<setup, server, starts, second, tick, tokens>>

Serve(p) ==
    \/ \E auth \in Auths :
          \/ Index(p, auth) \/ GetToken(p, auth)
          \/ \E h \in Handlers : \E scope \in ScopesOf(h) : Decide(p, h, auth, scope, None)
          \/ \E scope \in Repos, from \in Repos \union {NoRepo} :
                Decide(p, "BlobsUploadsPost", auth, scope, from)
    \/ CheckFrom(p)
    \/ \E t \in Tags : FilterTag(p, t)
    \/ AnswerTags(p) \/ Finish(p)

Next == (\E s \in Setups : Start(s)) \/ Stop \/ Tick \/ \E p \in Procs : Serve(p)

Spec == Init /\ [][Next]_vars

-----------------------------------------------------------------------------
(* Properties.                                                             *)

Secrets == {New(s, Generated(n)).tokenSecret : s \in Setups, n \in 1 .. MaxStarts}

Tokens ==
    [sub : Users, iat : Nat, secret : Secrets, second : Nat,
     tick : 0 .. Ticks - 1, start : 1 .. MaxStarts, setup : Setups]

Headers ==
    {[kind |-> "none"], [kind |-> "malformed"]}
        \union [kind : {"basic"}, user : Users, pwd : Passwords]
        \union [kind : {"bearer"}, token : Tokens]

Scopes == {NoRepo} \union Repos \union (Repos \X Tags)

Requests ==
    [st : {"idle", "filter", "mount", "ok", "challenged", "denied", "unauthorized"},
     h : Handlers \union {"Index", "Token", None}, auth : Headers,
     scope : Scopes, from : Repos \union {NoRepo, None},
     todo : SUBSET Tags, list : SUBSET Tags]

TypeOK ==
    /\ setup \in Setups
    /\ Running => /\ server.dataDir # None /\ server.tokenSecret # None
                  /\ server.tokenTimeout \in Int
    /\ starts \in 0 .. MaxStarts
    /\ second \in 0 .. MaxSecond /\ tick \in 0 .. Ticks - 1
    /\ tokens \subseteq Tokens
    /\ req \in [Procs -> Requests]

\* Of data, secret and timeout a file has the last word, of the address and
\* the certificates a flag, its default included (buildOptions and New: each
\* option overwrites what came before it).
Precedence ==
    Running =>
        /\ \A f \in {"dataDir", "tokenSecret", "tokenTimeout"} :
              Says(setup, f, <<"file", "flag">>) \in {None, server[f]}
        /\ Says(setup, "addr", <<"flag", "file">>) \in {None, server.addr}
        /\ server.tls = \A f \in {"certfile", "keyfile"} :
              Says(setup, f, <<"flag", "file">>) # None

\* "Later, launch simple-registry with the flag `-cfgdir` pointing to the
\* directory containing your YAML files" (docs/pull-through-cache.md): the
\* caches that these define are in use.
ProxiesServe == Running /\ setup.files # None => server.proxies = ProxiesFrom(setup.files)

(* Who may do what, in the words of docs/role-based-access-control.md: the *)
(* bindings that apply to a user and a scope, and the roles they bind.     *)

Applicable(name, scope) ==
    {rb \in server.rbac.bindings :
        /\ \E s \in rb.subjects : IsSubject(server.rbac, name, s)
        /\ \E re \in rb.scopes : scope \in re}

Granted(name, resource, scope, verb) ==
    /\ Named(server.rbac, name) # {}
    /\ \E role \in server.rbac.roles :
          /\ role.name \in {rb.role : rb \in Applicable(name, scope)}
          /\ Grants(role, resource, verb)

\* The token was given by this server, or by one with the same secret.
Ours(t) ==
    \/ t.start = starts
    \/ SecretOf(setup) # None /\ SecretOf(t.setup) = SecretOf(setup)

\* No more than the timeout has passed since it was given ...
Alive(t) ==
    \/ second - t.second < server.tokenTimeout
    \/ second - t.second = server.tokenTimeout /\ tick <= t.tick

\* ... or since the beginning of the second it was given in.
SurelyAlive(t) ==
    \/ second - t.second < server.tokenTimeout
    \/ second - t.second = server.tokenTimeout /\ tick = 0

\* Whom a request is from; holds says which tokens count.
From(auth, name, holds(_)) ==
    \/ auth.kind = "basic" /\ name = auth.user /\ HasUser(server.rbac, name, auth.pwd)
    \/ auth.kind = "bearer" /\ name = auth.token.sub /\ Ours(auth.token) /\ holds(auth.token)
    \/ auth.kind \in {"none", "malformed"} /\ name = Anonymous

Entitled(auth, resource, scope, verb, holds(_)) ==
    \E name \in Users \union {Anonymous} :
        From(auth, name, holds) /\ Granted(name, resource, scope, verb)

Lets == {"ok", "filter", "mount"}
Refuses == {"challenged", "denied", "unauthorized"}

\* A request is let pass, and a mount completed, only for the user whose
\* password came with it, or for whom a token was asked with it no longer
\* than the timeout ago from a server with this secret, or for all; and only
\* if the running configuration grants that user what is done, now.  Neither
\* the truncation of iat nor a restart lets an older token pass
\* (IsRequestAllowed, GetClaimFromToken).
PassesEntitled(p) ==
    LET r == req'[p] IN
    r # req[p] /\ r.st \in Lets /\ r.h \in Handlers /\ ~At(p, "filter") =>
        /\ Entitled(r.auth, Right[r.h][1], r.scope, Right[r.h][2], Alive)
        /\ r.from # None /\ r.st = "ok" => Entitled(r.auth, "blobs", r.from, "GET", Alive)

OnlyEntitled == [][\A p \in Procs : PassesEntitled(p)]_vars

\* Who is entitled is not refused, and a token that is surely alive counts,
\* also after a restart with the same secret configured.
RefusesOthers(p) ==
    LET r == req'[p] IN
    r # req[p] /\ r.st \in Refuses /\ r.h \in Handlers =>
        IF r.st = "unauthorized"
        THEN ~Entitled(r.auth, "blobs", r.from, "GET", SurelyAlive)
        ELSE ~Entitled(r.auth, Right[r.h][1], r.scope, Right[r.h][2], SurelyAlive)

EntitledServed == [][\A p \in Procs : RefusesOthers(p)]_vars

\* A list of tags that is answered holds the tags that its user may see, no
\* others, and all of them unless the token may have expired while they were
\* filtered (TagsList asks again for every tag and leaves out what it is
\* refused).
ListsAllowed(p) ==
    LET r == req[p]
        May(t, holds(_)) == Entitled(r.auth, "tags", <<r.scope, t>>, "GET", holds)
    IN  At(p, "filter") /\ req'[p].st = "ok" =>
            /\ \A t \in r.list : May(t, LAMBDA x : TRUE)
            /\ \A t \in Tags \ r.list : ~May(t, SurelyAlive)

TagsAsAllowed == [][\A p \in Procs : ListsAllowed(p)]_vars

=============================================================================
