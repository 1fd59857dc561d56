------------------------------ MODULE MCAccess ------------------------------
(* Small instances of Access for TLC. *)
EXTENDS Access, TLC

CONSTANTS r1, r2, t1, t2, ann, good, bad, s1, s2

\* Expressions for everything, for r1 and its tags, for r1 without them, and
\* for the catalogue.
MCScopes == {NoRepo, r1, r2} \union ({r1, r2} \X {t1, t2})
Everything == MCScopes
OfR1 == {r1} \union ({r1} \X {t1, t2})
OnlyR1 == {r1, <<r1, t1>>}
Catalog == {NoRepo}

User(name, pwd, groups) == [kind |-> "User", name |-> name, pwd |-> pwd, groups |-> groups]
Role(name, resources, verbs) ==
    [kind |-> "Role", name |-> name, resources |-> resources, verbs |-> verbs]
Binding(role, subjects, scopes) ==
    [kind |-> "RoleBinding", role |-> role, subjects |-> subjects, scopes |-> scopes]
Cache == [kind |-> "PullThroughCache", url |-> "upstream"]
Config(dir, secret, timeout, addr) ==
    [kind |-> "Configuration", dataDir |-> dir, tokenSecret |-> secret,
     tokenTimeout |-> timeout, addr |-> addr, ui |-> None,
     certfile |-> None, keyfile |-> None]

\* The manifests of the documentation's examples, a little smaller.
People ==
    << User(ann, good, {"dev"}), User(Anonymous, None, {"public"}),
       Role("admins", {"*"}, {"*"}), Role("readonly", {"catalog", "blobs", "manifests", "tags"}, {"HEAD", "GET"}),
       Binding("readonly", {<<"Group", "public">>}, {Catalog, OnlyR1}),
       Binding("readonly", {<<"Group", "dev">>}, {Everything}),
       Binding("admins", {<<"User", ann>>}, {OfR1}) >>

\* Somebody took the rights of ann to write, and the anonymous user, away.
FewerRights ==
    << User(ann, good, {"dev"}),
       Role("readonly", {"catalog", "blobs", "manifests", "tags"}, {"HEAD", "GET"}),
       Binding("readonly", {<<"Group", "dev">>}, {Catalog, OnlyR1}) >>

Setup(args, files) == [flags |-> ParseFlags(args, [addr |-> None]), files |-> files]

Timeout == [tokenTimeout |-> 1]

MCSetups ==
    { Setup(Timeout @@ [tokenSecret |-> s1], <<Config(None, s2, -1, "here")>> \o People),
      Setup(Timeout @@ [dataDir |-> None, addr |-> None],
            <<Config("d", s1, None, "here"), Config(None, s2, None, None)>> \o FewerRights),
      Setup(Timeout, <<Config("d", None, 2, "here"), Cache>> \o People),
      Setup(Timeout @@ [dataDir |-> None], People),
      Setup(Timeout @@ [adminName |-> ann, adminPwd |-> good, certfile |-> "c"], None),
      Setup(Timeout, None),
      Setup(Timeout, <<[kind |-> Broken]>> \o People) }

\* docs/pull-through-cache.md: serve -datadir ./data -adminpwd secret
\* -cfgdir ./config, where the files define caches.
DocumentedSetups == {Setup([dataDir |-> "./data", adminPwd |-> good], <<Cache>>)}

MCUsers == {ann}

=============================================================================
