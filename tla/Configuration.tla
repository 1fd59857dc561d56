--------------------------- MODULE Configuration ---------------------------
(***************************************************************************)
(* What `serve` makes of its flags and of the manifests in the directories *)
(* of -cfgdir: the options of config.New, applied one after the other, and *)
(* the users, roles and bindings that access is decided by.                *)
(*                                                                         *)
(* A setup is [flags, files].  Flags are None where they are empty (a      *)
(* timeout of 0 is None).  files is the sequence of manifests as they are  *)
(* read, or None without -cfgdir.  A regular expression is the set of      *)
(* scopes it matches, a password hash is the password.                     *)
(***************************************************************************)
EXTENDS Integers, Sequences, FiniteSetsExt

CONSTANTS
    None,        \* what is not set, or empty
    Broken,      \* kind of a manifest with an error: YAML, verb, expression
    NoRepo,      \* the scope of the catalogue, the empty string
    AllScopes    \* what handlers ask rights for: NoRepo, repositories, tags

Verbs == {"HEAD", "GET", "POST", "PUT", "PATCH", "DELETE", "CONNECT", "OPTIONS", "TRACE"}

Anonymous == "anonymous"

-----------------------------------------------------------------------------
(* Manifests.                                                              *)

OfKind(ms, kind) == {i \in DOMAIN ms : ms[i].kind = kind}

\* getWebFromManifests, getDataDirFromManifests: of several Configurations
\* the last one that sets a field.
Setting(ms, field) ==
    LET set == {i \in OfKind(ms, "Configuration") : ms[i][field] # None} IN
    IF set = {} THEN None ELSE ms[Max(set)][field]

ParseVerbs(verbs) == IF "*" \in verbs THEN Verbs ELSE verbs

\* getTokensUsersRolesRoleBindingsFromManifests.
EngineFrom(ms) ==
    [users    |-> SelectSeq(ms, LAMBDA m : m.kind = "User"),
     roles    |-> {[ms[i] EXCEPT !.verbs = ParseVerbs(@)] : i \in OfKind(ms, "Role")},
     bindings |-> {ms[i] : i \in OfKind(ms, "RoleBinding")}]

\* getProxiesFromManifests.
ProxiesFrom(ms) == {ms[i].url : i \in OfKind(ms, "PullThroughCache")}

\* New: one administrator when there are no files.
DefaultEngine(name, pwd) ==
    [users    |-> <<[kind |-> "User", name |-> name, pwd |-> pwd, groups |-> {"admins", "public"}]>>,
     roles    |-> {[kind |-> "Role", name |-> "write", resources |-> {"*"},
                    verbs |-> {"HEAD", "GET", "POST", "PUT", "PATCH", "DELETE"}],
                   [kind |-> "Role", name |-> "readonly", resources |-> {"*"},
                    verbs |-> {"HEAD", "GET"}]},
     bindings |-> {[kind |-> "RoleBinding", role |-> "write",
                    subjects |-> {<<"Group", "admins">>}, scopes |-> {AllScopes}]}]

-----------------------------------------------------------------------------
(* Flags and options, in the order buildOptions gives them to New.         *)

FlagDefaults ==
    [dataDir |-> "./data", adminName |-> "admin", adminPwd |-> None,
     tokenSecret |-> None, tokenTimeout |-> 30, addr |-> "0.0.0.0:5000",
     ui |-> None, certfile |-> None, keyfile |-> None]

\* parseFlags: an argument, else the environment, else the default.
ParseFlags(args, env) ==
    [f \in DOMAIN FlagDefaults |->
        IF f \in DOMAIN args THEN args[f]
        ELSE IF f \in DOMAIN env /\ env[f] # None THEN env[f]
        ELSE FlagDefaults[f]]

NoOptions == [rbac |-> None, dataDir |-> None, proxies |-> {}, adminName |-> None,
              adminPwd |-> None, tokenSecret |-> None, tokenTimeout |-> None,
              addr |-> None, ui |-> None, certfile |-> None, keyfile |-> None]

\* An option is given only for a flag or a field that is set.
WithAll(o, fields, values) ==
    [f \in DOMAIN o |-> IF f \in fields /\ values[f] # None THEN values[f] ELSE o[f]]

WebFields == {"addr", "ui", "certfile", "keyfile"}
CfgFields == WebFields \union {"dataDir", "tokenSecret", "tokenTimeout"}

\* What the files say of a field: a timeout below zero is not taken.
FileSetting(ms, field) ==
    LET value == Setting(ms, field) IN
    IF field = "tokenTimeout" /\ value # None /\ value <= 0 THEN None ELSE value

\* WithCfgDirs: a storage of the files' own comes with their proxies, or
\* neither does.
WithCfgDirs(o, ms) ==
    WithAll([o EXCEPT !.rbac = EngineFrom(ms),
                      !.proxies = IF Setting(ms, "dataDir") = None THEN @ ELSE ProxiesFrom(ms)],
            CfgFields, [f \in CfgFields |-> FileSetting(ms, f)])

\* A mutant: the options of the files come last.
BuildOptionsFilesLast(flags, files) ==
    LET fromFlags == WithAll(NoOptions, DOMAIN flags, flags) IN
    IF files = None THEN fromFlags ELSE WithCfgDirs(fromFlags, files)

\* buildOptions: the files come after the flags for data, administrator and
\* tokens, and before those of the web server.
BuildOptions(flags, files) ==
    LET early == WithAll(NoOptions, DOMAIN flags \ WebFields, flags)
        read  == IF files = None THEN early ELSE WithCfgDirs(early, files)
    IN  WithAll(read, WebFields, flags)

-----------------------------------------------------------------------------
(* New.                                                                    *)

\* A mutant: a storage is not asked for.
StartsAnyway(s) ==
    LET o == BuildOptions(s.flags, s.files) IN
    /\ s.files # None => OfKind(s.files, Broken) = {}
    /\ o.rbac = None => o.adminPwd # None

\* It panics on a manifest with an error, without a directory of data, and
\* without a password when there are no files.
Starts(s) ==
    LET o == BuildOptions(s.flags, s.files) IN
    /\ s.files # None => OfKind(s.files, Broken) = {}
    /\ o.dataDir # None
    /\ o.rbac = None => o.adminPwd # None

\* The running configuration; secret is the one that is generated if needed.
New(s, secret) ==
    LET o == BuildOptions(s.flags, s.files)
        Default(f, value) == IF o[f] = None THEN value ELSE o[f]
    IN  [rbac         |-> Default("rbac", DefaultEngine(o.adminName, o.adminPwd)),
         dataDir      |-> o.dataDir,
         proxies      |-> o.proxies,
         addr         |-> Default("addr", "0.0.0.0:5000"),
         tokenSecret  |-> Default("tokenSecret", secret),
         tokenTimeout |-> Default("tokenTimeout", 30),
         ui           |-> o.ui # None,
         tls          |-> o.certfile # None /\ o.keyfile # None]

-----------------------------------------------------------------------------
(* pkg/rbac.                                                               *)

Named(e, name) == {i \in DOMAIN e.users : e.users[i].name = name}

\* No hash, no password that matches.
HasUser(e, name, pwd) == pwd # None /\ \E i \in Named(e, name) : e.users[i].pwd = pwd

IsAnonymousUserEnabled(e) == Named(e, Anonymous) # {}

\* Of several users with one name the first counts.
Groups(e, name) == e.users[Min(Named(e, name))].groups

IsSubject(e, name, subject) ==
    \/ subject = <<"User", name>>
    \/ subject[1] = "Group" /\ subject[2] \in Groups(e, name)

Grants(role, resource, verb) == verb \in role.verbs /\ role.resources \intersect {resource, "*"} # {}

\* Engine.IsAllowed.
IsAllowed(e, name, resource, scope, verb) ==
    /\ Named(e, name) # {}
    /\ \/ name = Anonymous /\ resource = "" /\ scope = NoRepo
       \/ \E rb \in e.bindings :
             /\ \E role \in e.roles : role.name = rb.role /\ Grants(role, resource, verb)
             /\ \E s \in rb.subjects : IsSubject(e, name, s)
             /\ \E re \in rb.scopes : scope \in re

=============================================================================
