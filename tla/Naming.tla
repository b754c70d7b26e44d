------------------------------- MODULE Naming -------------------------------
(* What services and their endpoints are called (identity.rs,                *)
(* socket_path.rs, local/pipe_name.rs): two installations choose identities, *)
(* and a directory is checked against the sockets it is to hold.  A text is  *)
(* a sequence of characters; a user's SID and a UUID are one character each, *)
(* and the fixed prefixes of a pipe name's parts are left out.               *)
EXTENDS Integers, Sequences, FiniteSets, FiniteSetsExt, SequencesExt

CONSTANTS
    Sids, Ids,              \* users and service UUIDs
    MAX_COMPONENT,          \* characters of a component of an identity
    MAX_NAME_BYTES,         \* characters of a socket name
    MAX_SOCKET_PATH_BYTES,  \* a set of one number, or of none on Windows
    MAX_PIPE_NAME_UNITS,
    MaxDir                  \* bound: characters of a directory

VARIABLES
    service,    \* what each of two installations is, and what it is called
    directory,  \* a directory and the names declared for it
    accepted    \* whether it was accepted for them

nvars == <<service, directory, accepted>>

Alphanumeric == {"a", "b"}
Nil == "nil"
Texts(chars, n) == UNION {[1..k -> chars] : k \in 0..n}

-----------------------------------------------------------------------------
(* Identities.                                                               *)

\* The parts of a component between dots.
Parts(component) ==
    LET dots == {0, Len(component) + 1} \cup {i \in DOMAIN component : component[i] = "."}
        next(d) == Min({e \in dots : e > d})
    IN  {SubSeq(component, d + 1, next(d) - 1) : d \in dots \ {Len(component) + 1}}

\* Fault: any character will do.
ComponentAnyCharacter(component) ==
    component \notin {<<>>, <<".">>, <<".", ".">>} /\ Len(component) <= MAX_COMPONENT

\* ServiceIdentity::new, of one component.
Component(component) ==
    /\ component # <<>> /\ Len(component) <= MAX_COMPONENT
    /\ ToSet(component) \subseteq Alphanumeric \cup {"-", "."}
    /\ \A part \in Parts(component) :
          part # <<>> /\ part[1] \in Alphanumeric /\ part[Len(part)] \in Alphanumeric

\* ServiceIdentity::new
Valid(id, application, profile, instance) ==
    id # Nil /\ Component(application) /\ Component(profile) /\ Component(instance)

\* ServiceIdentity::paths: the directory below the root.
Below(s) == <<s.id, "/", "profile-">> \o s.profile \o <<"/", "instance-">> \o s.instance

\* ServicePaths: what is in that directory.
CONTROL_SOCKET == <<"control.sock">>
ServicePaths(s) ==
    {Below(s) \o <<"/", file>> : file \in {"owner.lock", "upgrade.lock", "discovery",
                                           CONTROL_SOCKET[1]}}

\* What a file system opens for a path: on Windows and macOS letters of either
\* case are one, and Windows leaves out the dots at the end of each component.
Opened(path) ==
    LET trailing(i) == \E j \in i..Len(path) :
                          /\ \A k \in i..j : path[k] = "."
                          /\ j = Len(path) \/ path[j + 1] = "/"
        kept == SelectSeq([i \in DOMAIN path |-> i], LAMBDA i : ~trailing(i))
    IN  [n \in DOMAIN kept |-> IF path[kept[n]] = "A" THEN "a" ELSE path[kept[n]]]

-----------------------------------------------------------------------------
(* Sockets.                                                                  *)

\* SocketName::new
SocketName(name) ==
    /\ name # <<>> /\ Len(name) <= MAX_NAME_BYTES
    /\ name \notin {<<".">>, <<".", ".">>}
    /\ ToSet(name) \cap {"/", "\\", ":", "NUL"} = {}

\* PathBuf::join, with a separator where there is none.
Join(dir, name) ==
    IF dir = <<>> \/ dir[Len(dir)] = "/" THEN dir \o name ELSE dir \o <<"/">> \o name

\* check_socket_path
CheckSocketPath(path) == \A limit \in MAX_SOCKET_PATH_BYTES : Len(path) <= limit

\* max_dir_bytes
MaxDirBytes(names) ==
    {LET longest == IF names = {} THEN 0 ELSE Max({Len(n) : n \in names})
     IN  IF longest + 1 <= limit THEN limit - (longest + 1) ELSE 0 : limit \in MAX_SOCKET_PATH_BYTES}

\* Fault: the first name is checked.
NewFirst(dir, names) ==
    \A limit \in MAX_SOCKET_PATH_BYTES :
        names # {} => Len(Join(dir, CHOOSE n \in names : \A m \in names : Len(m) >= Len(n))) <= limit

\* SocketDir::new: the longest name is checked.
New(dir, names) ==
    \A limit \in MAX_SOCKET_PATH_BYTES :
        names # {} => Len(Join(dir, CHOOSE n \in names : \A m \in names : Len(m) <= Len(n))) <= limit

\* SocketDir::path
Path(dir, name) == CheckSocketPath(Join(dir, name))

\* user_pipe_name
UserPipeName(sid, s) ==
    <<sid, "_", s.id, "_">> \o s.profile \o <<"_">> \o s.instance \o <<"_">> \o s.name

-----------------------------------------------------------------------------

Init ==
    /\ service = <<{}, {}>> /\ directory = [dir |-> <<>>, names |-> {}] /\ accepted = FALSE

\* What an installation may ask for.
Requests ==
    [sid : Sids, id : Ids \cup {Nil}, application : {<<"a">>, <<"-">>},
     profile : Texts({"a", "A", "-", ".", "_"}, MAX_COMPONENT), instance : {<<"a">>, <<"b">>},
     name : {<<"a">>, <<"_">>, <<"/">>, <<"a", "_", "a">>}]

\* An installation takes an identity and an endpoint; the application's name is
\* checked and is part of no path. A pipe name that is too long is refused.
Install(i) ==
    /\ service[i] = {} /\ ~accepted
    /\ \E s \in Requests :
          /\ Valid(s.id, s.application, s.profile, s.instance) /\ SocketName(s.name)
          /\ Len(UserPipeName(s.sid, s)) <= MAX_PIPE_NAME_UNITS
          /\ service' = [service EXCEPT ![i] = {s}]
    /\ UNCHANGED <<directory, accepted>>

\* A directory is accepted for the names declared; ServicePaths::sockets adds
\* the control socket to them.
Declare ==
    /\ service = <<{}, {}>> /\ ~accepted /\ accepted' = TRUE
    /\ \E dir \in Texts({"a", "/"}, MaxDir), names \in SUBSET Texts({"a"}, MAX_NAME_BYTES),
          more \in {{}, {CONTROL_SOCKET}} :
          /\ \A n \in names : SocketName(n)
          /\ New(dir, names \cup more)
          /\ directory' = [dir |-> dir, names |-> names \cup more]
    /\ UNCHANGED service

Next == Install(1) \/ Install(2) \/ Declare

-----------------------------------------------------------------------------

\* Two installations, or two users, share no pipe; two installations share no
\* file, on a file system that folds case or drops dots either; and a directory
\* that was accepted holds every socket declared for it, which it does exactly if
\* it is no longer than it may be (ServiceIdentity::new, paths, user_pipe_name,
\* SocketDir::new, path, max_dir_bytes).
NamesAreDistinct ==
    /\ \A s \in service[1], t \in service[2] :
          LET place(x) == <<x.id, x.profile, x.instance>> IN
          /\ UserPipeName(s.sid, s) = UserPipeName(t.sid, t) => s = t
          /\ place(s) # place(t) =>
                \A p \in ServicePaths(s), q \in ServicePaths(t) : Opened(p) # Opened(q)
    /\ accepted => \A n \in directory.names : Path(directory.dir, n)
    /\ LET dir == directory.dir IN
       accepted /\ dir # <<>> /\ dir[Len(dir)] # "/" /\ directory.names # {} =>
           \A most \in MaxDirBytes(directory.names) : Len(dir) <= most
=============================================================================
