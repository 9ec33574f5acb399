-------------------------------- MODULE Binds --------------------------------
(***************************************************************************)
(* The host directories that a session binds into its container, and what a*)
(* path below their mount points means: to a sandboxed command, which sees *)
(* the mounts that bwrap made one after the other, and to the server, which*)
(* opens the redirects of a single command on the host.                    *)
(*                                                                         *)
(* All is seen from one file under /workspace.                             *)
(***************************************************************************)
EXTENDS Naturals, Sequences, FiniteSets, SequencesExt

CONSTANTS
  Hosts,    \* host paths that a client or the command line names
  Class,    \* what each of them is
  Mounts,   \* mount points
  Over,     \* those of them that are the directory of the file or above it
  Cwd,      \* the directory that the server was launched from
  Root,     \* the mount point /workspace
  Overlay   \* the overlay of the session

ASSUME BindsAssumption ==
  /\ Class \in [Hosts -> {"user", "elsewhere", "home", "hidden", "system", "others",
                          "data", "file", "missing"}]
  /\ Over \subseteq Mounts /\ Root \in Over
  /\ Cwd \in Hosts /\ Overlay \notin Hosts

\* A HostBind.
Bind(h, m, mode) == [host |-> h, mount |-> m, mode |-> mode]
HostBinds == {Bind(h, m, mode) : h \in Hosts, m \in Mounts, mode \in {"ro", "rw"}}

\* validate_host_bind accepts directories of the user that are not hidden, and those
\* outside of the homes and the system.
Valid(b) == Class[b.host] \in {"user", "elsewhere"}

\* get_session_binds: the defaults, of those with the same mount point the first one.
\* A set of one.
Seeded(defaults) ==
  LET kept == {i \in 1 .. Len(defaults) :
                 \A j \in 1 .. i - 1 : defaults[j].mount # defaults[i].mount}
      InOrder == {f \in [1 .. Cardinality(kept) -> kept] :
                    \A j, k \in DOMAIN f : j < k => f[j] < f[k]}
  IN  {[k \in DOMAIN f |-> defaults[f[k]]] : f \in InOrder}

\* main: --bind-cwd comes after the binds that were given, if there is one, and one
\* that is not valid keeps the server from starting.
Defaults(given) ==
  {ds \in {given, Append(given, Bind(Cwd, Root, "rw"))} :
     \A i \in 1 .. Len(ds) : Valid(ds[i])}

\* A place is a directory where the file may lie: that of the overlay, or the one
\* in a host directory that the mount point leads to.
Places == {Overlay} \cup (Hosts \X Over)
PlaceOf(b) == <<b.host, b.mount>>

\* The binds above the file, by position.
Above(binds) == {i \in 1 .. Len(binds) : binds[i].mount \in Over}

\* bwrap mounts them in order, after the overlay: the last one hides the others.
Mounted(binds) ==
  IF Above(binds) = {} THEN Overlay
  ELSE PlaceOf(binds[CHOOSE i \in Above(binds) : \A j \in Above(binds) : j <= i])

ReadOnly(binds) ==
  /\ Above(binds) # {}
  /\ binds[CHOOSE i \in Above(binds) : \A j \in Above(binds) : j <= i].mode = "ro"

\* mutant: /workspace is looked at before the binds
FirstUnderRoot(binds) == 0

\* _bind_host: the first bind that the path is under; 0 if there is none.
First(binds) ==
  IF Above(binds) = {} THEN 0
  ELSE CHOOSE i \in Above(binds) : \A j \in Above(binds) : i <= j

\* mutant: the mode is that of the mount that the sandbox shows
WritableAsMounted(binds) == ~ReadOnly(binds)

\* _host_for: where a redirect of stdout is opened, unless it is denied.
Opened(binds)   == IF First(binds) = 0 THEN Overlay ELSE PlaceOf(binds[First(binds)])
Writable(binds) == First(binds) # 0 => binds[First(binds)].mode # "ro"
===============================================================================
