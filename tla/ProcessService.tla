--------------------------- MODULE ProcessService ---------------------------
(***************************************************************************)
(* What the reference count of libshaderc_util::GlslangInitializer         *)
(* promises, without any of its locks: glslang's process-wide state is a   *)
(* service that is up while it has members (the initializers held by       *)
(* compilers), that is started before the first member counts on it, and   *)
(* that is stopped only when nobody is a member and nobody is inside a     *)
(* compilation.  GlslangInitializer.tla implements this specification.     *)
(***************************************************************************)
CONSTANTS Members, \* the initializers, one per shaderc_compiler
          Users    \* the threads that may be inside a compilation

VARIABLES up,      \* glslang is initialised
          members, \* the initializers that have counted themselves in
          users    \* the threads that rely on glslang's shared tables

svars == <<up, members, users>>

SInit == up = FALSE /\ members = {} /\ users = {}

(* The first initializer brings the service up before it joins.            *)
Start == ~up /\ members = {} /\ up' = TRUE /\ UNCHANGED <<members, users>>

(* A member joins a running service, never a stopped one.                  *)
Join(m) == /\ up
           /\ m \notin members
           /\ members' = members \cup {m}
           /\ UNCHANGED <<up, users>>

Leave(m) == /\ m \in members
            /\ members' = members \ {m}
            /\ UNCHANGED <<up, users>>

(* Nobody may be relying on the tables when the service goes down.         *)
Stop == /\ up
        /\ members = {}
        /\ users = {}
        /\ up' = FALSE
        /\ UNCHANGED <<members, users>>

(* A compilation relies on the service only while some member keeps it up. *)
Enter(u) == /\ up
            /\ members # {}
            /\ u \notin users
            /\ users' = users \cup {u}
            /\ UNCHANGED <<up, members>>

Exit(u) == u \in users /\ users' = users \ {u} /\ UNCHANGED <<up, members>>

SNext == \/ Start
         \/ Stop
         \/ \E m \in Members : Join(m) \/ Leave(m)
         \/ \E u \in Users : Enter(u) \/ Exit(u)

SSpec == SInit /\ [][SNext]_svars

(* An unused service does not stay up: it is stopped, or joined again.     *)
SFairSpec == SSpec /\ WF_svars(Stop)
=============================================================================
