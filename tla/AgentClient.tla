----------------------------- MODULE AgentClient -----------------------------
(***************************************************************************)
(* The client side of the agent protocol, src/src/agent/agent_interface.c: *)
(* agent_connect allocates the agent structure, creates the pipes in and   *)
(* out, looks up the agent executable, forks; the child rewires its stdin  *)
(* and stdout to the pipes and execs the agent (on failure it sends an     *)
(* INIT frame with INIT_EMERGENCY itself); the parent closes the child's   *)
(* ends, waits for the first frame and accepts the connection only on an   *)
(* INIT frame with status 0.  agent_disconnect closes both descriptors and *)
(* frees the structure.                                                    *)
(*                                                                         *)
(* The agent itself and agent_wait / agent_hdr_recv are not under src/:    *)
(* they are modelled from spec 4.12 and 5 (the agent answers with an INIT  *)
(* frame, exits on a broken pipe; a frame wait times out after ~5 s).  A   *)
(* frame is its type and status; the other header fields are left out.     *)
(***************************************************************************)
EXTENDS Naturals, Sequences

(* Client descriptors: the two ends of each pipe, named from the parent.   *)
Fds == {"in0", "in1", "out0", "out1"}

(* Statuses a correctly installed agent may report in its INIT frame.      *)
InitStatus == {"OK", "INIT_CONFIGURATION", "INIT_PRIVILEGES", "INIT_EXECUTABLE"}

VARIABLES
    cpc,        \* client: where agent_connect / agent_disconnect is
    ret,        \* agent_connect's return value once cpc is "failed"/"connected"
    allocated,  \* the agent structure a is allocated
    fds,        \* client descriptors open
    child,      \* the forked process: "none", "setup", "agent", "exited", "reaped"
    pipe,       \* frames in the pipe from the child to the client
    sent        \* history: the first frame the child sent, or NoFrame

vars == <<cpc, ret, allocated, fds, child, pipe, sent>>

Frame == [type : {"INIT", "other"}, status : InitStatus \cup {"INIT_EMERGENCY"}]
NoFrame == [type |-> "none", status |-> "none"]

(* The write end of the pipe in has no holder any more: reads give EOF.    *)
InEof == "in1" \notin fds /\ child \notin {"setup", "agent"}

(* agent_connect returns ret; cleanup1 closes every descriptor still open  *)
(* and frees a, cleanup frees a.                                           *)
Return(r) == cpc' = "failed" /\ ret' = r
Cleanup1(r) == Return(r) /\ fds' = {} /\ allocated' = FALSE

-----------------------------------------------------------------------------
Init ==
    /\ cpc = "alloc"
    /\ ret = "none"
    /\ allocated = FALSE
    /\ fds = {}
    /\ child = "none"
    /\ pipe = <<>>
    /\ sent = NoFrame

(* malloc: AGENT_ERR_MEMORY on failure.                                    *)
Alloc ==
    /\ cpc = "alloc"
    /\ \/ Return("ERR_MEMORY") /\ UNCHANGED allocated
       \/ cpc' = "pipes" /\ allocated' = TRUE /\ UNCHANGED ret
    /\ UNCHANGED <<fds, child, pipe, sent>>

(* pipe(in) fails: goto cleanup with ret still 1; pipe(out) fails: goto    *)
(* cleanup1.                                                               *)
Pipes ==
    /\ cpc = "pipes"
    /\ \/ Return("1") /\ allocated' = FALSE /\ UNCHANGED fds
       \/ Cleanup1("1")
       \/ cpc' = "lookup" /\ fds' = Fds /\ UNCHANGED <<ret, allocated>>
    /\ UNCHANGED <<child, pipe, sent>>

(* _get_agent_executable finds no usable file: return at once.             *)
Lookup ==
    /\ cpc = "lookup"
    /\ \/ Return("ERR_INIT_EXECUTABLE")
       \/ cpc' = "fork" /\ UNCHANGED ret
    /\ UNCHANGED <<allocated, fds, child, pipe, sent>>

(* a->pid = fork(); -1 is not checked: the parent goes on without a child. *)
Fork ==
    /\ cpc = "fork"
    /\ cpc' = "close_ends"
    /\ child' \in {"setup", "none"}
    /\ UNCHANGED <<ret, allocated, fds, pipe, sent>>

(* Close not our ends of pipes: in[1] and out[0].                          *)
CloseEnds ==
    /\ cpc = "close_ends"
    /\ cpc' = "wait"
    /\ fds' = fds \ {"in1", "out0"}
    /\ UNCHANGED <<ret, allocated, child, pipe, sent>>

(* agent_wait: a frame or EOF is ready (0); the timeout with nothing to    *)
(* read: AGENT_ERR_SERVER_INIT via cleanup1.                               *)
Wait ==
    /\ cpc = "wait"
    /\ \/ /\ pipe # <<>> \/ InEof
          /\ cpc' = "recv" /\ UNCHANGED <<ret, allocated, fds>>
       \/ /\ pipe = <<>> /\ ~InEof
          /\ Cleanup1("ERR_SERVER_INIT")
    /\ UNCHANGED <<child, pipe, sent>>

(* Mutant: the header type is not checked.                                 *)
RecvNoTypeCheck ==
    /\ cpc = "recv"
    /\ \/ /\ pipe = <<>>
          /\ Cleanup1("ERR_DISCONNECT")
          /\ child' \in IF child = "exited" THEN {"exited", "reaped"} ELSE {child}
          /\ UNCHANGED pipe
       \/ /\ pipe # <<>>
          /\ pipe' = Tail(pipe)
          /\ UNCHANGED child
          /\ LET f == Head(pipe) IN
             \/ /\ f.status = "INIT_EMERGENCY" /\ Cleanup1("ERR_SERVER_INIT")
             \/ /\ f.status \notin {"OK", "INIT_EMERGENCY"} /\ Cleanup1(f.status)
             \/ /\ f.status = "OK"
                /\ cpc' = "connected" /\ ret' = "OK"
                /\ UNCHANGED <<allocated, fds>>
    /\ UNCHANGED sent

(* agent_hdr_recv: with nothing to read (the child died without a frame)   *)
(* it fails, and one waitpid(WNOHANG) may reap the child.  Otherwise the   *)
(* frame is checked: a type other than INIT is AGENT_ERR_SERVER_INIT, so   *)
(* is INIT_EMERGENCY; another non-zero status is returned as it is; 0      *)
(* connects, *a_out = a.                                                   *)
Recv ==
    /\ cpc = "recv"
    /\ \/ /\ pipe = <<>>
          /\ Cleanup1("ERR_DISCONNECT")
          /\ child' \in IF child = "exited" THEN {"exited", "reaped"} ELSE {child}
          /\ UNCHANGED pipe
       \/ /\ pipe # <<>>
          /\ pipe' = Tail(pipe)
          /\ UNCHANGED child
          /\ LET f == Head(pipe) IN
             \/ /\ f.type # "INIT" /\ Cleanup1("ERR_SERVER_INIT")
             \/ /\ f.type = "INIT" /\ f.status = "INIT_EMERGENCY"
                /\ Cleanup1("ERR_SERVER_INIT")
             \/ /\ f.type = "INIT" /\ f.status \notin {"OK", "INIT_EMERGENCY"}
                /\ Cleanup1(f.status)
             \/ /\ f.type = "INIT" /\ f.status = "OK"
                /\ cpc' = "connected" /\ ret' = "OK"
                /\ UNCHANGED <<allocated, fds>>
    /\ UNCHANGED sent

(* agent_disconnect: close a->in and a->out, free a; no wait for the agent. *)
Disconnect ==
    /\ cpc = "connected"
    /\ cpc' = "disconnected"
    /\ fds' = {}
    /\ allocated' = FALSE
    /\ UNCHANGED <<ret, child, pipe, sent>>

-----------------------------------------------------------------------------
(* The child: closing in[0], out[1], 0, 1, 2 or a dup fails (exit 2, 6,   *)
(* 7); or execl runs the executable; or execl fails and the child sends   *)
(* INIT / INIT_EMERGENCY itself (exit 5, or exit 4 if the send fails).     *)
ChildSetup ==
    /\ child = "setup"
    /\ \/ child' = "exited" /\ UNCHANGED <<pipe, sent>>
       \/ child' = "agent" /\ UNCHANGED <<pipe, sent>>
       \/ LET f == [type |-> "INIT", status |-> "INIT_EMERGENCY"] IN
          child' = "exited" /\ pipe' = Append(pipe, f) /\ sent' = f
    /\ UNCHANGED <<cpc, ret, allocated, fds>>

(* The executed program (spec 4.12): the agent sends its INIT frame with   *)
(* the configuration check's status; a wrong executable may write anything *)
(* else.                                                                   *)
AgentStart ==
    /\ child = "agent" /\ sent = NoFrame
    /\ \E f \in Frame \ {[type |-> "INIT", status |-> "INIT_EMERGENCY"]} :
            pipe' = Append(pipe, f) /\ sent' = f
    /\ UNCHANGED <<cpc, ret, allocated, fds, child>>

(* The executed program dies at any point, before or after its first frame *)
(* (a wrong executable, a crash, a refused configuration).                 *)
AgentDies ==
    /\ child = "agent"
    /\ child' = "exited"
    /\ UNCHANGED <<cpc, ret, allocated, fds, pipe, sent>>

(* Spec 5: a broken pipe tears the agent down: once the client closed out, *)
(* the agent reads EOF and exits.                                          *)
AgentEof ==
    /\ child = "agent" /\ "out1" \notin fds
    /\ child' = "exited"
    /\ UNCHANGED <<cpc, ret, allocated, fds, pipe, sent>>

(* Nothing is left to do: the client returned and the child is gone or     *)
(* hangs.                                                                  *)
Finished ==
    /\ cpc \in {"failed", "disconnected"}
    /\ UNCHANGED vars

Client == Alloc \/ Pipes \/ Lookup \/ Fork \/ CloseEnds \/ Wait \/ Recv \/ Disconnect
Agent == ChildSetup \/ AgentStart \/ AgentDies \/ AgentEof

Next == Client \/ Agent \/ Finished

Spec == Init /\ [][Next]_vars

-----------------------------------------------------------------------------
TypeOK ==
    /\ fds \subseteq Fds
    /\ allocated \in BOOLEAN
    /\ child \in {"none", "setup", "agent", "exited", "reaped"}
    /\ pipe \in Seq(Frame) /\ Len(pipe) <= 1

(* Spec 4.12 (startup handshake): agent_connect hands out a connection     *)
(* only after the executed program sent an INIT frame with status OK; any  *)
(* other first frame, an emergency frame of a failed execl, or no frame at *)
(* all makes it fail.                                                      *)
ConnectedOnlyAfterInitOK ==
    cpc = "connected" => sent = [type |-> "INIT", status |-> "OK"]

(* A failed agent_connect leaves nothing behind: the comment of the        *)
(* cleanup labels and spec 7 (every failure path releases what it took):   *)
(* no descriptor of the pipes is open and the structure is freed.          *)
NoLeakOnError ==
    cpc = "failed" => fds = {} /\ ~allocated

=============================================================================
