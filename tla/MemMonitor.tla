----------------------------- MODULE MemMonitor -----------------------------
(***************************************************************************)
(* The memory monitor (serve.cpp, mem_monitor and atomic_triple_buffer).   *)
(* The RPC thread installs configurations, the game thread reads memory as *)
(* the newest one says, once per frame.  Three buffers let the writer      *)
(* prepare a configuration while the reader still uses another; one atomic *)
(* byte holds which buffer is in use and which is next.                    *)
(***************************************************************************)
EXTENDS Integers, FiniteSets

CONSTANTS
  Configs,         \* configurations a client may send
  Invalid,         \* those that fail the size check or validate_config
  Idle,            \* the all-zero configuration: uniqid 0, nothing to read
  MaxSets          \* bound: requests that get as far as prep_write

ASSUME MonitorAssumption ==
  /\ Idle \notin Configs /\ Invalid \subseteq Configs
  /\ MaxSets \in Nat

VARIABLES
  inuse, next,     \* atomic_state_: inuse_buf_idx, next_buf_idx
  configs,         \* configs_
  wpc, wBuf, wCfg, \* RPC thread inside set_config
  rpc, rCfg,       \* game thread inside do_reads; what its sizing pass saw
  sets,            \* history: requests so far
  accepted,        \* history: the configuration accepted last
  hasty            \* history: has a configuration come before a frame picked
                   \* up the one accepted last?

writerVars == <<wpc, wBuf, wCfg>>
readerVars == <<rpc, rCfg>>
monitorVars == <<inuse, next, configs, writerVars, readerVars, sets, accepted,
                 hasty>>

Buffers == 0..2

MonitorInit ==
  /\ inuse = 0 /\ next = 0
  /\ configs = [b \in Buffers |-> Idle]
  /\ wpc = "idle" /\ wBuf = 0 /\ wCfg = Idle
  /\ rpc = "idle" /\ rCfg = Idle
  /\ sets = 0 /\ accepted = Idle /\ hasty = FALSE

-----------------------------------------------------------------------------
(* RPC thread: set_config.  A request of the wrong size is refused before    *)
(* any of this and changes nothing.                                          *)

(* Mutant of the case that both indices are equal: it gives the buffer in    *)
(* use.                                                                      *)
FreeBufferInPlace(i, n) == IF i = n THEN i ELSE 3 - i - n

FreeBuffer(i, n) == IF i = n THEN 2 - i ELSE 3 - i - n

PrepWrite(c) ==
  /\ wpc = "idle" /\ sets < MaxSets
  /\ wBuf' = FreeBuffer(inuse, next)
  /\ wCfg' = c /\ wpc' = "clear"
  /\ sets' = sets + 1
  /\ hasty' = (hasty \/ inuse # next)
  /\ UNCHANGED <<inuse, next, configs, readerVars, accepted>>

ZeroBuffer ==
  /\ wpc = "clear"
  /\ configs' = [configs EXCEPT ![wBuf] = Idle]
  /\ wpc' = "copy"
  /\ UNCHANGED <<inuse, next, wBuf, wCfg, readerVars, sets, accepted, hasty>>

(* Mutant: a refused configuration is posted all the same.                  *)
CopyUnchecked ==
  /\ wpc = "copy"
  /\ configs' = [configs EXCEPT ![wBuf] = wCfg]
  /\ wpc' = "post"
  /\ UNCHANGED <<inuse, next, wBuf, wCfg, readerVars, sets, accepted, hasty>>

(* memcpy, then the checks; a refused configuration stays in the buffer.    *)
Copy ==
  /\ wpc = "copy"
  /\ configs' = [configs EXCEPT ![wBuf] = wCfg]
  /\ wpc' = IF wCfg \in Invalid THEN "idle" ELSE "post"
  /\ UNCHANGED <<inuse, next, wBuf, wCfg, readerVars, sets, accepted, hasty>>

(* post_write: its assertion, then the compare-and-exchange.                *)
PostWrite ==
  /\ wpc = "post"
  /\ IF wBuf # inuse /\ wBuf # next
       THEN /\ next' = wBuf /\ accepted' = wCfg /\ wpc' = "idle"
       ELSE /\ wpc' = "panic" /\ UNCHANGED <<next, accepted>>
  /\ UNCHANGED <<inuse, configs, wBuf, wCfg, readerVars, sets,
                 hasty>>

-----------------------------------------------------------------------------
(* Game thread: do_reads.  write_packet runs its callback twice: once to add *)
(* up the size and once, after any wait for room, to copy the memory.        *)

(* Mutant: the next buffer is not taken into use.                           *)
PrepReadStale ==
  /\ rpc = "idle" /\ rpc' = "size"
  /\ UNCHANGED <<inuse, next, configs, writerVars, rCfg, sets, accepted, hasty>>

(* prep_read and the sizing pass, which looks at a buffer now in use.       *)
PrepRead ==
  /\ rpc = "idle"
  /\ inuse' = next
  /\ rpc' = "size"
  /\ UNCHANGED <<next, configs, writerVars, rCfg, sets, accepted, hasty>>

SizePass ==
  /\ rpc = "size"
  /\ rCfg' = configs[inuse]
  /\ rpc' = IF rCfg' = Idle THEN "idle" ELSE "write"
  /\ UNCHANGED <<inuse, next, configs, writerVars, sets, accepted, hasty>>

WritePass ==
  /\ rpc = "write"
  /\ rpc' = "idle"
  /\ UNCHANGED <<inuse, next, configs, writerVars, rCfg, sets, accepted, hasty>>

MonitorNext ==
  \/ \E c \in Configs \cup {Idle} : PrepWrite(c)
  \/ ZeroBuffer \/ Copy \/ PostWrite
  \/ PrepRead \/ SizePass \/ WritePass

MonitorSpec == MonitorInit /\ [][MonitorNext]_monitorVars

-----------------------------------------------------------------------------
(* Properties.                                                               *)

(* Types, and the assertions of prep_write: both indices stay below 3.      *)
MonitorTypeOK ==
  /\ inuse \in Buffers /\ next \in Buffers /\ wBuf \in Buffers
  /\ configs \in [Buffers -> Configs \cup {Idle}]
  /\ wpc \in {"idle", "clear", "copy", "post", "panic"}
  /\ rpc \in {"idle", "size", "write"}
  /\ wCfg \in Configs \cup {Idle} /\ rCfg \in Configs \cup {Idle}
  /\ accepted \in Configs \cup {Idle} /\ sets \in 0..MaxSets
  /\ hasty \in BOOLEAN

(* Both indices are 1, and the RPC thread writes no other buffer: "2 - i"    *)
(* now gives each request the buffer in use, which post_write refuses.       *)
Jammed == inuse = 1 /\ next = 1 /\ wBuf = 1

(* The assertion of post_write (serve.cpp:243), which panics the game: the  *)
(* buffer the RPC thread wrote is neither in use nor the next one.          *)
PostAssertion == wpc # "panic"

(* It takes a client that sends a configuration before a frame has picked   *)
(* up the last one to make that assertion fail, however the frames fall     *)
(* between the writer's own steps.                                          *)
OnlyHastePanics == Jammed \/ wpc = "panic" => hasty

(* Unless it is jammed, the two passes of write_packet see the same         *)
(* configuration, so the packet has the size that was reserved for it       *)
(* (serve.hpp:97), and no region is read that was not validated.            *)
ConfigStable ==
  ~Jammed => /\ rpc = "write" => configs[inuse] = rCfg
             /\ rpc \in {"size", "write"} => configs[inuse] \notin Invalid

(* The inductive invariant.  The buffer being written is in use or next only *)
(* if it is jammed; whatever else is next was validated and accepted last;   *)
(* and index 1 is given only to a request that came before a frame had       *)
(* picked up the last configuration.                                         *)
MonitorInv ==
  /\ MonitorTypeOK /\ OnlyHastePanics /\ ConfigStable
  /\ wpc \in {"clear", "copy", "post"} =>
       Jammed \/ wBuf \notin {inuse, next}
  /\ wpc = "panic" => Jammed
  /\ wpc = "post" => configs[wBuf] = wCfg /\ wCfg \notin Invalid
  /\ ~Jammed => configs[next] = accepted /\ configs[inuse] \notin Invalid
  /\ accepted \notin Invalid
  /\ \/ inuse = 1 \/ next = 1
     \/ wpc \in {"clear", "copy", "post"} /\ wBuf = 1
     => hasty

(* A frame that begins reads as the configuration accepted last says, unless *)
(* the buffer is jammed.                                                     *)
NewestRead ==
  [][rpc = "idle" /\ rpc' = "size" /\ ~Jammed => configs[inuse'] = accepted]_monitorVars
=============================================================================
