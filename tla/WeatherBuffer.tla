---------------------------- MODULE WeatherBuffer ---------------------------
(***************************************************************************)
(* Hw04: the weather client collects the answer of the service in a        *)
(* buffer.  libcurl hands it over in chunks, to write_data, which makes    *)
(* the buffer longer by a fixed step when it is full, however long the     *)
(* chunk is; then the answer is parsed.                                    *)
(***************************************************************************)
EXTENDS Integers

CONSTANTS
    BUFFER_SIZE,
    Pointer,       \* sizeof(data.data), by which calloc multiplies
    MaxChunk,      \* the longest chunk: 16384 bytes for libcurl
    MaxAnswer      \* bound on the length of the answer

ASSUME SizesAssumption ==
    /\ BUFFER_SIZE \in Nat \ {0} /\ Pointer \in Nat \ {0}
    /\ MaxChunk \in Nat /\ MaxAnswer \in Nat

VARIABLES
    size,        \* data.size
    capacity,    \* data.capacity
    allocated,   \* the length of the block data.data points to
    received,    \* history: the bytes taken over, without the last NUL
    newest,      \* history: how many of them came with the last chunk
    transfer     \* how curl_easy_perform stands

buffer == <<size, capacity, allocated, received, newest, transfer>>

BufferInit ==
    /\ size = 0 /\ capacity = BUFFER_SIZE
    /\ allocated = Pointer * BUFFER_SIZE
    /\ received = 0 /\ newest = 0 /\ transfer = "running"

-----------------------------------------------------------------------------
(* Seeded faults, not part of the program.                                 *)

(* The buffer grows when not even the chunk fits.                          *)
FullLate(n) == size + n > capacity

-----------------------------------------------------------------------------

Full(n) == size + n >= capacity

(* memcpy and the NUL may run over the end of the block, past which        *)
(* nothing is known of what the program does.                              *)
Chunk(n) ==
    /\ transfer = "running" /\ size + n <= MaxAnswer
    /\ size' = size + n /\ received' = received + n /\ newest' = n
    /\ IF Full(n)
       THEN capacity' = capacity + BUFFER_SIZE /\ allocated' = capacity + BUFFER_SIZE
       ELSE UNCHANGED <<capacity, allocated>>
    /\ transfer' = IF received' < allocated' THEN transfer ELSE "overrun"

(* realloc fails, after data.size was changed: libcurl is told that less   *)
(* was taken, and ends the transfer.                                       *)
ChunkRefused(n) ==
    /\ transfer = "running" /\ size + n <= MaxAnswer /\ Full(n)
    /\ size' = size + n
    /\ transfer' = "failed"
    /\ UNCHANGED <<capacity, allocated, received, newest>>

(* The answer is parsed if the transfer came to its end.                   *)
Perform ==
    /\ transfer = "running"
    /\ transfer' \in {"done", "failed"}
    /\ UNCHANGED <<size, capacity, allocated, received, newest>>

BufferNext ==
    \/ \E n \in 0..MaxChunk : Chunk(n) \/ ChunkRefused(n)
    \/ Perform
    \/ transfer # "running" /\ UNCHANGED buffer

BufferSpec == BufferInit /\ [][BufferNext]_buffer

-----------------------------------------------------------------------------
(* Properties.                                                             *)

(* Chunk after chunk, what has been received lies in the buffer with the   *)
(* NUL behind it, although realloc may make the first block, which is      *)
(* longer than its capacity says, shorter; and what is parsed is all that  *)
(* was received.  Only a chunk that is itself longer than BUFFER_SIZE, the *)
(* step by which the buffer grows, can run over its end.                   *)
BufferHolds ==
    /\ IF transfer = "overrun" THEN newest > BUFFER_SIZE ELSE received < allocated
    /\ transfer = "done" => size = received

=============================================================================
