-------------------------------- MODULE Pipe --------------------------------
(***************************************************************************)
(* One pipe of a command line "writer | reader": Pipe and Semaphore        *)
(* (src/src/kernel/pipe.cpp, semaphore.cpp), the file calls that reach     *)
(* them (io.cpp, io_handles.cpp), the writer's Exit (user/rtl.cpp) and the *)
(* shell that closes both ends (user/command_executor.cpp).                *)
(*                                                                         *)
(* A step is what the code does between two points where another thread    *)
(* may come in: P and V run under their semaphore's mutex, push_back and   *)
(* pop_front under the pipe's, the tests of closed_input, closed_output    *)
(* and buffer_pipe.empty() under none.  Write_File holds io_mutex, the one *)
(* mutex of all Write_File calls, from its first to its last step.         *)
(*                                                                         *)
(* The reader is freq, which reads one byte at a time until it gets none   *)
(* and then prints, type, which reads into a larger buffer, prints what it *)
(* got after every read and stops at a read that ends with an end code, or *)
(* echo, which prints and does not read.                                   *)
(***************************************************************************)
EXTENDS Naturals, Sequences
LOCAL INSTANCE SequencesExt

CONSTANTS
    BufferSize,   \* PIPE_BUFFER_SIZE
    Writes,       \* the lengths of the writer's Write_File calls
    EndCodes,     \* which of the bytes written type takes for an end code
    ReadSize,     \* the length of type's buffer
    Readers       \* the programs that may stand on the right

ASSUME PipeAssumption ==
    /\ BufferSize \in Nat \ {0} /\ ReadSize \in Nat \ {0}
    /\ Writes \in Seq(Nat \ {0}) /\ EndCodes \subseteq Nat
    /\ Readers \subseteq {"freq", "type", "echo"} /\ Readers # {}

VARIABLES
    reader,         \* the program on the right
    buffer_pipe,    \* std::list<char>; the n-th byte written is the number n
    closed_input, closed_output,
    producer, consumer,   \* the semaphores: value and waiting
    io_mutex,       \* who holds it, or "none"
    handles,        \* the ends of the pipe still in the table of handles
    pc,             \* where the writer, the reader and the shell are
    calls,          \* the Write_File calls made so far
    produced,       \* what the current call has written
    written,        \* history: what all calls have written
    consumed,       \* what the reader's current call has read
    received,       \* the bytes the reader got
    fault           \* a removed handle was used

flags == <<closed_input, closed_output>>
semaphores == <<producer, consumer>>
counts == <<produced, written>>
pipe_vars == <<reader, buffer_pipe, flags, semaphores, io_mutex, handles, pc,
               calls, counts, consumed, received, fault>>

(* All the bytes that are written.                                         *)
Total == FoldSeq(+, 0, Writes)

Pipe_Init ==
    /\ reader \in Readers
    /\ buffer_pipe = <<>> /\ closed_input = FALSE /\ closed_output = FALSE
    /\ producer = [value |-> BufferSize, waiting |-> 0]
    /\ consumer = [value |-> 0, waiting |-> 0]
    /\ io_mutex = "none" /\ handles = {"write", "read"}
    /\ pc = [writer |-> "idle", reader |-> "idle", shell |-> "wait"]
    /\ calls = 0 /\ produced = 0 /\ written = 0 /\ consumed = 0
    /\ received = <<>> /\ fault = FALSE

-----------------------------------------------------------------------------
(* Mutant: P counts below zero, as other semaphores do.                    *)
After_P_Below_Zero(semaphore) ==
    [value |-> semaphore.value - 1,
     waiting |-> semaphore.waiting + (IF semaphore.value > 0 THEN 0 ELSE 1)]

(* Mutant: V wakes a waiting thread and leaves the token as well.          *)
After_V_Twice(semaphore) ==
    [value |-> semaphore.value + 1,
     waiting |-> IF semaphore.waiting > 0 THEN semaphore.waiting - 1 ELSE 0]

(* Mutant: nobody is notified.                                             *)
Woken_Never(thread, places, next) == places

(* Semaphore: a thread that finds no value counts itself as waiting and    *)
(* sleeps; V hands its token to a waiting thread.  notify_one wakes the    *)
(* thread that sleeps, if any does.                                        *)
After_P(semaphore) == IF semaphore.value > 0
                        THEN [semaphore EXCEPT !.value = @ - 1]
                        ELSE [semaphore EXCEPT !.waiting = @ + 1]

After_V(semaphore) == IF semaphore.waiting > 0
                        THEN [semaphore EXCEPT !.waiting = @ - 1]
                        ELSE [semaphore EXCEPT !.value = @ + 1]

Woken(thread, places, next) ==
    IF places[thread] = "asleep" THEN [places EXCEPT ![thread] = next] ELSE places

At(thread, place) == ~fault /\ pc[thread] = place
Go(thread, place) == pc' = [pc EXCEPT ![thread] = place]

-----------------------------------------------------------------------------
(* The writer: Write_File -> Pipe_Handle::Write -> Produce.                *)

Write_File ==
    /\ At("writer", "idle") /\ calls < Len(Writes) /\ io_mutex = "none"
    /\ io_mutex' = "writer" /\ calls' = calls + 1 /\ produced' = 0
    /\ UNCHANGED written
    /\ Go("writer", "test")
    /\ UNCHANGED <<reader, buffer_pipe, flags, semaphores, handles,
                   consumed, received, fault>>

(* The loop test of Produce, and the return to the caller.                 *)
Produce_Test ==
    /\ At("writer", "test")
    /\ IF produced < Writes[calls] /\ ~closed_input
         THEN Go("writer", "P") /\ UNCHANGED io_mutex
         ELSE Go("writer", "idle") /\ io_mutex' = "none"
    /\ UNCHANGED <<reader, buffer_pipe, flags, semaphores, handles, calls,
                   counts, consumed, received, fault>>

Produce_P ==
    /\ At("writer", "P")
    /\ producer' = After_P(producer)
    /\ Go("writer", IF producer.value > 0 THEN "push" ELSE "asleep")
    /\ UNCHANGED <<reader, buffer_pipe, flags, consumer, io_mutex, handles,
                   calls, counts, consumed, received, fault>>

Produce_Push ==
    /\ At("writer", "push")
    /\ buffer_pipe' = Append(buffer_pipe, written + 1)
    /\ Go("writer", "V")
    /\ UNCHANGED <<reader, flags, semaphores, io_mutex, handles, calls,
                   counts, consumed, received, fault>>

Produce_V ==
    /\ At("writer", "V")
    /\ consumer' = After_V(consumer)
    /\ produced' = produced + 1 /\ written' = written + 1
    /\ pc' = LET moved == [pc EXCEPT !.writer = "test"] IN
             IF consumer.waiting > 0 THEN Woken("reader", moved, "retest") ELSE moved
    /\ UNCHANGED <<reader, buffer_pipe, flags, producer, io_mutex, handles,
                   calls, consumed, received, fault>>

(* rtl Exit: the syscall, which is what the shell waits for, then          *)
(* Close_Handle with 0xFFFF, which looks the handle up and closes the      *)
(* pipe's input: the flag first, notify_one after it.                      *)
Writer_Exit ==
    /\ At("writer", "idle") /\ calls = Len(Writes)
    /\ Go("writer", "close")
    /\ UNCHANGED <<reader, buffer_pipe, flags, semaphores, io_mutex, handles,
                   calls, counts, consumed, received, fault>>

Close(thread, next) ==
    /\ closed_output' = TRUE
    /\ Go(thread, next)
    /\ UNCHANGED <<reader, buffer_pipe, closed_input, semaphores, io_mutex,
                   calls, counts, consumed, received>>

Writer_Close ==
    /\ At("writer", "close")
    /\ \/ /\ "write" \in handles
          /\ Close("writer", "notify")
          /\ UNCHANGED <<handles, fault>>
       \/ /\ "write" \notin handles
          /\ fault' = TRUE
          /\ UNCHANGED <<reader, buffer_pipe, flags, semaphores, io_mutex,
                         handles, pc, calls, counts, consumed, received>>

Notify_One(thread, next) ==
    /\ At(thread, "notify")
    /\ pc' = Woken("reader", [pc EXCEPT ![thread] = next], "retest")
    /\ UNCHANGED <<reader, buffer_pipe, flags, semaphores, io_mutex, handles,
                   calls, counts, consumed, received, fault>>

Writer_Step ==
    \/ Write_File \/ Produce_Test \/ Produce_P \/ Produce_Push \/ Produce_V
    \/ Writer_Exit \/ Writer_Close \/ Notify_One("writer", "done")

-----------------------------------------------------------------------------
(* The reader: Read_File -> Pipe_Handle::Read -> Consume.                  *)

(* Mutant: the end of file is reported as soon as the input is closed.     *)
Drained_When_Closed == closed_output

Drained == closed_output /\ buffer_pipe = <<>>

Length == IF reader = "type" THEN ReadSize ELSE 1

Read_File ==
    /\ At("reader", "idle") /\ reader # "echo"
    /\ consumed' = 0
    /\ Go("reader", "test")
    /\ UNCHANGED <<reader, buffer_pipe, flags, semaphores, io_mutex, handles,
                   calls, counts, received, fault>>

Echo_Start ==
    /\ At("reader", "idle") /\ reader = "echo"
    /\ Go("reader", "last")
    /\ UNCHANGED <<reader, buffer_pipe, flags, semaphores, io_mutex, handles,
                   calls, counts, consumed, received, fault>>

(* type has got an end code, the last byte of what it has read.            *)
Stops == reader = "type" /\ received # <<>> /\ received[Len(received)] \in EndCodes

(* Consume is back in the program, which goes on until it gets no byte, or *)
(* no other than an end code.                                              *)
Returned == IF consumed = 0 \/ (Stops /\ consumed = 1) THEN "last"
            ELSE IF reader = "type" THEN "output" ELSE "idle"

Consume_Test ==
    /\ At("reader", "test")
    /\ Go("reader", IF consumed < Length /\ ~Drained THEN "P" ELSE Returned)
    /\ UNCHANGED <<reader, buffer_pipe, flags, semaphores, io_mutex, handles,
                   calls, counts, consumed, received, fault>>

Consume_P ==
    /\ At("reader", "P")
    /\ consumer' = After_P(consumer)
    /\ Go("reader", IF consumer.value > 0 THEN "retest" ELSE "asleep")
    /\ UNCHANGED <<reader, buffer_pipe, flags, producer, io_mutex, handles,
                   calls, counts, consumed, received, fault>>

(* Mutant: the second test is left out.                                    *)
Consume_Retest_Skipped ==
    /\ At("reader", "retest") /\ Go("reader", "pop")
    /\ UNCHANGED <<reader, buffer_pipe, flags, semaphores, io_mutex, handles,
                   calls, counts, consumed, received, fault>>

Consume_Retest ==
    /\ At("reader", "retest")
    /\ Go("reader", IF Drained THEN Returned ELSE "pop")
    /\ UNCHANGED <<reader, buffer_pipe, flags, semaphores, io_mutex, handles,
                   calls, counts, consumed, received, fault>>

(* front() and pop_front() of an empty list are undefined: PopFindsByte    *)
(* says that it does not come to that.                                     *)
Consume_Pop ==
    /\ At("reader", "pop") /\ buffer_pipe # <<>>
    /\ received' = Append(received, Head(buffer_pipe))
    /\ buffer_pipe' = Tail(buffer_pipe)
    /\ Go("reader", "V")
    /\ UNCHANGED <<reader, flags, semaphores, io_mutex, handles, calls, counts,
                   consumed, fault>>

Consume_V ==
    /\ At("reader", "V")
    /\ producer' = After_V(producer)
    /\ consumed' = consumed + 1
    /\ pc' = LET moved == [pc EXCEPT !.reader = "test"] IN
             IF producer.waiting > 0 THEN Woken("writer", moved, "push") ELSE moved
    /\ UNCHANGED <<reader, buffer_pipe, flags, consumer, io_mutex, handles,
                   calls, counts, received, fault>>

(* The reader's own Write_File, to the console: it never waits for         *)
(* anything but io_mutex.  freq and echo print once more and exit, type    *)
(* just exits: after an output, too, when it has got an end code.          *)
Printing == \/ pc.reader = "output"
            \/ pc.reader = "last" /\ reader # "type"

Reader_Output ==
    /\ ~fault /\ pc.reader \in {"output", "last"}
    /\ Printing => io_mutex = "none"
    /\ Go("reader", IF pc.reader = "last" THEN "done"
                    ELSE IF Stops THEN "last" ELSE "idle")
    /\ UNCHANGED <<reader, buffer_pipe, flags, semaphores, io_mutex, handles,
                   calls, counts, consumed, received, fault>>

Reader_Step ==
    \/ Read_File \/ Echo_Start \/ Consume_Test \/ Consume_P \/ Consume_Retest
    \/ Consume_Pop \/ Consume_V \/ Reader_Output

-----------------------------------------------------------------------------
(* The shell waits for both programs, then closes and removes the writing  *)
(* and the reading end.  The programs have exited for it once they have    *)
(* made the Exit call.                                                     *)

(* Mutant: the shell goes on when the first program has exited.            *)
Shell_Close_Write_Early ==
    /\ At("shell", "wait") /\ pc.writer \in {"close", "notify", "done"}
    /\ Close("shell", "notify")
    /\ handles' = handles \ {"write"}
    /\ UNCHANGED fault

Shell_Close_Write ==
    /\ At("shell", "wait")
    /\ pc.writer \in {"close", "notify", "done"} /\ pc.reader = "done"
    /\ Close("shell", "notify")
    /\ handles' = handles \ {"write"}
    /\ UNCHANGED fault

Shell_Close_Read ==
    /\ At("shell", "close_read")
    /\ closed_input' = TRUE
    /\ handles' = handles \ {"read"}
    /\ Go("shell", "done")
    /\ UNCHANGED <<reader, buffer_pipe, closed_output, semaphores, io_mutex,
                   calls, counts, consumed, received, fault>>

Shell_Step == Shell_Close_Write \/ Notify_One("shell", "close_read") \/ Shell_Close_Read

Pipe_Next == Writer_Step \/ Reader_Step \/ Shell_Step

(* Each of the three is a thread of its own, and the operating system runs *)
(* all of them.                                                            *)
Pipe_Fairness == /\ WF_pipe_vars(Writer_Step)
                 /\ WF_pipe_vars(Reader_Step)
                 /\ WF_pipe_vars(Shell_Step)

Pipe_Spec == Pipe_Init /\ [][Pipe_Next]_pipe_vars /\ Pipe_Fairness

-----------------------------------------------------------------------------
(* Properties.                                                             *)

PipeTypeOK ==
    /\ reader \in Readers
    /\ buffer_pipe \in Seq(Nat) /\ received \in Seq(Nat)
    /\ closed_input \in BOOLEAN /\ closed_output \in BOOLEAN /\ fault \in BOOLEAN
    /\ producer \in [value : Nat, waiting : Nat]
    /\ consumer \in [value : Nat, waiting : Nat]
    /\ io_mutex \in {"none", "writer"} /\ handles \subseteq {"write", "read"}
    /\ calls \in 0 .. Len(Writes) /\ produced \in Nat /\ written \in Nat /\ consumed \in Nat

(* The pipe is a bounded queue: Pipe implements Channel.  Sent is what     *)
(* Produce has counted, or is about to.                                    *)
Holds(thread, places) == IF pc[thread] \in places THEN 1 ELSE 0

Sent == written + Holds("writer", {"V"})

Ideal == INSTANCE Channel WITH
    Capacity <- BufferSize,
    sent <- [n \in 1 .. Sent |-> n],
    closed <- closed_output,
    ended <- pc.reader \in {"last", "done"} /\ reader # "echo" /\ ~Stops

ImplementsChannel == Ideal!Channel_Spec

(* Tokens are neither lost nor invented: what the two semaphores hold, the *)
(* tokens under way and the bytes in the list always add up, so a full     *)
(* pipe blocks the writer and an empty one the reader, until the input is  *)
(* closed under a sleeping reader.                                         *)
TokensKept ==
    ~closed_output =>
        /\ producer.value + Len(buffer_pipe) + Holds("writer", {"push"})
             + Holds("reader", {"V"}) = BufferSize
        /\ consumer.value + Holds("writer", {"V"}) + Holds("reader", {"retest", "pop"})
             = Len(buffer_pipe)

(* A reader that got past its semaphore and its second test finds a byte,  *)
(* although Close wakes it without a token.                                *)
PopFindsByte == pc.reader = "pop" => buffer_pipe # <<>>

(* The writer's Close_Handle, which comes after the Exit that the shell    *)
(* waits for, still finds its handle, unless the reader is echo or type at *)
(* an end code: any other reader ends only after it.                       *)
FaultOnlyByQuitters == fault => reader = "echo" \/ Stops

(* Every byte written is read in the end by a reader that goes on reading. *)
BytesArrive ==
    \A n \in 1 .. Total :
        (Sent >= n /\ reader = "freq") ~> Len(received) >= n

(* freq prints its table when its input has ended (dokumentace.pdf, the    *)
(* assignment: it reads stdin and builds a table, which it then prints).   *)
FreqPrints == (pc.writer = "done" /\ reader = "freq") ~> pc.reader = "done"

(* Write_File writes the caller's bytes (api.h:44): it does not have to    *)
(* wait for a write to another file that waits for the caller to read.     *)
OutputNotBlocked == ~(Printing /\ pc.writer = "asleep")
=============================================================================
