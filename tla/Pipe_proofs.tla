----------------------------- MODULE Pipe_proofs -----------------------------
(***************************************************************************)
(* Proofs about one pipe of a command line, for every size of the pipe and *)
(* of type's buffer and every sequence of Write_File calls.                *)
(***************************************************************************)
EXTENDS Pipe, SequenceTheorems, TLAPS

USE PipeAssumption

-----------------------------------------------------------------------------
(* The inductive invariant.                                                *)

(* Each thread is at one of its own places.                                *)
Placed ==
    pc \in [writer : {"idle", "test", "P", "asleep", "push", "V", "close", "notify", "done"},
            reader : {"idle", "test", "P", "asleep", "retest", "pop", "V",
                      "output", "last", "done"},
            shell : {"wait", "notify", "close_read", "done"}]

(* A semaphore counts those who sleep in it, and has no value for them; an *)
(* input that is closed wakes the reader and leaves it counted.            *)
SleepersCounted ==
    /\ producer.waiting = Holds("writer", {"asleep"})
    /\ producer.waiting > 0 => producer.value = 0
    /\ ~closed_output => /\ consumer.waiting = Holds("reader", {"asleep"})
                         /\ consumer.waiting > 0 => consumer.value = 0

(* The numbers of the bytes are those of the order they were written in.   *)
InOrder ==
    /\ Len(received) + Len(buffer_pipe) = Sent
    /\ \A n \in 1 .. Len(received) : received[n] = n
    /\ \A n \in 1 .. Len(buffer_pipe) : buffer_pipe[n] = Len(received) + n

(* A reader that does not wait for the end of its input.                   *)
Quits == reader = "echo" \/ Stops

(* Who is how far when the input is closed: the shell closes it only after *)
(* both programs have exited, and a reader that reads to the end ends only *)
(* after it.                                                               *)
ClosedInTime ==
    /\ closed_output <=> pc.writer \in {"notify", "done"} \/ pc.shell # "wait"
    /\ pc.shell # "wait" => pc.writer \in {"close", "notify", "done"} /\ pc.reader = "done"
    /\ "write" \notin handles => pc.shell # "wait"
    /\ ~Quits => /\ pc.reader \in {"last", "done"} => closed_output /\ buffer_pipe = <<>>
                 /\ pc.shell # "wait" => pc.writer \in {"notify", "done"}

PipeIInv == /\ PipeTypeOK /\ Placed
            /\ SleepersCounted /\ TokensKept /\ PopFindsByte /\ InOrder
            /\ ClosedInTime /\ FaultOnlyByQuitters

-----------------------------------------------------------------------------
(* The operations on semaphores and lists.                                 *)

LEMMA SemaphoreSteps ==
    ASSUME NEW s \in [value : Nat, waiting : Nat]
    PROVE  /\ After_P(s) \in [value : Nat, waiting : Nat]
           /\ After_V(s) \in [value : Nat, waiting : Nat]
           /\ s.value > 0 => /\ After_P(s).value = s.value - 1
                             /\ After_P(s).waiting = s.waiting
           /\ s.value = 0 => /\ After_P(s).value = 0
                             /\ After_P(s).waiting = s.waiting + 1
           /\ s.waiting > 0 => /\ After_V(s).value = s.value
                               /\ After_V(s).waiting = s.waiting - 1
           /\ s.waiting = 0 => /\ After_V(s).value = s.value + 1
                               /\ After_V(s).waiting = 0
<1>1. s.value \in Nat /\ s.waiting \in Nat
  OBVIOUS
<1>2. After_P(s) \in [value : Nat, waiting : Nat]
  BY <1>1 DEF After_P
<1>3. After_V(s) \in [value : Nat, waiting : Nat]
  BY <1>1 DEF After_V
<1>4. /\ s.value > 0 => After_P(s).value = s.value - 1 /\ After_P(s).waiting = s.waiting
      /\ s.value = 0 => After_P(s).value = 0 /\ After_P(s).waiting = s.waiting + 1
  BY <1>1 DEF After_P
<1>5. /\ s.waiting > 0 => After_V(s).value = s.value /\ After_V(s).waiting = s.waiting - 1
      /\ s.waiting = 0 => After_V(s).value = s.value + 1 /\ After_V(s).waiting = 0
  BY <1>1 DEF After_V
<1> QED  BY <1>2, <1>3, <1>4, <1>5

LEMMA Pushed ==
    ASSUME NEW list \in Seq(Nat), NEW byte \in Nat
    PROVE  /\ Append(list, byte) \in Seq(Nat) /\ Append(list, byte) # <<>>
           /\ Len(list) \in Nat /\ Len(Append(list, byte)) = Len(list) + 1
           /\ \A n \in 1 .. Len(list) : Append(list, byte)[n] = list[n]
           /\ Append(list, byte)[Len(list) + 1] = byte
<1>1. /\ Append(list, byte) \in Seq(Nat) /\ Append(list, byte) # <<>>
      /\ Len(Append(list, byte)) = Len(list) + 1
      /\ Append(list, byte)[Len(list) + 1] = byte
  <2> DEFINE longer == Append(list, byte)
  <2>1. longer \in Seq(Nat)
    BY AppendProperties
  <2>2. Len(longer) = Len(list) + 1
    BY AppendProperties
  <2>3. longer[Len(list) + 1] = byte
    BY AppendProperties
  <2>4. longer # <<>>
    BY AppendProperties
  <2> QED  BY <2>1, <2>2, <2>3, <2>4
<1>2. Len(list) \in Nat
  OBVIOUS
<1>3. \A n \in 1 .. Len(list) : Append(list, byte)[n] = list[n]
  BY AppendProperties
<1> QED  BY <1>1, <1>2, <1>3

LEMMA Popped ==
    ASSUME NEW list \in Seq(Nat), list # <<>>
    PROVE  /\ Head(list) \in Nat /\ Head(list) = list[1]
           /\ Tail(list) \in Seq(Nat)
           /\ Len(list) \in Nat \ {0} /\ Len(Tail(list)) = Len(list) - 1
           /\ \A n \in 1 .. Len(Tail(list)) : Tail(list)[n] = list[n + 1]
OBVIOUS

-----------------------------------------------------------------------------
(* The steps.  What most of the proofs need of the types.                  *)
LEMMA PipeTypes ==
    ASSUME PipeIInv
    PROVE  /\ producer \in [value : Nat, waiting : Nat]
           /\ consumer \in [value : Nat, waiting : Nat]
           /\ buffer_pipe \in Seq(Nat) /\ received \in Seq(Nat)
           /\ Len(buffer_pipe) \in Nat /\ Len(received) \in Nat
           /\ written \in Nat /\ produced \in Nat /\ consumed \in Nat
           /\ BufferSize \in Nat /\ Len(Writes) \in Nat
BY DEF PipeIInv, PipeTypeOK

LEMMA TokenTypes ==
    ASSUME PipeIInv
    PROVE  /\ producer.value \in Nat /\ producer.waiting \in Nat
           /\ consumer.value \in Nat /\ consumer.waiting \in Nat
           /\ Len(buffer_pipe) \in Nat /\ BufferSize \in Nat
BY PipeTypes

LEMMA PipeParts ==
    ASSUME PipeIInv
    PROVE  SleepersCounted /\ TokensKept /\ PopFindsByte /\ InOrder /\ ClosedInTime
BY DEF PipeIInv

(* The first call of P or the second finds a value, or the thread sleeps.  *)
LEMMA ProducePKeeps == ASSUME PipeIInv, Produce_P  PROVE PipeIInv'
<1>1. /\ pc.writer = "P" /\ pc'.reader = pc.reader /\ pc'.shell = pc.shell
      /\ UNCHANGED <<reader, buffer_pipe, flags, consumer, io_mutex, handles, calls, counts,
                     consumed, received, fault>>
  BY DEF Produce_P, At, Go, PipeIInv, Placed
<1>a. consumer' = consumer /\ buffer_pipe' = buffer_pipe /\ closed_output' = closed_output
  BY <1>1 DEF flags
<1>2. PipeTypeOK' /\ Placed'
  <2>1. producer' \in [value : Nat, waiting : Nat]
    BY PipeTypes, SemaphoreSteps DEF Produce_P
  <2>2. Placed'
    BY DEF Produce_P, Go, PipeIInv, Placed
  <2> QED  BY <1>1, <2>1, <2>2 DEF flags, counts, PipeIInv, PipeTypeOK
<1>3. PopFindsByte' /\ InOrder' /\ ClosedInTime' /\ FaultOnlyByQuitters'
  BY <1>1 DEF Produce_P, Go, flags, counts, PipeIInv, Placed, PopFindsByte, InOrder,
     Sent, Holds,
     ClosedInTime, FaultOnlyByQuitters, Quits, Stops
<1>4. CASE producer.value > 0
  <2>1. producer'.value = producer.value - 1 /\ producer'.waiting = producer.waiting /\ pc'.writer = "push"
    BY <1>4, PipeTypes, SemaphoreSteps DEF Produce_P, Go, PipeIInv, Placed
  <2>2. SleepersCounted'
    BY <1>1, <1>a, <1>4, <2>1, PipeTypes, PipeParts DEF SleepersCounted, Holds
  <2>3. TokensKept'
    <3> SUFFICES ASSUME ~closed_output  PROVE TokensKept'
      BY <1>a DEF TokensKept
    <3>1. SleepersCounted /\ TokensKept /\ ClosedInTime
      BY PipeParts
    <3>5. /\ Holds("writer", {"push"}) = 0 /\ Holds("writer", {"push"})' = 1
          /\ Holds("writer", {"V"}) = 0 /\ Holds("writer", {"V"})' = 0
          /\ Holds("reader", {"V"})' = Holds("reader", {"V"}) /\ Holds("reader", {"V"}) \in {0, 1}
          /\ Holds("reader", {"retest", "pop"})' = Holds("reader", {"retest", "pop"}) /\ Holds("reader", {"retest", "pop"}) \in {0, 1}
      BY <1>1, <2>1 DEF Holds
    <3>6. /\ producer.value + Len(buffer_pipe) + Holds("writer", {"push"}) + Holds("reader", {"V"})
                = BufferSize
          /\ consumer.value + Holds("writer", {"V"}) + Holds("reader", {"retest", "pop"})
                = Len(buffer_pipe)
      BY <3>1 DEF TokensKept
    <3>7. producer'.value + Len(buffer_pipe') + Holds("writer", {"push"})' + Holds("reader", {"V"})'
            = BufferSize
      BY <1>a, <2>1, TokenTypes, <3>5, <3>6
    <3>8. consumer'.value + Holds("writer", {"V"})' + Holds("reader", {"retest", "pop"})'
            = Len(buffer_pipe')
      BY <1>a, <2>1, TokenTypes, <3>5, <3>6
    <3> QED  BY <3>7, <3>8 DEF TokensKept
  <2> QED  BY <1>2, <1>3, <2>2, <2>3 DEF PipeIInv
<1>5. CASE producer.value = 0
  <2>1. producer'.value = 0 /\ producer'.waiting = producer.waiting + 1 /\ pc'.writer = "asleep"
    <3>1. After_P(producer).value = 0 /\ After_P(producer).waiting = producer.waiting + 1
      BY <1>5, PipeTypes, SemaphoreSteps
    <3>2. ~(producer.value > 0)
      BY <1>5
    <3> QED  BY <3>1, <3>2 DEF Produce_P, Go, PipeIInv, Placed
  <2>2. SleepersCounted'
    BY <1>1, <1>a, <1>5, <2>1, PipeTypes, PipeParts DEF SleepersCounted, Holds
  <2>3. TokensKept'
    <3> SUFFICES ASSUME ~closed_output  PROVE TokensKept'
      BY <1>a DEF TokensKept
    <3>1. SleepersCounted /\ TokensKept /\ ClosedInTime
      BY PipeParts
    <3>5. /\ Holds("writer", {"push"}) = 0 /\ Holds("writer", {"push"})' = 0
          /\ Holds("writer", {"V"}) = 0 /\ Holds("writer", {"V"})' = 0
          /\ Holds("reader", {"V"})' = Holds("reader", {"V"}) /\ Holds("reader", {"V"}) \in {0, 1}
          /\ Holds("reader", {"retest", "pop"})' = Holds("reader", {"retest", "pop"}) /\ Holds("reader", {"retest", "pop"}) \in {0, 1}
      BY <1>1, <2>1 DEF Holds
    <3>6. /\ producer.value + Len(buffer_pipe) + Holds("writer", {"push"}) + Holds("reader", {"V"})
                = BufferSize
          /\ consumer.value + Holds("writer", {"V"}) + Holds("reader", {"retest", "pop"})
                = Len(buffer_pipe)
      BY <3>1 DEF TokensKept
    <3>7. producer'.value + Len(buffer_pipe') + Holds("writer", {"push"})' + Holds("reader", {"V"})'
            = BufferSize
      BY <1>a, <1>5, <2>1, TokenTypes, <3>5, <3>6
    <3>8. consumer'.value + Holds("writer", {"V"})' + Holds("reader", {"retest", "pop"})'
            = Len(buffer_pipe')
      BY <1>a, <1>5, <2>1, TokenTypes, <3>5, <3>6
    <3> QED  BY <3>7, <3>8 DEF TokensKept
  <2> QED  BY <1>2, <1>3, <2>2, <2>3 DEF PipeIInv
<1> QED  BY <1>4, <1>5, PipeTypes

LEMMA ConsumePKeeps == ASSUME PipeIInv, Consume_P  PROVE PipeIInv'
<1>1. /\ pc.reader = "P" /\ pc'.writer = pc.writer /\ pc'.shell = pc.shell
      /\ UNCHANGED <<reader, buffer_pipe, flags, producer, io_mutex, handles, calls, counts,
                     consumed, received, fault>>
  BY DEF Consume_P, At, Go, PipeIInv, Placed
<1>a. producer' = producer /\ buffer_pipe' = buffer_pipe /\ closed_output' = closed_output
  BY <1>1 DEF flags
<1>2. PipeTypeOK' /\ Placed'
  <2>1. consumer' \in [value : Nat, waiting : Nat]
    BY PipeTypes, SemaphoreSteps DEF Consume_P
  <2>2. Placed'
    BY DEF Consume_P, Go, PipeIInv, Placed
  <2> QED  BY <1>1, <2>1, <2>2 DEF flags, counts, PipeIInv, PipeTypeOK
<1>3. PopFindsByte' /\ InOrder' /\ ClosedInTime' /\ FaultOnlyByQuitters'
  BY <1>1 DEF Consume_P, Go, flags, counts, PipeIInv, Placed, PopFindsByte, InOrder,
     Sent, Holds,
     ClosedInTime, FaultOnlyByQuitters, Quits, Stops
<1>4. CASE consumer.value > 0
  <2>1. consumer'.value = consumer.value - 1 /\ consumer'.waiting = consumer.waiting /\ pc'.reader = "retest"
    BY <1>4, PipeTypes, SemaphoreSteps DEF Consume_P, Go, PipeIInv, Placed
  <2>2. SleepersCounted'
    BY <1>1, <1>a, <1>4, <2>1, PipeTypes, PipeParts DEF SleepersCounted, Holds
  <2>3. TokensKept'
    <3> SUFFICES ASSUME ~closed_output  PROVE TokensKept'
      BY <1>a DEF TokensKept
    <3>1. SleepersCounted /\ TokensKept /\ ClosedInTime
      BY PipeParts
    <3>5. /\ Holds("writer", {"push"})' = Holds("writer", {"push"}) /\ Holds("writer", {"push"}) \in {0, 1}
          /\ Holds("writer", {"V"})' = Holds("writer", {"V"}) /\ Holds("writer", {"V"}) \in {0, 1}
          /\ Holds("reader", {"V"}) = 0 /\ Holds("reader", {"V"})' = 0
          /\ Holds("reader", {"retest", "pop"}) = 0 /\ Holds("reader", {"retest", "pop"})' = 1
      BY <1>1, <2>1 DEF Holds
    <3>6. /\ producer.value + Len(buffer_pipe) + Holds("writer", {"push"}) + Holds("reader", {"V"})
                = BufferSize
          /\ consumer.value + Holds("writer", {"V"}) + Holds("reader", {"retest", "pop"})
                = Len(buffer_pipe)
      BY <3>1 DEF TokensKept
    <3>7. producer'.value + Len(buffer_pipe') + Holds("writer", {"push"})' + Holds("reader", {"V"})'
            = BufferSize
      BY <1>a, <2>1, TokenTypes, <3>5, <3>6
    <3>8. consumer'.value + Holds("writer", {"V"})' + Holds("reader", {"retest", "pop"})'
            = Len(buffer_pipe')
      BY <1>a, <2>1, TokenTypes, <3>5, <3>6
    <3> QED  BY <3>7, <3>8 DEF TokensKept
  <2> QED  BY <1>2, <1>3, <2>2, <2>3 DEF PipeIInv
<1>5. CASE consumer.value = 0
  <2>1. consumer'.value = 0 /\ consumer'.waiting = consumer.waiting + 1 /\ pc'.reader = "asleep"
    <3>1. After_P(consumer).value = 0 /\ After_P(consumer).waiting = consumer.waiting + 1
      BY <1>5, PipeTypes, SemaphoreSteps
    <3>2. ~(consumer.value > 0)
      BY <1>5
    <3> QED  BY <3>1, <3>2 DEF Consume_P, Go, PipeIInv, Placed
  <2>2. SleepersCounted'
    BY <1>1, <1>a, <1>5, <2>1, PipeTypes, PipeParts DEF SleepersCounted, Holds
  <2>3. TokensKept'
    <3> SUFFICES ASSUME ~closed_output  PROVE TokensKept'
      BY <1>a DEF TokensKept
    <3>1. SleepersCounted /\ TokensKept /\ ClosedInTime
      BY PipeParts
    <3>5. /\ Holds("writer", {"push"})' = Holds("writer", {"push"}) /\ Holds("writer", {"push"}) \in {0, 1}
          /\ Holds("writer", {"V"})' = Holds("writer", {"V"}) /\ Holds("writer", {"V"}) \in {0, 1}
          /\ Holds("reader", {"V"}) = 0 /\ Holds("reader", {"V"})' = 0
          /\ Holds("reader", {"retest", "pop"}) = 0 /\ Holds("reader", {"retest", "pop"})' = 0
      BY <1>1, <2>1 DEF Holds
    <3>6. /\ producer.value + Len(buffer_pipe) + Holds("writer", {"push"}) + Holds("reader", {"V"})
                = BufferSize
          /\ consumer.value + Holds("writer", {"V"}) + Holds("reader", {"retest", "pop"})
                = Len(buffer_pipe)
      BY <3>1 DEF TokensKept
    <3>7. producer'.value + Len(buffer_pipe') + Holds("writer", {"push"})' + Holds("reader", {"V"})'
            = BufferSize
      BY <1>a, <1>5, <2>1, TokenTypes, <3>5, <3>6
    <3>8. consumer'.value + Holds("writer", {"V"})' + Holds("reader", {"retest", "pop"})'
            = Len(buffer_pipe')
      BY <1>a, <1>5, <2>1, TokenTypes, <3>5, <3>6
    <3> QED  BY <3>7, <3>8 DEF TokensKept
  <2> QED  BY <1>2, <1>3, <2>2, <2>3 DEF PipeIInv
<1> QED  BY <1>4, <1>5, PipeTypes

(* V hands its token to the thread that sleeps, or leaves it.              *)
LEMMA ProduceVKeeps == ASSUME PipeIInv, Produce_V  PROVE PipeIInv'
<1>1. /\ pc.writer = "V" /\ pc'.writer = "test" /\ pc'.shell = pc.shell /\ written' = written + 1
      /\ pc'.reader = IF consumer.waiting > 0 /\ pc.reader = "asleep" THEN "retest" ELSE pc.reader
      /\ UNCHANGED <<reader, buffer_pipe, flags, producer, io_mutex, handles, calls, received, fault>>
  BY DEF Produce_V, At, Woken, counts, PipeIInv, Placed
<1>a. producer' = producer /\ buffer_pipe' = buffer_pipe /\ closed_output' = closed_output
  BY <1>1 DEF flags
<1>2. PipeTypeOK' /\ Placed'
  <2>1. consumer' \in [value : Nat, waiting : Nat]
    BY PipeTypes, SemaphoreSteps DEF Produce_V
  <2>2. Placed'
    <3>1. pc' \in [writer : {"test"}, reader : {pc.reader, "retest"}, shell : {pc.shell}]
      BY DEF Produce_V, Woken, PipeIInv, Placed
    <3> QED  BY <3>1 DEF PipeIInv, Placed
  <2>3. produced' \in Nat /\ written' \in Nat
    <3>1. produced' = produced + 1 /\ written' = written + 1
      BY DEF Produce_V
    <3>2. produced \in Nat /\ written \in Nat
      BY PipeTypes
    <3> QED  BY <3>1, <3>2
  <2>4. UNCHANGED <<reader, buffer_pipe, closed_input, closed_output, producer, io_mutex,
                    handles, calls, consumed, received, fault>>
    BY DEF Produce_V, flags
  <2> QED  BY <2>1, <2>2, <2>3, <2>4, PipeTypes DEF PipeIInv, PipeTypeOK
<1>3. PopFindsByte' /\ InOrder'
  <2>1. Sent' = Sent
    BY <1>1, PipeTypes DEF Sent, Holds
  <2>2. received' = received /\ buffer_pipe' = buffer_pipe
    BY <1>1
  <2>3. pc'.reader = "pop" => pc.reader = "pop"
    BY <1>1
  <2> QED  BY <2>1, <2>2, <2>3, PipeParts DEF PopFindsByte, InOrder
<1>4. ClosedInTime' /\ FaultOnlyByQuitters'
  BY <1>1 DEF flags, PipeIInv, Placed, ClosedInTime, FaultOnlyByQuitters, Quits, Stops
<1>5. CASE consumer.waiting > 0
  <2>1. consumer'.value = consumer.value /\ consumer'.waiting = consumer.waiting - 1
    BY <1>5, PipeTypes, SemaphoreSteps DEF Produce_V
  <2>2. SleepersCounted'
    <3>1. SleepersCounted /\ ~closed_output
      BY <1>1, PipeParts DEF ClosedInTime
    <3>2. pc.reader = "asleep" /\ consumer.waiting = 1 /\ consumer.value = 0
      BY <1>5, <3>1, TokenTypes DEF SleepersCounted, Holds
    <3>3. pc'.reader = "retest" /\ consumer'.waiting = 0
      BY <1>1, <1>5, <2>1, <3>2
    <3>4. producer.waiting = 0
      BY <1>1, <3>1 DEF SleepersCounted, Holds
    <3> QED  BY <1>1, <1>a, <3>3, <3>4 DEF SleepersCounted, Holds
  <2>3. TokensKept'
    <3> SUFFICES ASSUME ~closed_output  PROVE TokensKept'
      BY <1>a DEF TokensKept
    <3>1. SleepersCounted /\ TokensKept /\ ClosedInTime
      BY PipeParts
    <3>2. pc.reader = "asleep" /\ pc'.reader = "retest"
      BY <1>1, <1>5, <3>1 DEF SleepersCounted, Holds
    <3>5. /\ Holds("writer", {"push"}) = 0 /\ Holds("writer", {"push"})' = 0
          /\ Holds("writer", {"V"}) = 1 /\ Holds("writer", {"V"})' = 0
          /\ Holds("reader", {"V"}) = 0 /\ Holds("reader", {"V"})' = 0
          /\ Holds("reader", {"retest", "pop"}) = 0 /\ Holds("reader", {"retest", "pop"})' = 1
      BY <1>1, <3>2 DEF Holds
    <3>6. /\ producer.value + Len(buffer_pipe) + Holds("writer", {"push"}) + Holds("reader", {"V"})
                = BufferSize
          /\ consumer.value + Holds("writer", {"V"}) + Holds("reader", {"retest", "pop"})
                = Len(buffer_pipe)
      BY <3>1 DEF TokensKept
    <3>7. producer'.value + Len(buffer_pipe') + Holds("writer", {"push"})' + Holds("reader", {"V"})'
            = BufferSize
      BY <1>a, <2>1, TokenTypes, <3>5, <3>6
    <3>8. consumer'.value + Holds("writer", {"V"})' + Holds("reader", {"retest", "pop"})'
            = Len(buffer_pipe')
      BY <1>a, <2>1, TokenTypes, <3>5, <3>6
    <3> QED  BY <3>7, <3>8 DEF TokensKept
  <2> QED  BY <1>2, <1>3, <1>4, <2>2, <2>3 DEF PipeIInv
<1>6. CASE consumer.waiting = 0
  <2>1. consumer'.value = consumer.value + 1 /\ consumer'.waiting = 0
    BY <1>6, PipeTypes, SemaphoreSteps DEF Produce_V
  <2>2. SleepersCounted'
    <3>1. SleepersCounted
      BY PipeParts
    <3>2. pc'.reader = pc.reader
      BY <1>1, <1>6
    <3>3. Holds("writer", {"asleep"}) = 0 /\ Holds("writer", {"asleep"})' = 0
      BY <1>1 DEF Holds
    <3>4. Holds("reader", {"asleep"})' = Holds("reader", {"asleep"})
      BY <3>2 DEF Holds
    <3>5. producer'.waiting = 0
      BY <1>a, <3>1, <3>3 DEF SleepersCounted
    <3>6. ~closed_output' => Holds("reader", {"asleep"})' = 0
      BY <1>a, <1>6, <3>1, <3>4 DEF SleepersCounted
    <3> QED  BY <2>1, <3>3, <3>5, <3>6 DEF SleepersCounted
  <2>3. TokensKept'
    <3> SUFFICES ASSUME ~closed_output  PROVE TokensKept'
      BY <1>a DEF TokensKept
    <3>1. SleepersCounted /\ TokensKept /\ ClosedInTime
      BY PipeParts
    <3>2. pc'.reader = pc.reader
      BY <1>1, <1>6
    <3>5. /\ Holds("writer", {"push"}) = 0 /\ Holds("writer", {"push"})' = 0
          /\ Holds("writer", {"V"}) = 1 /\ Holds("writer", {"V"})' = 0
          /\ Holds("reader", {"V"})' = Holds("reader", {"V"}) /\ Holds("reader", {"V"}) \in {0, 1}
          /\ Holds("reader", {"retest", "pop"})' = Holds("reader", {"retest", "pop"}) /\ Holds("reader", {"retest", "pop"}) \in {0, 1}
      BY <1>1, <3>2 DEF Holds
    <3>6. /\ producer.value + Len(buffer_pipe) + Holds("writer", {"push"}) + Holds("reader", {"V"})
                = BufferSize
          /\ consumer.value + Holds("writer", {"V"}) + Holds("reader", {"retest", "pop"})
                = Len(buffer_pipe)
      BY <3>1 DEF TokensKept
    <3>7. producer'.value + Len(buffer_pipe') + Holds("writer", {"push"})' + Holds("reader", {"V"})'
            = BufferSize
      BY <1>a, <2>1, TokenTypes, <3>5, <3>6
    <3>8. consumer'.value + Holds("writer", {"V"})' + Holds("reader", {"retest", "pop"})'
            = Len(buffer_pipe')
      BY <1>a, <2>1, TokenTypes, <3>5, <3>6
    <3> QED  BY <3>7, <3>8 DEF TokensKept
  <2> QED  BY <1>2, <1>3, <1>4, <2>2, <2>3 DEF PipeIInv
<1> QED  BY <1>5, <1>6, PipeTypes

LEMMA ConsumeVKeeps == ASSUME PipeIInv, Consume_V  PROVE PipeIInv'
<1>1. /\ pc.reader = "V" /\ pc'.reader = "test" /\ pc'.shell = pc.shell /\ written' = written
      /\ pc'.writer = IF producer.waiting > 0 /\ pc.writer = "asleep" THEN "push" ELSE pc.writer
      /\ UNCHANGED <<reader, buffer_pipe, flags, consumer, io_mutex, handles, calls, received, fault>>
  BY DEF Consume_V, At, Woken, counts, PipeIInv, Placed
<1>a. consumer' = consumer /\ buffer_pipe' = buffer_pipe /\ closed_output' = closed_output
  BY <1>1 DEF flags
<1>2. PipeTypeOK' /\ Placed'
  <2>1. producer' \in [value : Nat, waiting : Nat]
    BY PipeTypes, SemaphoreSteps DEF Consume_V
  <2>2. Placed'
    <3>1. pc' \in [writer : {pc.writer, "push"}, reader : {"test"}, shell : {pc.shell}]
      BY DEF Consume_V, Woken, PipeIInv, Placed
    <3> QED  BY <3>1 DEF PipeIInv, Placed
  <2>3. consumed' \in Nat
    <3>1. consumed' = consumed + 1
      BY DEF Consume_V
    <3> QED  BY <3>1, PipeTypes
  <2>4. UNCHANGED <<reader, buffer_pipe, closed_input, closed_output, consumer, io_mutex,
                    handles, calls, produced, written, received, fault>>
    BY DEF Consume_V, flags, counts
  <2> QED  BY <2>1, <2>2, <2>3, <2>4, PipeTypes DEF PipeIInv, PipeTypeOK
<1>3. PopFindsByte' /\ InOrder'
  BY <1>1, PipeTypes DEF flags, counts, PipeIInv, PopFindsByte, InOrder, Sent, Holds
<1>4. ClosedInTime' /\ FaultOnlyByQuitters'
  BY <1>1 DEF flags, PipeIInv, Placed, ClosedInTime, FaultOnlyByQuitters, Quits, Stops
<1>5. CASE producer.waiting > 0
  <2>1. producer'.value = producer.value /\ producer'.waiting = producer.waiting - 1
    BY <1>5, PipeTypes, SemaphoreSteps DEF Consume_V
  <2>2. SleepersCounted'
    BY <1>1, <1>a, <1>5, <2>1, PipeTypes, PipeParts
       DEF SleepersCounted, Holds, ClosedInTime
  <2>3. TokensKept'
    <3> SUFFICES ASSUME ~closed_output  PROVE TokensKept'
      BY <1>a DEF TokensKept
    <3>1. SleepersCounted /\ TokensKept /\ ClosedInTime
      BY PipeParts
    <3>2. pc.writer = "asleep" /\ pc'.writer = "push"
      BY <1>1, <1>5, <3>1 DEF SleepersCounted, Holds
    <3>5. /\ Holds("writer", {"push"}) = 0 /\ Holds("writer", {"push"})' = 1
          /\ Holds("writer", {"V"}) = 0 /\ Holds("writer", {"V"})' = 0
          /\ Holds("reader", {"V"}) = 1 /\ Holds("reader", {"V"})' = 0
          /\ Holds("reader", {"retest", "pop"}) = 0 /\ Holds("reader", {"retest", "pop"})' = 0
      BY <1>1, <3>2 DEF Holds
    <3>6. /\ producer.value + Len(buffer_pipe) + Holds("writer", {"push"}) + Holds("reader", {"V"})
                = BufferSize
          /\ consumer.value + Holds("writer", {"V"}) + Holds("reader", {"retest", "pop"})
                = Len(buffer_pipe)
      BY <3>1 DEF TokensKept
    <3>7. producer'.value + Len(buffer_pipe') + Holds("writer", {"push"})' + Holds("reader", {"V"})'
            = BufferSize
      BY <1>a, <2>1, TokenTypes, <3>5, <3>6
    <3>8. consumer'.value + Holds("writer", {"V"})' + Holds("reader", {"retest", "pop"})'
            = Len(buffer_pipe')
      BY <1>a, <2>1, TokenTypes, <3>5, <3>6
    <3> QED  BY <3>7, <3>8 DEF TokensKept
  <2> QED  BY <1>2, <1>3, <1>4, <2>2, <2>3 DEF PipeIInv
<1>6. CASE producer.waiting = 0
  <2>1. producer'.value = producer.value + 1 /\ producer'.waiting = 0
    BY <1>6, PipeTypes, SemaphoreSteps DEF Consume_V
  <2>2. SleepersCounted'
    BY <1>1, <1>a, <1>6, <2>1, PipeTypes, PipeParts
       DEF SleepersCounted, Holds, ClosedInTime
  <2>3. TokensKept'
    <3> SUFFICES ASSUME ~closed_output  PROVE TokensKept'
      BY <1>a DEF TokensKept
    <3>1. SleepersCounted /\ TokensKept /\ ClosedInTime
      BY PipeParts
    <3>2. pc'.writer = pc.writer
      BY <1>1, <1>6
    <3>5. /\ Holds("writer", {"push"})' = Holds("writer", {"push"}) /\ Holds("writer", {"push"}) \in {0, 1}
          /\ Holds("writer", {"V"})' = Holds("writer", {"V"}) /\ Holds("writer", {"V"}) \in {0, 1}
          /\ Holds("reader", {"V"}) = 1 /\ Holds("reader", {"V"})' = 0
          /\ Holds("reader", {"retest", "pop"}) = 0 /\ Holds("reader", {"retest", "pop"})' = 0
      BY <1>1, <3>2 DEF Holds
    <3>6. /\ producer.value + Len(buffer_pipe) + Holds("writer", {"push"}) + Holds("reader", {"V"})
                = BufferSize
          /\ consumer.value + Holds("writer", {"V"}) + Holds("reader", {"retest", "pop"})
                = Len(buffer_pipe)
      BY <3>1 DEF TokensKept
    <3>7. producer'.value + Len(buffer_pipe') + Holds("writer", {"push"})' + Holds("reader", {"V"})'
            = BufferSize
      <4>1. producer.value \in Nat /\ Len(buffer_pipe) \in Nat
        BY TokenTypes
      <4>2. producer.value + Len(buffer_pipe) + Holds("writer", {"push"}) + 1 = BufferSize
        BY <3>5, <3>6
      <4>3. (producer.value + 1) + Len(buffer_pipe) + Holds("writer", {"push"}) + 0 = BufferSize
        BY <3>5, <4>1, <4>2
      <4> QED  BY <1>a, <2>1, <3>5, <4>3
    <3>8. consumer'.value + Holds("writer", {"V"})' + Holds("reader", {"retest", "pop"})'
            = Len(buffer_pipe')
      BY <1>1, <1>a, <3>5, <3>6
    <3> QED  BY <3>7, <3>8 DEF TokensKept
  <2> QED  BY <1>2, <1>3, <1>4, <2>2, <2>3 DEF PipeIInv
<1> QED  BY <1>5, <1>6, PipeTypes

(* The byte goes to the end of the list, and the first of it is taken.     *)
LEMMA ProducePushKeeps == ASSUME PipeIInv, Produce_Push  PROVE PipeIInv'
<1>1. /\ pc.writer = "push" /\ pc'.writer = "V" /\ pc'.reader = pc.reader /\ pc'.shell = pc.shell
      /\ UNCHANGED <<reader, flags, semaphores, io_mutex, handles, calls, counts, consumed,
                     received, fault>>
  BY DEF Produce_Push, At, Go, PipeIInv, Placed
<1>a. producer' = producer /\ consumer' = consumer /\ closed_output' = closed_output
  BY <1>1 DEF flags, semaphores
<1>2. /\ buffer_pipe' \in Seq(Nat) /\ buffer_pipe' # <<>>
      /\ Len(buffer_pipe') = Len(buffer_pipe) + 1
      /\ \A n \in 1 .. Len(buffer_pipe) : buffer_pipe'[n] = buffer_pipe[n]
      /\ buffer_pipe'[Len(buffer_pipe) + 1] = written + 1
  <2>1. buffer_pipe \in Seq(Nat) /\ written + 1 \in Nat
    BY PipeTypes
  <2>2. buffer_pipe' = Append(buffer_pipe, written + 1)
    BY DEF Produce_Push
  <2> QED  BY <2>1, <2>2, Pushed
<1>3. PipeTypeOK' /\ Placed'
  <2>1. UNCHANGED <<reader, closed_input, closed_output, producer, consumer, io_mutex,
                    handles, calls, produced, written, consumed, received, fault>>
    BY <1>1 DEF flags, semaphores, counts
  <2>2. PipeTypeOK'
    BY <1>2, <2>1 DEF PipeIInv, PipeTypeOK
  <2>3. Placed'
    BY DEF Produce_Push, Go, PipeIInv, Placed
  <2> QED  BY <2>2, <2>3
<1>4. SleepersCounted' /\ TokensKept'
  <2>1. SleepersCounted'
    BY <1>1, <1>a, PipeTypes, PipeParts DEF SleepersCounted, Holds
  <2>2. TokensKept'
    <3> SUFFICES ASSUME ~closed_output  PROVE TokensKept'
      BY <1>a DEF TokensKept
    <3>1. SleepersCounted /\ TokensKept /\ ClosedInTime
      BY PipeParts
    <3>2. Len(buffer_pipe') = Len(buffer_pipe) + 1
      BY <1>2
    <3>3. producer.value + (Len(buffer_pipe) + 1) + Holds("reader", {"V"}) = BufferSize
      <4> DEFINE free == producer.value
                 bytes == Len(buffer_pipe)
                 going == Holds("reader", {"V"})
      <4>1. free + bytes + Holds("writer", {"push"}) + going = BufferSize
        BY <3>1 DEF TokensKept
      <4>2. Holds("writer", {"push"}) = 1 /\ going \in Nat
        BY <1>1 DEF Holds
      <4>3. free \in Nat /\ bytes \in Nat /\ BufferSize \in Nat
        BY TokenTypes
      <4>4. free + bytes + 1 + going = BufferSize
        BY <4>1, <4>2
      <4>5. going \in Nat
        BY <4>2
      <4> HIDE DEF free, bytes, going
      <4>6. free + (bytes + 1) + going = BufferSize
        BY <4>3, <4>4, <4>5
      <4> QED  BY <4>6 DEF free, bytes, going
    <3>4. (consumer.value + 1) + Holds("reader", {"retest", "pop"}) = Len(buffer_pipe) + 1
      BY <1>1, TokenTypes, <3>1 DEF TokensKept, Holds
    <3>5. producer'.value + Len(buffer_pipe') + Holds("writer", {"push"})'
            + Holds("reader", {"V"})' = BufferSize
      BY <1>1, <1>a, TokenTypes, <3>2, <3>3 DEF Holds
    <3>6. consumer'.value + Holds("writer", {"V"})' + Holds("reader", {"retest", "pop"})'
            = Len(buffer_pipe')
      BY <1>1, <1>a, TokenTypes, <3>2, <3>4 DEF Holds
    <3> QED  BY <3>5, <3>6 DEF TokensKept
  <2> QED  BY <2>1, <2>2
<1>5. InOrder'
  <2>1. written = Len(received) + Len(buffer_pipe) /\ Sent' = written + 1
    BY <1>1, PipeTypes DEF PipeIInv, InOrder, Sent, Holds, counts
  <2>2. \A n \in 1 .. Len(buffer_pipe) : buffer_pipe'[n] = Len(received) + n
    BY <1>2 DEF PipeIInv, InOrder
  <2>3. \A n \in 1 .. Len(buffer_pipe') : buffer_pipe'[n] = Len(received) + n
    <3> SUFFICES ASSUME NEW n \in 1 .. Len(buffer_pipe) + 1
                 PROVE  buffer_pipe'[n] = Len(received) + n
      BY <1>2
    <3>1. CASE n = Len(buffer_pipe) + 1
      BY <1>2, <2>1, <3>1
    <3>2. CASE n \in 1 .. Len(buffer_pipe)
      BY <2>2, <3>2
    <3> QED  BY <3>1, <3>2, PipeTypes
  <2>4. received' = received
    BY <1>1
  <2>5. Len(received') + Len(buffer_pipe') = Sent'
    BY <1>2, <2>1, <2>4, PipeTypes
  <2>6. \A n \in 1 .. Len(received') : received'[n] = n
    BY <2>4, PipeParts DEF InOrder
  <2> QED  BY <2>3, <2>4, <2>5, <2>6 DEF InOrder
<1>6. PopFindsByte' /\ ClosedInTime' /\ FaultOnlyByQuitters'
  BY <1>1, <1>2 DEF PipeIInv, flags, PopFindsByte, ClosedInTime, FaultOnlyByQuitters, Quits, Stops
<1> QED  BY <1>3, <1>4, <1>5, <1>6 DEF PipeIInv

LEMMA ConsumePopKeeps == ASSUME PipeIInv, Consume_Pop  PROVE PipeIInv'
<1>1. /\ pc.reader = "pop" /\ pc'.reader = "V" /\ pc'.writer = pc.writer /\ pc'.shell = pc.shell
      /\ UNCHANGED <<reader, flags, semaphores, io_mutex, handles, calls, counts, consumed, fault>>
  BY DEF Consume_Pop, At, Go, PipeIInv, Placed
<1>a. producer' = producer /\ consumer' = consumer /\ closed_output' = closed_output
  BY <1>1 DEF flags, semaphores
<1>2. /\ buffer_pipe' \in Seq(Nat)
      /\ Len(buffer_pipe) \in Nat \ {0} /\ Len(buffer_pipe') = Len(buffer_pipe) - 1
      /\ \A n \in 1 .. Len(buffer_pipe') : buffer_pipe'[n] = buffer_pipe[n + 1]
      /\ Head(buffer_pipe) \in Nat /\ Head(buffer_pipe) = buffer_pipe[1]
  BY PipeTypes, Popped DEF Consume_Pop
<1>3. /\ received' \in Seq(Nat)
      /\ Len(received') = Len(received) + 1
      /\ \A n \in 1 .. Len(received) : received'[n] = received[n]
      /\ received'[Len(received) + 1] = Head(buffer_pipe)
  BY <1>2, PipeTypes, Pushed DEF Consume_Pop
<1>4. PipeTypeOK' /\ Placed'
  <2>1. consumed' \in Nat
    BY <1>1, PipeTypes DEF Consume_Pop, counts
  <2>2. Placed'
    BY DEF Consume_Pop, Go, PipeIInv, Placed
  <2>3. UNCHANGED <<reader, closed_input, closed_output, producer, consumer, io_mutex,
                    handles, calls, produced, written, fault>>
    BY <1>1 DEF flags, semaphores, counts
  <2> QED  BY <1>2, <1>3, <2>1, <2>2, <2>3 DEF PipeIInv, PipeTypeOK
<1>5. SleepersCounted' /\ TokensKept'
  <2>1. SleepersCounted'
    BY <1>1, <1>a, PipeTypes, PipeParts DEF SleepersCounted, Holds
  <2>2. TokensKept'
    <3> SUFFICES ASSUME ~closed_output  PROVE TokensKept'
      BY <1>a DEF TokensKept
    <3>1. SleepersCounted /\ TokensKept /\ ClosedInTime
      BY PipeParts
    <3>2. Len(buffer_pipe') = Len(buffer_pipe) - 1
      BY <1>2
    <3>3. producer.value + (Len(buffer_pipe) - 1) + Holds("writer", {"push"}) + 1 = BufferSize
      <4>1. producer.value + Len(buffer_pipe) + Holds("writer", {"push"})
              + Holds("reader", {"V"}) = BufferSize
        BY <3>1 DEF TokensKept
      <4>2. Holds("reader", {"V"}) = 0 /\ Holds("writer", {"push"}) \in Nat
        BY <1>1 DEF Holds
      <4>3. producer.value \in Nat /\ Len(buffer_pipe) \in Nat
        BY TokenTypes
      <4> QED  BY <4>1, <4>2, <4>3
    <3>4. consumer.value + Holds("writer", {"V"}) = Len(buffer_pipe) - 1
      <4>1. consumer.value + Holds("writer", {"V"}) + Holds("reader", {"retest", "pop"})
              = Len(buffer_pipe)
        BY <3>1 DEF TokensKept
      <4>2. Holds("reader", {"retest", "pop"}) = 1 /\ Holds("writer", {"V"}) \in Nat
        BY <1>1 DEF Holds
      <4>3. consumer.value \in Nat /\ Len(buffer_pipe) \in Nat
        BY TokenTypes
      <4> QED  BY <4>1, <4>2, <4>3
    <3>5. producer'.value + Len(buffer_pipe') + Holds("writer", {"push"})'
            + Holds("reader", {"V"})' = BufferSize
      BY <1>1, <1>a, TokenTypes, <3>2, <3>3 DEF Holds
    <3>6. consumer'.value + Holds("writer", {"V"})' + Holds("reader", {"retest", "pop"})'
            = Len(buffer_pipe')
      BY <1>1, <1>a, TokenTypes, <3>2, <3>4 DEF Holds
    <3> QED  BY <3>5, <3>6 DEF TokensKept
  <2> QED  BY <2>1, <2>2
<1>6. InOrder'
  <2>1. Head(buffer_pipe) = Len(received) + 1
    BY <1>2, PipeTypes DEF PipeIInv, InOrder
  <2>2. \A n \in 1 .. Len(received') : received'[n] = n
    <3> SUFFICES ASSUME NEW n \in 1 .. Len(received) + 1  PROVE received'[n] = n
      BY <1>3
    <3>1. CASE n = Len(received) + 1
      BY <1>3, <2>1, <3>1
    <3>2. CASE n \in 1 .. Len(received)
      BY <1>3, <3>2, PipeParts DEF InOrder
    <3> QED  BY <3>1, <3>2, PipeTypes
  <2>3. \A n \in 1 .. Len(buffer_pipe') : buffer_pipe'[n] = Len(received') + n
    <3> SUFFICES ASSUME NEW n \in 1 .. Len(buffer_pipe')
                 PROVE  buffer_pipe'[n] = Len(received') + n
      OBVIOUS
    <3>1. n \in Nat /\ n + 1 \in 1 .. Len(buffer_pipe)
      BY <1>2
    <3>2. buffer_pipe'[n] = buffer_pipe[n + 1] /\ buffer_pipe[n + 1] = Len(received) + (n + 1)
      BY <1>2, <3>1, PipeParts DEF InOrder
    <3> QED  BY <1>3, <3>1, <3>2, PipeTypes
  <2>4. Sent' = Sent
    BY <1>1 DEF Sent, Holds, counts
  <2>5. Len(received') + Len(buffer_pipe') = Sent'
    BY <1>2, <1>3, <2>4, PipeTypes, PipeParts DEF InOrder
  <2> QED  BY <2>2, <2>3, <2>5 DEF InOrder
<1>7. PopFindsByte' /\ ClosedInTime' /\ FaultOnlyByQuitters'
  <2>1. ~fault' /\ pc.shell = "wait" /\ pc'.reader # "pop"
    BY <1>1, PipeParts DEF Consume_Pop, At, ClosedInTime
  <2> QED
    BY <1>1, <2>1, PipeParts DEF flags, PopFindsByte, ClosedInTime, FaultOnlyByQuitters
<1> QED  BY <1>4, <1>5, <1>6, <1>7 DEF PipeIInv

-----------------------------------------------------------------------------
LEMMA NextKeepsPipe == PipeIInv /\ [Pipe_Next]_pipe_vars => PipeIInv'
<1> SUFFICES ASSUME PipeIInv, [Pipe_Next]_pipe_vars  PROVE PipeIInv'
  OBVIOUS
<1>a. /\ PipeTypeOK /\ Placed /\ SleepersCounted /\ TokensKept /\ PopFindsByte
      /\ InOrder /\ ClosedInTime /\ FaultOnlyByQuitters
  BY DEF PipeIInv
<1>1. CASE Write_File
  <2>1. PipeTypeOK' /\ Placed'
    <3>1. calls' \in 0 .. Len(Writes)
      BY <1>1, <1>a, PipeTypes DEF Write_File, PipeTypeOK
    <3>2. Placed'
      BY <1>1, <1>a DEF Write_File, Go, Placed
    <3>3. produced' \in Nat /\ io_mutex' \in {"none", "writer"}
      BY <1>1 DEF Write_File
    <3> QED  BY <1>1, <1>a, <3>1, <3>2, <3>3 DEF Write_File, flags, semaphores, PipeTypeOK
  <2>2. SleepersCounted' /\ TokensKept'
    BY <1>1, <1>a DEF Write_File, flags, semaphores, counts, At, Go, SleepersCounted,
       TokensKept, Placed, ClosedInTime, Holds
  <2>3. PopFindsByte' /\ InOrder'
    BY <1>1, <1>a DEF Write_File, flags, semaphores, counts, At, Go, PopFindsByte,
       InOrder, Placed, Holds, Sent
  <2>4. ClosedInTime' /\ FaultOnlyByQuitters'
    BY <1>1, <1>a DEF Write_File, flags, semaphores, counts, At, Go, ClosedInTime,
       FaultOnlyByQuitters, Quits, Stops, Placed
  <2> QED  BY <2>1, <2>2, <2>3, <2>4 DEF PipeIInv
<1>2. CASE Produce_Test
  <2>1. PipeTypeOK' /\ Placed'
    BY <1>2, <1>a, PipeTypes DEF Produce_Test, flags, semaphores, counts, At, Go,
       PipeTypeOK, Placed
  <2>2. SleepersCounted' /\ TokensKept'
    BY <1>2, <1>a DEF Produce_Test, flags, semaphores, counts, At, Go, SleepersCounted,
       TokensKept, Placed, ClosedInTime, Holds
  <2>3. PopFindsByte' /\ InOrder'
    BY <1>2, <1>a DEF Produce_Test, flags, semaphores, counts, At, Go, PopFindsByte,
       InOrder, Placed, Holds, Sent
  <2>4. ClosedInTime' /\ FaultOnlyByQuitters'
    BY <1>2, <1>a DEF Produce_Test, flags, semaphores, counts, At, Go, ClosedInTime,
       FaultOnlyByQuitters, Quits, Stops, Placed
  <2> QED  BY <2>1, <2>2, <2>3, <2>4 DEF PipeIInv
<1>3. CASE Writer_Exit
  <2>1. PipeTypeOK' /\ Placed'
    BY <1>3, <1>a, PipeTypes DEF Writer_Exit, flags, semaphores, counts, At, Go,
       PipeTypeOK, Placed
  <2>2. SleepersCounted' /\ TokensKept'
    BY <1>3, <1>a DEF Writer_Exit, flags, semaphores, counts, At, Go, SleepersCounted,
       TokensKept, Placed, ClosedInTime, Holds
  <2>3. PopFindsByte' /\ InOrder'
    BY <1>3, <1>a DEF Writer_Exit, flags, semaphores, counts, At, Go, PopFindsByte,
       InOrder, Placed, Holds, Sent
  <2>4. ClosedInTime' /\ FaultOnlyByQuitters'
    BY <1>3, <1>a DEF Writer_Exit, flags, semaphores, counts, At, Go, ClosedInTime,
       FaultOnlyByQuitters, Quits, Stops, Placed
  <2> QED  BY <2>1, <2>2, <2>3, <2>4 DEF PipeIInv
<1>4. CASE Writer_Close
  <2>1. PipeTypeOK' /\ Placed'
    BY <1>4, <1>a, PipeTypes DEF Writer_Close, Close, flags, semaphores, counts, At, Go,
       PipeTypeOK, Placed
  <2>2. SleepersCounted' /\ TokensKept'
    BY <1>4, <1>a DEF Writer_Close, Close, flags, semaphores, counts, At, Go,
       SleepersCounted, TokensKept, Placed, ClosedInTime, Holds
  <2>3. PopFindsByte' /\ InOrder'
    BY <1>4, <1>a DEF Writer_Close, Close, flags, semaphores, counts, At, Go,
       PopFindsByte, InOrder, Placed, Holds, Sent
  <2>4. ClosedInTime' /\ FaultOnlyByQuitters'
    BY <1>4, <1>a DEF Writer_Close, Close, flags, semaphores, counts, At, Go,
       ClosedInTime, FaultOnlyByQuitters, Quits, Stops, Placed
  <2> QED  BY <2>1, <2>2, <2>3, <2>4 DEF PipeIInv
<1>5. CASE Notify_One("writer", "done")
  <2>1. PipeTypeOK' /\ Placed'
    BY <1>5, <1>a, PipeTypes DEF Notify_One, Woken, flags, semaphores, counts, At, Go,
       PipeTypeOK, Placed
  <2>2. SleepersCounted' /\ TokensKept'
    BY <1>5, <1>a DEF Notify_One, Woken, flags, semaphores, counts, At, Go,
       SleepersCounted, TokensKept, Placed, ClosedInTime, Holds
  <2>3. PopFindsByte' /\ InOrder'
    BY <1>5, <1>a DEF Notify_One, Woken, flags, semaphores, counts, At, Go, PopFindsByte,
       InOrder, Placed, Holds, Sent
  <2>4. ClosedInTime' /\ FaultOnlyByQuitters'
    BY <1>5, <1>a DEF Notify_One, Woken, flags, semaphores, counts, At, Go, ClosedInTime,
       FaultOnlyByQuitters, Quits, Stops, Placed
  <2> QED  BY <2>1, <2>2, <2>3, <2>4 DEF PipeIInv
<1>6. CASE Read_File
  <2>1. PipeTypeOK' /\ Placed'
    BY <1>6, <1>a, PipeTypes DEF Read_File, flags, semaphores, counts, At, Go,
       PipeTypeOK, Placed
  <2>2. SleepersCounted' /\ TokensKept'
    BY <1>6, <1>a DEF Read_File, flags, semaphores, counts, At, Go, SleepersCounted,
       TokensKept, Placed, ClosedInTime, Holds
  <2>3. PopFindsByte' /\ InOrder'
    BY <1>6, <1>a DEF Read_File, flags, semaphores, counts, At, Go, PopFindsByte,
       InOrder, Placed, Holds, Sent
  <2>4. ClosedInTime' /\ FaultOnlyByQuitters'
    BY <1>6, <1>a DEF Read_File, flags, semaphores, counts, At, Go, ClosedInTime,
       FaultOnlyByQuitters, Quits, Stops, Placed
  <2> QED  BY <2>1, <2>2, <2>3, <2>4 DEF PipeIInv
<1>7. CASE Echo_Start
  <2>1. PipeTypeOK' /\ Placed'
    BY <1>7, <1>a, PipeTypes DEF Echo_Start, flags, semaphores, counts, At, Go,
       PipeTypeOK, Placed
  <2>2. SleepersCounted' /\ TokensKept'
    BY <1>7, <1>a DEF Echo_Start, flags, semaphores, counts, At, Go, SleepersCounted,
       TokensKept, Placed, ClosedInTime, Holds
  <2>3. PopFindsByte' /\ InOrder'
    BY <1>7, <1>a DEF Echo_Start, flags, semaphores, counts, At, Go, PopFindsByte,
       InOrder, Placed, Holds, Sent
  <2>4. ClosedInTime' /\ FaultOnlyByQuitters'
    BY <1>7, <1>a DEF Echo_Start, flags, semaphores, counts, At, Go, ClosedInTime,
       FaultOnlyByQuitters, Quits, Stops, Placed
  <2> QED  BY <2>1, <2>2, <2>3, <2>4 DEF PipeIInv
<1>8. CASE Consume_Test
  <2>1. PipeTypeOK' /\ Placed'
    BY <1>8, <1>a, PipeTypes DEF Consume_Test, Returned, Drained, Length, flags,
       semaphores, counts, At, Go, PipeTypeOK, Placed
  <2>2. SleepersCounted' /\ TokensKept'
    BY <1>8, <1>a, PipeTypes DEF Consume_Test, Returned, Drained, Length, flags,
       semaphores, counts, At, Go, SleepersCounted, TokensKept, Placed, ClosedInTime, Holds
  <2>3. PopFindsByte' /\ InOrder'
    BY <1>8, <1>a, PipeTypes DEF Consume_Test, Returned, Drained, Length, flags,
       semaphores, counts, At, Go, PopFindsByte, InOrder, Placed, Holds, Sent
  <2>4. ClosedInTime' /\ FaultOnlyByQuitters'
    BY <1>8, <1>a, PipeTypes DEF Consume_Test, Returned, Drained, Length, flags,
       semaphores, counts, At, Go, ClosedInTime, FaultOnlyByQuitters, Quits, Stops, Placed
  <2> QED  BY <2>1, <2>2, <2>3, <2>4 DEF PipeIInv
<1>9. CASE Consume_Retest
  <2>1. PipeTypeOK' /\ Placed'
    BY <1>9, <1>a, PipeTypes DEF Consume_Retest, Returned, Drained, Length, flags,
       semaphores, counts, At, Go, PipeTypeOK, Placed
  <2>2. SleepersCounted' /\ TokensKept'
    BY <1>9, <1>a DEF Consume_Retest, Returned, Drained, Length, flags, semaphores,
       counts, At, Go, SleepersCounted, TokensKept, Placed, ClosedInTime, Holds
  <2>3. InOrder'
    <3>1. pc'.writer = pc.writer
      BY <1>9, <1>a DEF Consume_Retest, Go, Placed
    <3> QED  BY <1>9, <1>a, <3>1 DEF Consume_Retest, counts, InOrder, Holds, Sent
  <2>5. PopFindsByte'
    <3>1. CASE Drained
      BY <1>9, <1>a, <3>1 DEF Consume_Retest, Returned, Go, PopFindsByte, Placed
    <3>2. CASE ~Drained
      <4>1. closed_output \/ Len(buffer_pipe) > 0
        BY <1>9, <1>a, TokenTypes DEF Consume_Retest, At, TokensKept, Holds
      <4> QED  BY <1>9, <3>2, <4>1, PipeTypes DEF Consume_Retest, Drained, PopFindsByte
    <3> QED  BY <3>1, <3>2
  <2>4. ClosedInTime' /\ FaultOnlyByQuitters'
    BY <1>9, <1>a DEF Consume_Retest, Returned, Drained, Length, flags, semaphores,
       counts, At, Go, ClosedInTime, FaultOnlyByQuitters, Quits, Stops, Placed
  <2> QED  BY <2>1, <2>2, <2>3, <2>4, <2>5 DEF PipeIInv
<1>10. CASE Reader_Output
  <2>1. PipeTypeOK' /\ Placed'
    BY <1>10, <1>a, PipeTypes DEF Reader_Output, Printing, flags, semaphores, counts, At,
       Go, PipeTypeOK, Placed
  <2>2. SleepersCounted' /\ TokensKept'
    BY <1>10, <1>a DEF Reader_Output, Printing, flags, semaphores, counts, At, Go,
       SleepersCounted, TokensKept, Placed, ClosedInTime, Holds
  <2>3. PopFindsByte' /\ InOrder'
    BY <1>10, <1>a DEF Reader_Output, Printing, flags, semaphores, counts, At, Go,
       PopFindsByte, InOrder, Placed, Holds, Sent
  <2>4. ClosedInTime' /\ FaultOnlyByQuitters'
    BY <1>10, <1>a DEF Reader_Output, Printing, flags, semaphores, counts, At, Go,
       ClosedInTime, FaultOnlyByQuitters, Quits, Stops, Placed
  <2> QED  BY <2>1, <2>2, <2>3, <2>4 DEF PipeIInv
<1>11. CASE Shell_Close_Write
  <2>1. PipeTypeOK' /\ Placed'
    BY <1>11, <1>a, PipeTypes DEF Shell_Close_Write, Close, flags, semaphores, counts,
       At, Go, PipeTypeOK, Placed
  <2>2. SleepersCounted' /\ TokensKept'
    BY <1>11, <1>a DEF Shell_Close_Write, Close, flags, semaphores, counts, At, Go,
       SleepersCounted, TokensKept, Placed, ClosedInTime, Holds
  <2>3. PopFindsByte' /\ InOrder'
    BY <1>11, <1>a DEF Shell_Close_Write, Close, flags, semaphores, counts, At, Go,
       PopFindsByte, InOrder, Placed, Holds, Sent
  <2>4. ClosedInTime' /\ FaultOnlyByQuitters'
    BY <1>11, <1>a DEF Shell_Close_Write, Close, flags, semaphores, counts, At, Go,
       ClosedInTime, FaultOnlyByQuitters, Quits, Stops, Placed
  <2> QED  BY <2>1, <2>2, <2>3, <2>4 DEF PipeIInv
<1>12. CASE Notify_One("shell", "close_read")
  <2>1. PipeTypeOK' /\ Placed'
    BY <1>12, <1>a, PipeTypes DEF Notify_One, Woken, flags, semaphores, counts, At, Go,
       PipeTypeOK, Placed
  <2>2. SleepersCounted' /\ TokensKept'
    BY <1>12, <1>a DEF Notify_One, Woken, flags, semaphores, counts, At, Go,
       SleepersCounted, TokensKept, Placed, ClosedInTime, Holds
  <2>3. PopFindsByte' /\ InOrder'
    BY <1>12, <1>a DEF Notify_One, Woken, flags, semaphores, counts, At, Go,
       PopFindsByte, InOrder, Placed, Holds, Sent
  <2>4. ClosedInTime' /\ FaultOnlyByQuitters'
    BY <1>12, <1>a DEF Notify_One, Woken, flags, semaphores, counts, At, Go,
       ClosedInTime, FaultOnlyByQuitters, Quits, Stops, Placed
  <2> QED  BY <2>1, <2>2, <2>3, <2>4 DEF PipeIInv
<1>13. CASE Shell_Close_Read
  <2>1. PipeTypeOK' /\ Placed'
    BY <1>13, <1>a, PipeTypes DEF Shell_Close_Read, flags, semaphores, counts, At, Go,
       PipeTypeOK, Placed
  <2>2. SleepersCounted' /\ TokensKept'
    BY <1>13, <1>a DEF Shell_Close_Read, flags, semaphores, counts, At, Go,
       SleepersCounted, TokensKept, Placed, ClosedInTime, Holds
  <2>3. PopFindsByte' /\ InOrder'
    BY <1>13, <1>a DEF Shell_Close_Read, flags, semaphores, counts, At, Go, PopFindsByte,
       InOrder, Placed, Holds, Sent
  <2>4. ClosedInTime' /\ FaultOnlyByQuitters'
    BY <1>13, <1>a DEF Shell_Close_Read, flags, semaphores, counts, At, Go, ClosedInTime,
       FaultOnlyByQuitters, Quits, Stops, Placed
  <2> QED  BY <2>1, <2>2, <2>3, <2>4 DEF PipeIInv
<1>14. CASE UNCHANGED pipe_vars
  BY <1>14, <1>a DEF pipe_vars, flags, semaphores, counts, PipeIInv, PipeTypeOK, Placed,
     SleepersCounted,
     TokensKept, PopFindsByte, InOrder, ClosedInTime, FaultOnlyByQuitters, Quits, Stops, Holds, Sent
<1> QED
  BY ProducePKeeps, ProducePushKeeps, ProduceVKeeps, ConsumePKeeps, ConsumePopKeeps,
     ConsumeVKeeps,
     <1>1, <1>2, <1>3, <1>4, <1>5, <1>6, <1>7, <1>8, <1>9, <1>10, <1>11, <1>12, <1>13, <1>14
     DEF Pipe_Next, Writer_Step, Reader_Step, Shell_Step

LEMMA InitPipe == Pipe_Init => PipeIInv
<1> SUFFICES ASSUME Pipe_Init  PROVE PipeIInv
  OBVIOUS
<1>1. PipeTypeOK
  <2>1. /\ producer \in [value : Nat, waiting : Nat]
        /\ consumer \in [value : Nat, waiting : Nat]
    BY DEF Pipe_Init
  <2>2. calls \in 0 .. Len(Writes)
    BY DEF Pipe_Init
  <2>3. /\ reader \in Readers /\ io_mutex = "none" /\ handles = {"write", "read"}
        /\ buffer_pipe \in Seq(Nat) /\ received \in Seq(Nat)
        /\ closed_input = FALSE /\ closed_output = FALSE /\ fault = FALSE
        /\ produced = 0 /\ written = 0 /\ consumed = 0
    BY DEF Pipe_Init
  <2> QED  BY <2>1, <2>2, <2>3 DEF PipeTypeOK
<1>2. Placed /\ PopFindsByte /\ FaultOnlyByQuitters
  BY DEF Pipe_Init, Placed, PopFindsByte, FaultOnlyByQuitters, Quits, Stops
<1>3. SleepersCounted /\ ClosedInTime
  BY DEF Pipe_Init, SleepersCounted, ClosedInTime, Holds
<1>4. TokensKept
  BY DEF Pipe_Init, TokensKept, Holds
<1>5. InOrder
  BY DEF Pipe_Init, InOrder, Sent, Holds
<1> QED  BY <1>1, <1>2, <1>3, <1>4, <1>5 DEF PipeIInv

-----------------------------------------------------------------------------
(* PipeIInv holds in every state, and with it what the run pipe checks.    *)
THEOREM PipeInvariance == Pipe_Spec => []PipeIInv
BY InitPipe, NextKeepsPipe, PTL DEF Pipe_Spec

(* The fields of Pipe and Semaphore keep their types: a semaphore's value  *)
(* and waiting, which are ints in the code, never fall below zero.          *)
THEOREM PipeTypeCorrect == Pipe_Spec => []PipeTypeOK
<1>1. PipeIInv => PipeTypeOK
  BY DEF PipeIInv
<1> QED  BY <1>1, PipeInvariance, PTL

(* Produce and Consume neither lose nor invent a token: until the input is *)
(* closed, producer counts the free places of the list and consumer its    *)
(* bytes, up to the one each thread has under way.                         *)
THEOREM TokensStay == Pipe_Spec => []TokensKept
<1>1. PipeIInv => TokensKept
  BY DEF PipeIInv
<1> QED  BY <1>1, PipeInvariance, PTL

(* Consume never calls front() on an empty list, although Close wakes it   *)
(* without a token.                                                        *)
THEOREM PopAlwaysFindsByte == Pipe_Spec => []PopFindsByte
<1>1. PipeIInv => PopFindsByte
  BY DEF PipeIInv
<1> QED  BY <1>1, PipeInvariance, PTL

(* The writer's Close_Handle finds its handle unless the reader is echo or *)
(* type that got an end code: from any other the shell hears only after it.*)
THEOREM OnlyQuittersFault == Pipe_Spec => []FaultOnlyByQuitters
<1>1. PipeIInv => FaultOnlyByQuitters
  BY DEF PipeIInv
<1> QED  BY <1>1, PipeInvariance, PTL

-----------------------------------------------------------------------------
(* Pipe implements Channel.                                                *)

(* The reader was told that the input has ended.                           *)
Told == pc.reader \in {"last", "done"} /\ reader # "echo" /\ ~Stops

LEMMA ChannelStutters ==
    ASSUME Sent' = Sent, UNCHANGED <<received, closed_output>>, Told' = Told
    PROVE  UNCHANGED Ideal!channel_vars
BY DEF Told, Stops, Ideal!channel_vars

LEMMA SentTypes ==
    ASSUME PipeIInv
    PROVE  /\ Sent \in Nat
           /\ Len([n \in 1 .. Sent |-> n]) = Sent
BY PipeTypes DEF Sent, Holds

(* push_back puts a byte into the channel, which is neither closed nor     *)
(* full.                                                                   *)
LEMMA PushSends == ASSUME PipeIInv, Produce_Push  PROVE Ideal!Send
<1>1. /\ pc.writer = "push" /\ pc'.writer = "V" /\ pc'.reader = pc.reader
      /\ UNCHANGED <<reader, flags, counts, received>>
  BY DEF Produce_Push, At, Go, PipeIInv, Placed
<1>2. ~closed_output
  BY <1>1, PipeParts DEF ClosedInTime
<1>3. Sent' = Sent + 1 /\ Sent \in Nat
  BY <1>1, PipeTypes DEF Sent, Holds, counts
<1>4. Sent < Len(received) + BufferSize
  <2>1. producer.value + Len(buffer_pipe) + Holds("writer", {"push"})
          + Holds("reader", {"V"}) = BufferSize
    BY <1>2, PipeParts DEF TokensKept
  <2>2. Holds("writer", {"push"}) = 1 /\ Holds("reader", {"V"}) \in Nat
    BY <1>1 DEF Holds
  <2>3. Len(received) + Len(buffer_pipe) = Sent
    BY PipeParts DEF InOrder
  <2>4. /\ Len(received) \in Nat /\ Len(buffer_pipe) \in Nat
        /\ producer.value \in Nat /\ BufferSize \in Nat
    BY PipeTypes, TokenTypes
  <2>5. Len(buffer_pipe) + 1 <= BufferSize
    BY <2>1, <2>2, <2>4
  <2> QED  BY <2>3, <2>4, <2>5
<1>5. /\ Len([n \in 1 .. Sent |-> n]) = Sent /\ Len([n \in 1 .. Sent' |-> n]) = Sent + 1
      /\ SubSeq([n \in 1 .. Sent' |-> n], 1, Sent) = [n \in 1 .. Sent |-> n]
  BY <1>3
<1>6. closed_output' = closed_output /\ Told' = Told /\ received' = received
  BY <1>1 DEF flags, Told, Stops
<1> QED  BY <1>2, <1>3, <1>4, <1>5, <1>6 DEF Ideal!Send, Told, Stops

(* pop_front takes the next byte out of it.                                *)
LEMMA PopReceives == ASSUME PipeIInv, Consume_Pop  PROVE Ideal!Receive
<1>1. /\ pc.reader = "pop" /\ pc'.reader = "V" /\ pc'.writer = pc.writer
      /\ UNCHANGED <<reader, flags, counts>>
      /\ buffer_pipe # <<>> /\ received' = Append(received, Head(buffer_pipe))
  BY DEF Consume_Pop, At, Go, PipeIInv, Placed
<1>2. Head(buffer_pipe) = Len(received) + 1 /\ Len(buffer_pipe) > 0
  <2>1. Head(buffer_pipe) = buffer_pipe[1] /\ Len(buffer_pipe) \in Nat \ {0}
    BY <1>1, PipeTypes, Popped
  <2>2. buffer_pipe[1] = Len(received) + 1
    BY <2>1, PipeParts DEF InOrder
  <2> QED  BY <2>1, <2>2
<1>3. Sent' = Sent /\ Len(received) < Sent /\ Sent \in Nat
  <2>1. Sent' = Sent
    BY <1>1 DEF Sent, Holds, counts
  <2>2. Len(received) + Len(buffer_pipe) = Sent
    BY PipeParts DEF InOrder
  <2> QED  BY <1>2, <2>1, <2>2, PipeTypes, SentTypes
<1>4. /\ Len([n \in 1 .. Sent |-> n]) = Sent
      /\ [n \in 1 .. Sent |-> n][Len(received) + 1] = Len(received) + 1
  BY <1>3, PipeTypes
<1>5. ~Told /\ ~Told' /\ closed_output' = closed_output
  BY <1>1 DEF Told, Stops, flags
<1> QED  BY <1>1, <1>2, <1>3, <1>4, <1>5 DEF Ideal!Receive, Told, Stops

(* Consume gives a reader nothing only when the input is closed and all of *)
(* it has been read.                                                       *)
LEMMA ReturnReports ==
    ASSUME PipeIInv, consumed = 0 => Drained, pc.reader \in {"test", "retest"},
           pc'.reader = Returned, pc'.writer = pc.writer,
           UNCHANGED <<reader, flags, counts, received>>
    PROVE  [Ideal!Channel_Next]_(Ideal!channel_vars)
<1>1. Sent' = Sent /\ received' = received /\ closed_output' = closed_output /\ ~Told
  BY DEF Sent, Holds, flags, counts, Told, Stops
<1>2. CASE consumed = 0 /\ reader # "echo" /\ ~Stops
  <2>1. closed_output /\ Len(received) = Sent /\ Told'
    BY <1>2, PipeTypes DEF PipeIInv, InOrder, Drained, Returned, Told, Stops
  <2>2. received = [n \in 1 .. Sent |-> n]
    BY <2>1, PipeTypes DEF PipeIInv, InOrder
  <2> QED  BY <1>1, <2>1, <2>2 DEF Ideal!Channel_Next, Ideal!End_Of_File, Told, Stops
<1>3. CASE ~(consumed = 0 /\ reader # "echo" /\ ~Stops)
  <2>1. Told' = Told
    BY <1>1, <1>3 DEF Returned, Told, Stops
  <2> QED  BY <1>1, <2>1, ChannelStutters
<1> QED  BY <1>2, <1>3

(* Close sets the flag, for the first or the second time.                  *)
LEMMA CloseCloses ==
    ASSUME PipeIInv, closed_output' = TRUE, Sent' = Sent, received' = received, Told' = Told
    PROVE  Ideal!Close_Input
BY DEF Ideal!Close_Input, Told, Stops

LEMMA PipeStepIsChannelStep ==
    PipeIInv /\ [Pipe_Next]_pipe_vars => [Ideal!Channel_Next]_(Ideal!channel_vars)
<1> SUFFICES ASSUME PipeIInv, [Pipe_Next]_pipe_vars
             PROVE  [Ideal!Channel_Next]_(Ideal!channel_vars)
  OBVIOUS
<1> DEFINE Stutter == /\ Sent' = Sent /\ UNCHANGED <<received, closed_output>>
                      /\ Told' = Told
<1>0. Placed
  BY DEF PipeIInv
<1>1. CASE Write_File
  <2>1. Stutter
    BY <1>0, <1>1 DEF Write_File, At, Go, flags, Placed, Sent, Holds, Told, Stops
  <2> QED  BY <2>1, ChannelStutters
<1>2. CASE Produce_Test
  <2>1. Stutter
    BY <1>0, <1>2 DEF Produce_Test, At, Go, flags, counts, Placed, Sent, Holds, Told, Stops
  <2> QED  BY <2>1, ChannelStutters
<1>3. CASE Produce_P
  <2>1. Stutter
    BY <1>0, <1>3 DEF Produce_P, At, Go, flags, counts, Placed, Sent, Holds, Told, Stops
  <2> QED  BY <2>1, ChannelStutters
<1>4. CASE Produce_Push
  BY <1>4, PushSends DEF Ideal!Channel_Next
<1>5. CASE Produce_V
  <2>1. /\ pc.writer = "V" /\ pc'.writer = "test" /\ written' = written + 1
        /\ pc'.reader = IF consumer.waiting > 0 /\ pc.reader = "asleep"
                        THEN "retest" ELSE pc.reader
        /\ UNCHANGED <<reader, flags, received>>
    BY <1>0, <1>5 DEF Produce_V, At, Woken, Placed
  <2>2. Stutter
    BY <2>1, PipeTypes DEF flags, Sent, Holds, Told, Stops
  <2> QED  BY <2>2, ChannelStutters
<1>6. CASE Writer_Exit
  <2>1. Stutter
    BY <1>0, <1>6 DEF Writer_Exit, At, Go, flags, counts, Placed, Sent, Holds, Told, Stops
  <2> QED  BY <2>1, ChannelStutters
<1>7. CASE Writer_Close
  <2>1. CASE Close("writer", "notify") /\ UNCHANGED <<handles, fault>>
    <3>1. closed_output' = TRUE /\ Sent' = Sent /\ received' = received /\ Told' = Told
      BY <1>0, <1>7, <2>1 DEF Writer_Close, Close, At, Go, counts, Placed, Sent, Holds, Told, Stops
    <3> QED  BY <3>1, CloseCloses DEF Ideal!Channel_Next
  <2>2. CASE UNCHANGED <<reader, buffer_pipe, flags, semaphores, io_mutex,
                         handles, pc, calls, counts, consumed, received>>
    <3>1. Stutter
      BY <2>2 DEF flags, counts, Sent, Holds, Told, Stops
    <3> QED  BY <3>1, ChannelStutters
  <2> QED  BY <1>7, <2>1, <2>2 DEF Writer_Close
<1>8. CASE Notify_One("writer", "done")
  <2>1. /\ pc.writer = "notify" /\ pc'.writer = "done"
        /\ pc'.reader = IF pc.reader = "asleep" THEN "retest" ELSE pc.reader
        /\ UNCHANGED <<reader, flags, counts, received>>
    BY <1>0, <1>8 DEF Notify_One, At, Woken, Placed
  <2>2. Stutter
    BY <2>1 DEF flags, counts, Sent, Holds, Told, Stops
  <2> QED  BY <2>2, ChannelStutters
<1>9. CASE Read_File
  <2>1. Stutter
    BY <1>0, <1>9 DEF Read_File, At, Go, flags, counts, Placed, Sent, Holds, Told, Stops
  <2> QED  BY <2>1, ChannelStutters
<1>10. CASE Echo_Start
  <2>1. Stutter
    BY <1>0, <1>10 DEF Echo_Start, At, Go, flags, counts, Placed, Sent, Holds, Told, Stops
  <2> QED  BY <2>1, ChannelStutters
<1>11. CASE Consume_Test
  <2>1. pc.reader = "test" /\ pc'.writer = pc.writer /\ UNCHANGED <<reader, flags, counts, received>>
    BY <1>0, <1>11 DEF Consume_Test, At, Go, Placed
  <2>2. CASE consumed < Length /\ ~Drained
    <3>1. pc'.reader = "P"
      BY <1>0, <1>11, <2>2 DEF Consume_Test, Go, Placed
    <3>2. Stutter
      BY <2>1, <3>1 DEF flags, counts, Sent, Holds, Told, Stops
    <3> QED  BY <3>2, ChannelStutters
  <2>3. CASE ~(consumed < Length /\ ~Drained)
    <3>1. pc'.reader = Returned
      BY <1>0, <1>11, <2>3 DEF Consume_Test, Go, Placed
    <3>2. consumed = 0 => Drained
      BY <2>3 DEF Length
    <3> QED  BY <2>1, <3>1, <3>2, ReturnReports
  <2> QED  BY <2>2, <2>3
<1>12. CASE Consume_P
  <2>1. Stutter
    BY <1>0, <1>12 DEF Consume_P, At, Go, flags, counts, Placed, Sent, Holds, Told, Stops
  <2> QED  BY <2>1, ChannelStutters
<1>13. CASE Consume_Retest
  <2>1. pc.reader = "retest" /\ pc'.writer = pc.writer /\ UNCHANGED <<reader, flags, counts, received>>
    BY <1>0, <1>13 DEF Consume_Retest, At, Go, Placed
  <2>2. CASE Drained
    <3>1. pc'.reader = Returned
      BY <1>0, <1>13, <2>2 DEF Consume_Retest, Go, Placed
    <3> QED  BY <2>1, <2>2, <3>1, ReturnReports
  <2>3. CASE ~Drained
    <3>1. pc'.reader = "pop"
      BY <1>0, <1>13, <2>3 DEF Consume_Retest, Go, Placed
    <3>2. Stutter
      BY <2>1, <3>1 DEF flags, counts, Sent, Holds, Told, Stops
    <3> QED  BY <3>2, ChannelStutters
  <2> QED  BY <2>2, <2>3
<1>14. CASE Consume_Pop
  BY <1>14, PopReceives DEF Ideal!Channel_Next
<1>15. CASE Consume_V
  <2>1. /\ pc.reader = "V" /\ pc'.reader = "test"
        /\ pc'.writer = IF producer.waiting > 0 /\ pc.writer = "asleep"
                        THEN "push" ELSE pc.writer
        /\ UNCHANGED <<reader, flags, counts, received>>
    BY <1>0, <1>15 DEF Consume_V, At, Woken, Placed
  <2>2. Stutter
    BY <2>1 DEF flags, counts, Sent, Holds, Told, Stops
  <2> QED  BY <2>2, ChannelStutters
<1>16. CASE Reader_Output
  <2>1. Stutter
    BY <1>0, <1>16 DEF Reader_Output, Go, flags, counts, Placed, Sent, Holds, Told, Stops
  <2> QED  BY <2>1, ChannelStutters
<1>17. CASE Shell_Close_Write
  <2>1. closed_output' = TRUE /\ Sent' = Sent /\ received' = received /\ Told' = Told
    BY <1>0, <1>17 DEF Shell_Close_Write, Close, At, Go, counts, Placed, Sent, Holds, Told, Stops
  <2> QED  BY <2>1, CloseCloses DEF Ideal!Channel_Next
<1>18. CASE Notify_One("shell", "close_read")
  <2>1. /\ pc'.writer = pc.writer
        /\ pc'.reader = IF pc.reader = "asleep" THEN "retest" ELSE pc.reader
        /\ UNCHANGED <<reader, flags, counts, received>>
    BY <1>0, <1>18 DEF Notify_One, At, Woken, Placed
  <2>2. Stutter
    BY <2>1 DEF flags, counts, Sent, Holds, Told, Stops
  <2> QED  BY <2>2, ChannelStutters
<1>19. CASE Shell_Close_Read
  <2>1. Stutter
    BY <1>0, <1>19 DEF Shell_Close_Read, At, Go, counts, Placed, Sent, Holds, Told, Stops
  <2> QED  BY <2>1, ChannelStutters
<1>20. CASE UNCHANGED pipe_vars
  <2>1. Stutter
    BY <1>20 DEF pipe_vars, flags, counts, Sent, Holds, Told, Stops
  <2> QED  BY <2>1, ChannelStutters
<1> QED
  BY <1>1, <1>2, <1>3, <1>4, <1>5, <1>6, <1>7, <1>8, <1>9, <1>10, <1>11, <1>12, <1>13,
     <1>14,
     <1>15, <1>16, <1>17, <1>18, <1>19, <1>20 DEF Pipe_Next, Writer_Step, Reader_Step, Shell_Step

(* A pipe is the bounded queue that Channel describes: what the reader     *)
(* gets is what the writer wrote, in order, at most PIPE_BUFFER_SIZE bytes *)
(* are under way, and Consume reports the end of the file only when the    *)
(* input is closed and every byte has been read.                           *)
THEOREM PipeImplementsChannel == Pipe_Spec => ImplementsChannel
<1>1. Pipe_Init => Ideal!Channel_Init
  BY DEF Pipe_Init, Ideal!Channel_Init, Sent, Holds
<1>2. PipeIInv /\ [Pipe_Next]_pipe_vars => [Ideal!Channel_Next]_(Ideal!channel_vars)
  BY PipeStepIsChannelStep
<1> QED  BY <1>1, <1>2, PipeInvariance, PTL DEF Pipe_Spec, ImplementsChannel, Ideal!Channel_Spec
=============================================================================
