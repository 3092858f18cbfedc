-------------------------------- MODULE AbiSteps --------------------------------
(* The vocabulary in which AbiV1 and AbiV2 write down the host calls: a host call*)
(* is the sequence of the steps that its Go function takes, each of which goes on*)
(* to the next one or returns early. AbiCalls says what each step does.          *)
EXTENDS Sequences

\* typed: a parameter has a named type other than int32 and int64;
\* outs: the parts of the answer that the guest is to get: a number of 64 bits has two
\* of them, its low half ("value") and its high half ("high").
HostCall(outs, steps) == [typed |-> FALSE, outs |-> outs, steps |-> steps]
TypedHostCall(outs, steps) == [typed |-> TRUE, outs |-> outs, steps |-> steps]

Step(op, arg) == [op |-> op, arg |-> arg]

\* Reading the arguments. arg is the code that is returned when the step refuses.
Object(code) == Step("Object", code)  \* a getter of the handler gives a buffer, map or store
Check(code) == Step("Check", code)    \* a condition on the arguments
Read == Step("Read", "InvalidMemoryAccess")
NonEmpty == Step("NonEmpty", "BadArgument")  \* what was read last is not empty
Decode == Step("Decode", "none")             \* common.DecodeMap of what was read last

\* Acting: on the handler, or on the object that it gave.
Invoke(method) == Step("Invoke", method)
Set == Step("Set", "none")
Del == Step("Del", "none")
Cas(code) == Step("Cas", code)
Splice(code) == Step("Splice", code)  \* start and length select what is replaced
Get(code) == Step("Get", code)        \* looks the key up in the object
IsEmpty(code) == Step("IsEmpty", code)
Range(code) == Step("Range", code)    \* clips start and length to the buffer
Slice == Step("Slice", "none")        \* cuts the range out of the buffer

\* Answering.
Malloc == Step("Malloc", "InvalidMemoryAccess")
PutMemory(code) == Step("PutMemory", code)
PutCount == Step("PutCount", "InvalidMemoryAccess")
PutPairs == Step("PutPairs", "none")
PutUint32(part) == Step("PutUint32", part)
=================================================================================
