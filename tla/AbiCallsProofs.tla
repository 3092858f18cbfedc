---------------------------- MODULE AbiCallsProofs ----------------------------
(* Theorems about AbiCalls, for memories of any size, any width of an int32, any *)
(* addresses and sizes, and buffers and maps of any length.                      *)
EXTENDS AbiCalls, TLAPS

-------------------------------------------------------------------------------
(* The host calls: in which order they ask, act and answer                       *)

Asking == {"Object", "Check", "Read", "NonEmpty", "Decode", "Get", "IsEmpty", "Range", "Slice"}
Answering == {"Malloc", "PutMemory", "PutCount", "PutPairs", "PutUint32"}

\* The codes that blame the guest's request, and those that blame its memory.
Refusals == Codes \ {"Ok", "InvalidMemoryAccess", "InternalFailure"}
Faults == {"InvalidMemoryAccess", "InternalFailure"}

Before(c, k, ops) == \E i \in 1..(k - 1) : c.steps[i].op \in ops

\* A call asks, then acts, then answers; each step refuses with a code of its kind.
InOrder(c) ==
  /\ Len(c.steps) \in Nat
  /\ \A i \in 1..Len(c.steps) : c.steps[i].op \in Asking \cup Acts \cup Answering
  /\ \A i, j \in 1..Len(c.steps) :
       i < j /\ c.steps[i].op \in Acts \cup Answering => c.steps[j].op \in Answering
  /\ \A i \in 1..Len(c.steps) :
       /\ c.steps[i].op \in Answering => c.outs # {}
       /\ c.steps[i].op \in {"Object", "Check", "NonEmpty", "Get", "IsEmpty", "Range", "Cas",
                             "Splice"} => c.steps[i].arg \in Refusals
       /\ c.steps[i].op \in {"Malloc", "PutMemory", "PutCount"} => c.steps[i].arg \in Faults
       /\ c.steps[i].op = "Read" => c.steps[i].arg = "InvalidMemoryAccess"

\* What is put in memory was allocated, with a size that the object, the handler or the
\* range has given; only PutPairs writes the entries of a map.
Measured(c) ==
  /\ \A i \in 1..Len(c.steps) :
       /\ c.steps[i].op = "Object" => i = 1
       /\ c.steps[i].op \in {"PutMemory", "PutCount", "PutPairs"} => Before(c, i, {"Malloc"})
       /\ c.steps[i].op = "PutMemory" => Before(c, i, {"Invoke", "Get", "Range"})
       /\ c.steps[i].op \in {"PutCount", "PutPairs"} =>
            c.steps[1].op = "Object" /\ i > 1 /\ ~Before(c, i, {"Invoke", "Get", "Range", "Slice"})
       /\ c.steps[i].op = "Slice" => i > 1 /\ c.steps[i - 1].op = "Range"
  /\ \A i, j \in 1..Len(c.steps) :
       i < j /\ c.steps[i].op \in Answering => c.steps[j].op # "Malloc"

\* The parts of an answer.
Parts == {"bytes", "data", "size", "cas", "value"}

\* Every part of the answer is written, but those left out.
Written(c, but) ==
  /\ \A i \in 1..Len(c.steps) : c.steps[i].op = "PutUint32" => c.steps[i].arg \in Parts
  /\ \A part \in c.outs \ but :
       \E i \in 1..Len(c.steps) : c.steps[i].op = "PutUint32" /\ c.steps[i].arg = part
  /\ "data" \in c.outs => Before(c, Len(c.steps) + 1, {"PutMemory", "PutPairs"})

Fits(c, but) == c.typed \in BOOLEAN /\ InOrder(c) /\ Measured(c) /\ Written(c, but)

LEMMA CallsV1 ==
  \A h \in DOMAIN V1!HostFunctions : Fits(V1!HostFunctions[h], Unwritten(h))
<1> USE DEF Fits, InOrder, Measured, Written, Before, Parts, Asking, Acts, Answering,
            Refusals, Faults, Codes,
            V1!HostCall, V1!Step, V1!Object, V1!Check, V1!Read, V1!NonEmpty, V1!Decode,
            V1!Invoke, V1!Set, V1!Del, V1!Cas, V1!Splice, V1!Get, V1!IsEmpty, V1!Range,
            V1!Slice, V1!Malloc, V1!PutMemory, V1!PutCount, V1!PutPairs, V1!PutUint32,
            V1!ReadKey, V1!copyIntoInstance, V1!GetBuffer, V1!GetMap,
            V1!copyBytesIntoInstance
<1>1. Fits(V1!ProxyLog, {})
  BY DEF V1!ProxyLog
<1>2. Fits(V1!ProxySetEffectiveContext, {})
  BY DEF V1!ProxySetEffectiveContext
<1>3. Fits(V1!ProxySetTickPeriodMilliseconds, {})
  BY DEF V1!ProxySetTickPeriodMilliseconds
<1>4. Fits(V1!ProxyGetCurrentTimeNanoseconds, {"high"})
  BY DEF V1!ProxyGetCurrentTimeNanoseconds
<1>5. Fits(V1!ProxyDone, {})
  BY DEF V1!ProxyDone
<1>6. Fits(V1!ProxyCallForeignFunction, {})
  <2> USE DEF V1!ProxyCallForeignFunction
  <2>1. InOrder(V1!ProxyCallForeignFunction)
    OBVIOUS
  <2>2. Measured(V1!ProxyCallForeignFunction)
    OBVIOUS
  <2>3. Written(V1!ProxyCallForeignFunction, {})
    OBVIOUS
  <2>4. V1!ProxyCallForeignFunction.typed \in BOOLEAN
    OBVIOUS
  <2> HIDE DEF InOrder, Measured, Written, V1!ProxyCallForeignFunction
  <2> QED BY <2>1, <2>2, <2>3, <2>4
<1>7. Fits(V1!ProxyResumeDownstream, {})
  BY DEF V1!ProxyResumeDownstream
<1>8. Fits(V1!ProxyResumeUpstream, {})
  BY DEF V1!ProxyResumeUpstream
<1>9. Fits(V1!ProxyGetProperty, {})
  <2> USE DEF V1!ProxyGetProperty
  <2>1. InOrder(V1!ProxyGetProperty)
    OBVIOUS
  <2>2. Measured(V1!ProxyGetProperty)
    OBVIOUS
  <2>3. Written(V1!ProxyGetProperty, {})
    OBVIOUS
  <2>4. V1!ProxyGetProperty.typed \in BOOLEAN
    OBVIOUS
  <2> HIDE DEF InOrder, Measured, Written, V1!ProxyGetProperty
  <2> QED BY <2>1, <2>2, <2>3, <2>4
<1>10. Fits(V1!ProxySetProperty, {})
  BY DEF V1!ProxySetProperty
<1>11. Fits(V1!ProxyRegisterSharedQueue, {})
  BY DEF V1!ProxyRegisterSharedQueue
<1>12. Fits(V1!ProxyRemoveSharedQueue, {})
  BY DEF V1!ProxyRemoveSharedQueue
<1>13. Fits(V1!ProxyResolveSharedQueue, {})
  BY DEF V1!ProxyResolveSharedQueue
<1>14. Fits(V1!ProxyDequeueSharedQueue, {})
  <2> USE DEF V1!ProxyDequeueSharedQueue
  <2>1. InOrder(V1!ProxyDequeueSharedQueue)
    OBVIOUS
  <2>2. Measured(V1!ProxyDequeueSharedQueue)
    OBVIOUS
  <2>3. Written(V1!ProxyDequeueSharedQueue, {})
    OBVIOUS
  <2>4. V1!ProxyDequeueSharedQueue.typed \in BOOLEAN
    OBVIOUS
  <2> HIDE DEF InOrder, Measured, Written, V1!ProxyDequeueSharedQueue
  <2> QED BY <2>1, <2>2, <2>3, <2>4
<1>15. Fits(V1!ProxyEnqueueSharedQueue, {})
  BY DEF V1!ProxyEnqueueSharedQueue
<1>16. Fits(V1!ProxyGetSharedData, {})
  <2> USE DEF V1!ProxyGetSharedData
  <2>1. InOrder(V1!ProxyGetSharedData)
    OBVIOUS
  <2>2. Measured(V1!ProxyGetSharedData)
    OBVIOUS
  <2>3. Written(V1!ProxyGetSharedData, {})
    OBVIOUS
  <2>4. V1!ProxyGetSharedData.typed \in BOOLEAN
    OBVIOUS
  <2> HIDE DEF InOrder, Measured, Written, V1!ProxyGetSharedData
  <2> QED BY <2>1, <2>2, <2>3, <2>4
<1>17. Fits(V1!ProxySetSharedData, {})
  BY DEF V1!ProxySetSharedData
<1>18. Fits(V1!ProxyGetBufferBytes, {})
  <2> USE DEF V1!ProxyGetBufferBytes
  <2>1. InOrder(V1!ProxyGetBufferBytes)
    OBVIOUS
  <2>2. Measured(V1!ProxyGetBufferBytes)
    OBVIOUS
  <2>3. Written(V1!ProxyGetBufferBytes, {})
    OBVIOUS
  <2>4. V1!ProxyGetBufferBytes.typed \in BOOLEAN
    OBVIOUS
  <2> HIDE DEF InOrder, Measured, Written, V1!ProxyGetBufferBytes
  <2> QED BY <2>1, <2>2, <2>3, <2>4
<1>19. Fits(V1!ProxySetBufferBytes, {})
  BY DEF V1!ProxySetBufferBytes
<1>20. Fits(V1!ProxyGetHeaderMapPairs, {})
  <2> USE DEF V1!ProxyGetHeaderMapPairs
  <2>1. InOrder(V1!ProxyGetHeaderMapPairs)
    OBVIOUS
  <2>2. Measured(V1!ProxyGetHeaderMapPairs)
    OBVIOUS
  <2>3. Written(V1!ProxyGetHeaderMapPairs, {})
    OBVIOUS
  <2>4. V1!ProxyGetHeaderMapPairs.typed \in BOOLEAN
    OBVIOUS
  <2> HIDE DEF InOrder, Measured, Written, V1!ProxyGetHeaderMapPairs
  <2> QED BY <2>1, <2>2, <2>3, <2>4
<1>21. Fits(V1!ProxySetHeaderMapPairs, {})
  BY DEF V1!ProxySetHeaderMapPairs
<1>22. Fits(V1!ProxyGetHeaderMapValue, {})
  <2> USE DEF V1!ProxyGetHeaderMapValue
  <2>1. InOrder(V1!ProxyGetHeaderMapValue)
    OBVIOUS
  <2>2. Measured(V1!ProxyGetHeaderMapValue)
    OBVIOUS
  <2>3. Written(V1!ProxyGetHeaderMapValue, {})
    OBVIOUS
  <2>4. V1!ProxyGetHeaderMapValue.typed \in BOOLEAN
    OBVIOUS
  <2> HIDE DEF InOrder, Measured, Written, V1!ProxyGetHeaderMapValue
  <2> QED BY <2>1, <2>2, <2>3, <2>4
<1>23. Fits(V1!ProxyReplaceHeaderMapValue, {})
  <2> USE DEF V1!ProxyReplaceHeaderMapValue
  <2>1. InOrder(V1!ProxyReplaceHeaderMapValue)
    OBVIOUS
  <2>2. Measured(V1!ProxyReplaceHeaderMapValue)
    OBVIOUS
  <2>3. Written(V1!ProxyReplaceHeaderMapValue, {})
    OBVIOUS
  <2>4. V1!ProxyReplaceHeaderMapValue.typed \in BOOLEAN
    OBVIOUS
  <2> HIDE DEF InOrder, Measured, Written, V1!ProxyReplaceHeaderMapValue
  <2> QED BY <2>1, <2>2, <2>3, <2>4
<1>24. Fits(V1!ProxyAddHeaderMapValue, {})
  BY DEF V1!ProxyAddHeaderMapValue
<1>25. Fits(V1!ProxyRemoveHeaderMapValue, {})
  BY DEF V1!ProxyRemoveHeaderMapValue
<1>26. Fits(V1!ProxyResumeHttpRequest, {})
  BY DEF V1!ProxyResumeHttpRequest
<1>27. Fits(V1!ProxyResumeHttpResponse, {})
  BY DEF V1!ProxyResumeHttpResponse
<1>28. Fits(V1!ProxySendHttpResponse, {})
  BY DEF V1!ProxySendHttpResponse
<1>29. Fits(V1!ProxyHttpCall, {})
  <2> USE DEF V1!ProxyHttpCall
  <2>1. InOrder(V1!ProxyHttpCall)
    OBVIOUS
  <2>2. Measured(V1!ProxyHttpCall)
    OBVIOUS
  <2>3. Written(V1!ProxyHttpCall, {})
    OBVIOUS
  <2>4. V1!ProxyHttpCall.typed \in BOOLEAN
    OBVIOUS
  <2> HIDE DEF InOrder, Measured, Written, V1!ProxyHttpCall
  <2> QED BY <2>1, <2>2, <2>3, <2>4
<1>30. Fits(V1!ProxyOpenGrpcStream, {})
  <2> USE DEF V1!ProxyOpenGrpcStream
  <2>1. InOrder(V1!ProxyOpenGrpcStream)
    OBVIOUS
  <2>2. Measured(V1!ProxyOpenGrpcStream)
    OBVIOUS
  <2>3. Written(V1!ProxyOpenGrpcStream, {})
    OBVIOUS
  <2>4. V1!ProxyOpenGrpcStream.typed \in BOOLEAN
    OBVIOUS
  <2> HIDE DEF InOrder, Measured, Written, V1!ProxyOpenGrpcStream
  <2> QED BY <2>1, <2>2, <2>3, <2>4
<1>31. Fits(V1!ProxySendGrpcCallMessage, {})
  BY DEF V1!ProxySendGrpcCallMessage
<1>32. Fits(V1!ProxyCancelGrpcCall, {})
  BY DEF V1!ProxyCancelGrpcCall
<1>33. Fits(V1!ProxyCloseGrpcCall, {})
  BY DEF V1!ProxyCloseGrpcCall
<1>34. Fits(V1!ProxyGrpcCall, {})
  <2> USE DEF V1!ProxyGrpcCall
  <2>1. InOrder(V1!ProxyGrpcCall)
    OBVIOUS
  <2>2. Measured(V1!ProxyGrpcCall)
    OBVIOUS
  <2>3. Written(V1!ProxyGrpcCall, {})
    OBVIOUS
  <2>4. V1!ProxyGrpcCall.typed \in BOOLEAN
    OBVIOUS
  <2> HIDE DEF InOrder, Measured, Written, V1!ProxyGrpcCall
  <2> QED BY <2>1, <2>2, <2>3, <2>4
<1>35. Fits(V1!ProxyDefineMetric, {})
  <2> USE DEF V1!ProxyDefineMetric
  <2>1. InOrder(V1!ProxyDefineMetric)
    OBVIOUS
  <2>2. Measured(V1!ProxyDefineMetric)
    OBVIOUS
  <2>3. Written(V1!ProxyDefineMetric, {})
    OBVIOUS
  <2>4. V1!ProxyDefineMetric.typed \in BOOLEAN
    OBVIOUS
  <2> HIDE DEF InOrder, Measured, Written, V1!ProxyDefineMetric
  <2> QED BY <2>1, <2>2, <2>3, <2>4
<1>36. Fits(V1!ProxyIncrementMetric, {})
  BY DEF V1!ProxyIncrementMetric
<1>37. Fits(V1!ProxyRecordMetric, {})
  BY DEF V1!ProxyRecordMetric
<1>38. Fits(V1!ProxyGetMetric, {"high"})
  BY DEF V1!ProxyGetMetric
<1>39. Fits(V1!ProxyRemoveMetric, {})
  BY DEF V1!ProxyRemoveMetric
<1> HIDE DEF Fits
<1> QED
  BY <1>1, <1>2, <1>3, <1>4, <1>5, <1>6, <1>7, <1>8, <1>9, <1>10, <1>11, <1>12, <1>13,
     <1>14, <1>15, <1>16, <1>17, <1>18, <1>19, <1>20, <1>21, <1>22, <1>23, <1>24,
     <1>25, <1>26, <1>27, <1>28, <1>29, <1>30, <1>31, <1>32, <1>33, <1>34, <1>35,
     <1>36, <1>37, <1>38, <1>39
     DEF V1!HostFunctions, Unwritten

LEMMA CallsV2 ==
  \A h \in DOMAIN V2!HostFunctions : Fits(V2!HostFunctions[h], Unwritten(h))
<1> USE DEF Fits, InOrder, Measured, Written, Before, Parts, Asking, Acts, Answering,
            Refusals, Faults, Codes,
            V2!HostCall, V2!TypedHostCall, V2!Step, V2!Object, V2!Check, V2!Read,
            V2!NonEmpty, V2!Decode, V2!Invoke, V2!Set, V2!Del, V2!Cas, V2!Splice,
            V2!Get, V2!IsEmpty, V2!Range, V2!Slice, V2!Malloc, V2!PutMemory,
            V2!PutCount, V2!PutPairs, V2!PutUint32, V2!ReadKey, V2!copyIntoInstance,
            V2!GetBuffer, V2!GetMap, V2!KvStore
<1>1. Fits(V2!ProxyLog, {})
  BY DEF V2!ProxyLog
<1>2. Fits(V2!ProxySetEffectiveContext, {})
  BY DEF V2!ProxySetEffectiveContext
<1>3. Fits(V2!ProxyContextFinalize, {})
  BY DEF V2!ProxyContextFinalize
<1>4. Fits(V2!ProxyResumeStream, {})
  BY DEF V2!ProxyResumeStream
<1>5. Fits(V2!ProxyCloseStream, {})
  BY DEF V2!ProxyCloseStream
<1>6. Fits(V2!ProxySendHttpResponse, {})
  BY DEF V2!ProxySendHttpResponse
<1>7. Fits(V2!ProxyResumeHttpStream, {})
  BY DEF V2!ProxyResumeHttpStream
<1>8. Fits(V2!ProxyCloseHttpStream, {})
  BY DEF V2!ProxyCloseHttpStream
<1>9. Fits(V2!ProxyGetBuffer, {})
  <2> USE DEF V2!ProxyGetBuffer
  <2>1. InOrder(V2!ProxyGetBuffer)
    OBVIOUS
  <2>2. Measured(V2!ProxyGetBuffer)
    OBVIOUS
  <2>3. Written(V2!ProxyGetBuffer, {})
    OBVIOUS
  <2>4. V2!ProxyGetBuffer.typed \in BOOLEAN
    OBVIOUS
  <2> HIDE DEF InOrder, Measured, Written, V2!ProxyGetBuffer
  <2> QED BY <2>1, <2>2, <2>3, <2>4
<1>10. Fits(V2!ProxySetBuffer, {})
  BY DEF V2!ProxySetBuffer
<1>11. Fits(V2!ProxyGetHeaderMapPairs, {})
  <2> USE DEF V2!ProxyGetHeaderMapPairs
  <2>1. InOrder(V2!ProxyGetHeaderMapPairs)
    OBVIOUS
  <2>2. Measured(V2!ProxyGetHeaderMapPairs)
    OBVIOUS
  <2>3. Written(V2!ProxyGetHeaderMapPairs, {})
    OBVIOUS
  <2>4. V2!ProxyGetHeaderMapPairs.typed \in BOOLEAN
    OBVIOUS
  <2> HIDE DEF InOrder, Measured, Written, V2!ProxyGetHeaderMapPairs
  <2> QED BY <2>1, <2>2, <2>3, <2>4
<1>12. Fits(V2!ProxyGetHeaderMapValue, {})
  <2> USE DEF V2!ProxyGetHeaderMapValue
  <2>1. InOrder(V2!ProxyGetHeaderMapValue)
    OBVIOUS
  <2>2. Measured(V2!ProxyGetHeaderMapValue)
    OBVIOUS
  <2>3. Written(V2!ProxyGetHeaderMapValue, {})
    OBVIOUS
  <2>4. V2!ProxyGetHeaderMapValue.typed \in BOOLEAN
    OBVIOUS
  <2> HIDE DEF InOrder, Measured, Written, V2!ProxyGetHeaderMapValue
  <2> QED BY <2>1, <2>2, <2>3, <2>4
<1>13. Fits(V2!ProxyReplaceHeaderMapValue, {})
  BY DEF V2!ProxyReplaceHeaderMapValue
<1>14. Fits(V2!ProxyOpenSharedKvstore, {})
  BY DEF V2!ProxyOpenSharedKvstore
<1>15. Fits(V2!ProxyGetSharedKvstoreKeyValues, {"cas"})
  <2> USE DEF V2!ProxyGetSharedKvstoreKeyValues
  <2>1. InOrder(V2!ProxyGetSharedKvstoreKeyValues)
    OBVIOUS
  <2>2. Measured(V2!ProxyGetSharedKvstoreKeyValues)
    BY SMTT(20)
  <2>3. Written(V2!ProxyGetSharedKvstoreKeyValues, {"cas"})
    OBVIOUS
  <2>4. V2!ProxyGetSharedKvstoreKeyValues.typed \in BOOLEAN
    OBVIOUS
  <2> HIDE DEF InOrder, Measured, Written, V2!ProxyGetSharedKvstoreKeyValues
  <2> QED BY <2>1, <2>2, <2>3, <2>4
<1>16. Fits(V2!ProxySetSharedKvstoreKeyValues, {})
  <2> USE DEF V2!ProxySetSharedKvstoreKeyValues
  <2>1. InOrder(V2!ProxySetSharedKvstoreKeyValues)
    OBVIOUS
  <2>2. Measured(V2!ProxySetSharedKvstoreKeyValues)
    OBVIOUS
  <2>3. Written(V2!ProxySetSharedKvstoreKeyValues, {})
    OBVIOUS
  <2>4. V2!ProxySetSharedKvstoreKeyValues.typed \in BOOLEAN
    OBVIOUS
  <2> HIDE DEF InOrder, Measured, Written, V2!ProxySetSharedKvstoreKeyValues
  <2> QED BY <2>1, <2>2, <2>3, <2>4
<1>17. Fits(V2!ProxyAddSharedKvstoreKeyValues, {})
  BY DEF V2!ProxyAddSharedKvstoreKeyValues
<1>18. Fits(V2!ProxyRemoveSharedKvstoreKey, {})
  BY DEF V2!ProxyRemoveSharedKvstoreKey
<1>19. Fits(V2!ProxyDeleteSharedKvstore, {})
  BY DEF V2!ProxyDeleteSharedKvstore
<1>20. Fits(V2!ProxyOpenSharedQueue, {})
  BY DEF V2!ProxyOpenSharedQueue
<1>21. Fits(V2!ProxyDequeueSharedQueueItem, {})
  <2> USE DEF V2!ProxyDequeueSharedQueueItem
  <2>1. InOrder(V2!ProxyDequeueSharedQueueItem)
    OBVIOUS
  <2>2. Measured(V2!ProxyDequeueSharedQueueItem)
    OBVIOUS
  <2>3. Written(V2!ProxyDequeueSharedQueueItem, {})
    OBVIOUS
  <2>4. V2!ProxyDequeueSharedQueueItem.typed \in BOOLEAN
    OBVIOUS
  <2> HIDE DEF InOrder, Measured, Written, V2!ProxyDequeueSharedQueueItem
  <2> QED BY <2>1, <2>2, <2>3, <2>4
<1>22. Fits(V2!ProxyEnqueueSharedQueueItem, {})
  BY DEF V2!ProxyEnqueueSharedQueueItem
<1>23. Fits(V2!ProxyDeleteSharedQueue, {})
  BY DEF V2!ProxyDeleteSharedQueue
<1>24. Fits(V2!ProxyCreateTimer, {})
  BY DEF V2!ProxyCreateTimer
<1>25. Fits(V2!ProxyDeleteTimer, {})
  BY DEF V2!ProxyDeleteTimer
<1>26. Fits(V2!ProxyCreateMetric, {})
  BY DEF V2!ProxyCreateMetric
<1>27. Fits(V2!ProxyGetMetricValue, {"high"})
  BY DEF V2!ProxyGetMetricValue
<1>28. Fits(V2!ProxySetMetricValue, {})
  BY DEF V2!ProxySetMetricValue
<1>29. Fits(V2!ProxyIncrementMetricValue, {})
  BY DEF V2!ProxyIncrementMetricValue
<1>30. Fits(V2!ProxyDeleteMetric, {})
  BY DEF V2!ProxyDeleteMetric
<1>31. Fits(V2!ProxyDispatchHttpCall, {})
  <2> USE DEF V2!ProxyDispatchHttpCall
  <2>1. InOrder(V2!ProxyDispatchHttpCall)
    OBVIOUS
  <2>2. Measured(V2!ProxyDispatchHttpCall)
    OBVIOUS
  <2>3. Written(V2!ProxyDispatchHttpCall, {})
    OBVIOUS
  <2>4. V2!ProxyDispatchHttpCall.typed \in BOOLEAN
    OBVIOUS
  <2> HIDE DEF InOrder, Measured, Written, V2!ProxyDispatchHttpCall
  <2> QED BY <2>1, <2>2, <2>3, <2>4
<1>32. Fits(V2!ProxyDispatchGrpcCall, {})
  <2> USE DEF V2!ProxyDispatchGrpcCall
  <2>1. InOrder(V2!ProxyDispatchGrpcCall)
    OBVIOUS
  <2>2. Measured(V2!ProxyDispatchGrpcCall)
    OBVIOUS
  <2>3. Written(V2!ProxyDispatchGrpcCall, {})
    OBVIOUS
  <2>4. V2!ProxyDispatchGrpcCall.typed \in BOOLEAN
    OBVIOUS
  <2> HIDE DEF InOrder, Measured, Written, V2!ProxyDispatchGrpcCall
  <2> QED BY <2>1, <2>2, <2>3, <2>4
<1>33. Fits(V2!ProxyOpenGrpcStream, {})
  <2> USE DEF V2!ProxyOpenGrpcStream
  <2>1. InOrder(V2!ProxyOpenGrpcStream)
    OBVIOUS
  <2>2. Measured(V2!ProxyOpenGrpcStream)
    OBVIOUS
  <2>3. Written(V2!ProxyOpenGrpcStream, {})
    OBVIOUS
  <2>4. V2!ProxyOpenGrpcStream.typed \in BOOLEAN
    OBVIOUS
  <2> HIDE DEF InOrder, Measured, Written, V2!ProxyOpenGrpcStream
  <2> QED BY <2>1, <2>2, <2>3, <2>4
<1>34. Fits(V2!ProxySendGrpcStreamMessage, {})
  BY DEF V2!ProxySendGrpcStreamMessage
<1>35. Fits(V2!ProxyCancelGrpcCall, {})
  BY DEF V2!ProxyCancelGrpcCall
<1>36. Fits(V2!ProxyCloseGrpcCall, {})
  BY DEF V2!ProxyCloseGrpcCall
<1>37. Fits(V2!ProxyCallCustomFunction, {})
  <2> USE DEF V2!ProxyCallCustomFunction
  <2>1. InOrder(V2!ProxyCallCustomFunction)
    OBVIOUS
  <2>2. Measured(V2!ProxyCallCustomFunction)
    OBVIOUS
  <2>3. Written(V2!ProxyCallCustomFunction, {})
    OBVIOUS
  <2>4. V2!ProxyCallCustomFunction.typed \in BOOLEAN
    OBVIOUS
  <2> HIDE DEF InOrder, Measured, Written, V2!ProxyCallCustomFunction
  <2> QED BY <2>1, <2>2, <2>3, <2>4
<1> HIDE DEF Fits
<1> QED
  BY <1>1, <1>2, <1>3, <1>4, <1>5, <1>6, <1>7, <1>8, <1>9, <1>10, <1>11, <1>12, <1>13,
     <1>14, <1>15, <1>16, <1>17, <1>18, <1>19, <1>20, <1>21, <1>22, <1>23, <1>24,
     <1>25, <1>26, <1>27, <1>28, <1>29, <1>30, <1>31, <1>32, <1>33, <1>34, <1>35,
     <1>36, <1>37
     DEF V2!HostFunctions, Unwritten

-------------------------------------------------------------------------------
(* The tables                                                                    *)

\* The exports of both ABIs, and the three uses of their outcome.
Shapes == {"error", "int32", "action"}

LEMMA ExportShapes == \A e \in DOMAIN Exports : Exports[e] \in Shapes
<1>1. \A e \in DOMAIN V1!Exports : V1!Exports[e] \in Shapes
  <2>1. \A group \in V1!ExportGroups : \A e \in DOMAIN group : group[e] \in Shapes
    BY DEF Shapes, V1!ExportGroups, V1!LifecycleExports, V1!StreamExports,
       V1!HttpExports, V1!CalloutExports
  <2>2. ASSUME NEW e \in DOMAIN V1!Exports
        PROVE  \E group \in V1!ExportGroups : e \in DOMAIN group
    BY DEF V1!Exports
  <2> QED BY <2>1, <2>2 DEF V1!Exports
<1>2. \A e \in DOMAIN V2!Exports : V2!Exports[e] \in Shapes
  <2>1. \A group \in V2!ExportGroups : \A e \in DOMAIN group : group[e] \in Shapes
    BY DEF Shapes, V2!ExportGroups, V2!LifecycleExports, V2!StreamExports,
       V2!HttpExports, V2!CalloutExports
  <2>2. ASSUME NEW e \in DOMAIN V2!Exports
        PROVE  \E group \in V2!ExportGroups : e \in DOMAIN group
    BY DEF V2!Exports
  <2> QED BY <2>1, <2>2 DEF V2!Exports
<1> QED BY <1>1, <1>2 DEF Exports

\* What the tables say of a host call of either ABI.
LEMMA Calls ==
  \A h \in DOMAIN HostFunctions :
    Fits(HostFunctions[h], Unwritten(h))
  BY CallsV1, CallsV2 DEF HostFunctions

-------------------------------------------------------------------------------
(* Numbers of Word values, signed and unsigned                                   *)

LEMMA Half ==
  /\ Word \in Nat /\ Word \div 2 \in Nat /\ Word = 2 * (Word \div 2) /\ Word \div 2 > 4
  BY WordAssumption DEF WordAssumption

LEMMA Unsigned ==
  ASSUME NEW x \in Int
  PROVE  /\ 0 <= x /\ x < Word => Uint32(x) = x
         /\ -Word <= x /\ x < 0 => Uint32(x) = x + Word
         /\ Uint32(x) \in 0..(Word - 1)
<1>1. Word \in Nat /\ Word > 8
  BY WordAssumption DEF WordAssumption
<1>2. 0 <= x /\ x < Word => x % Word = x
  BY <1>1
<1>3. -Word <= x /\ x < 0 => x % Word = x + Word
  BY <1>1
<1>4. x % Word \in 0..(Word - 1)
  BY <1>1
<1> QED BY <1>2, <1>3, <1>4 DEF Uint32

LEMMA Signed ==
  ASSUME NEW x \in Int
  PROVE  /\ x \in Int32 => ToInt32(x) = x
         /\ Word \div 2 <= x /\ x < Word => ToInt32(x) = x - Word
         /\ ToInt32(x) \in Int32
<1> DEFINE H == Word \div 2
<1>1. Word \in Nat /\ H \in Nat /\ Word = 2 * H /\ H > 4
  BY Half
<1> HIDE DEF H
<1>2. x \in -H..(H - 1) => (x + H) % Word = x + H
  BY <1>1
<1>3. H <= x /\ x < Word => (x + H) % Word = x + H - Word
  BY <1>1
<1>4. (x + H) % Word \in 0..(Word - 1)
  BY <1>1
<1> QED BY <1>1, <1>2, <1>3, <1>4 DEF ToInt32, Int32, H

\* The unsigned value of an int32.
LEMMA UnsignedInt32 ==
  ASSUME NEW a \in Int32
  PROVE  /\ a \in Int
         /\ a >= 0 => Uint32(a) = a /\ a < Word \div 2
         /\ a < 0 => Uint32(a) = a + Word /\ Uint32(a) >= Word \div 2 /\ Uint32(a) < Word
  BY Half, Unsigned DEF Int32

-------------------------------------------------------------------------------
(* The accessors                                                                 *)

\* On either engine the embedder and the guest see the same memory: wherever an
\* address and a size are not negative, the accessors of wazero and of wasmer agree.
LEMMA SameMemory ==
  ASSUME NEW mem \in 1..Word, NEW a \in Int32, NEW n \in Int32
  PROVE  /\ a >= 0 /\ n >= 0 =>
              /\ WazeroGetMemory(mem, a, n) = WasmerGetMemory(mem, a, n)
              /\ WazeroPutMemory(mem, a, n, n) = WasmerPutMemory(mem, a, n)
              /\ WazeroGetUint32(mem, a) = WasmerGetUint32(mem, a)
              /\ WazeroPutUint32(mem, a) = WasmerPutUint32(mem, a)
         /\ a >= 0 =>
              /\ \/ WazeroGetByte(mem, a) = WasmerGetByte(mem, a)
                 \/ a = mem /\ WazeroGetByte(mem, a) = "err" /\ WasmerGetByte(mem, a) = "panic"
              /\ \/ WazeroPutByte(mem, a) = WasmerPutByte(mem, a)
                 \/ a = mem /\ WazeroPutByte(mem, a) = "err" /\ WasmerPutByte(mem, a) = "panic"
         /\ a < 0 =>
              /\ WasmerGetMemory(mem, a, n) # "ok" /\ WasmerPutMemory(mem, a, n) # "ok"
              /\ WasmerGetUint32(mem, a) # "ok" /\ WasmerPutUint32(mem, a) # "ok"
              /\ WasmerGetByte(mem, a) # "ok" /\ WasmerPutByte(mem, a) # "ok"
<1>1. a \in Int /\ n \in Int /\ mem \in Int /\ mem > 0
  BY Half DEF Int32
<1>2. (a >= 0 => Uint32(a) = a) /\ (n >= 0 => Uint32(n) = n)
  BY UnsignedInt32
<1>3. ASSUME a >= 0, n >= 0
      PROVE  /\ WazeroGetMemory(mem, a, n) = WasmerGetMemory(mem, a, n)
             /\ WazeroPutMemory(mem, a, n, n) = WasmerPutMemory(mem, a, n)
  BY <1>1, <1>2, <1>3 DEF WazeroGetMemory, WasmerGetMemory, WazeroPutMemory,
     WasmerPutMemory, HasSize, OkOrErr, Beyond
<1>4. ASSUME a >= 0
      PROVE  /\ WazeroGetUint32(mem, a) = WasmerGetUint32(mem, a)
             /\ WazeroPutUint32(mem, a) = WasmerPutUint32(mem, a)
  BY <1>1, <1>2, <1>4 DEF WazeroGetUint32, WasmerGetUint32, WazeroPutUint32,
     WasmerPutUint32, HasSize, OkOrErr, Beyond, u32Len
<1>5. ASSUME a >= 0
      PROVE  /\ \/ WazeroGetByte(mem, a) = WasmerGetByte(mem, a)
                \/ a = mem /\ WazeroGetByte(mem, a) = "err" /\ WasmerGetByte(mem, a) = "panic"
             /\ \/ WazeroPutByte(mem, a) = WasmerPutByte(mem, a)
                \/ a = mem /\ WazeroPutByte(mem, a) = "err" /\ WasmerPutByte(mem, a) = "panic"
  BY <1>1, <1>2, <1>5 DEF WazeroGetByte, WasmerGetByte, WazeroPutByte, WasmerPutByte,
     HasSize, OkOrErr
<1>6. ASSUME a < 0
      PROVE  /\ WasmerGetMemory(mem, a, n) # "ok" /\ WasmerPutMemory(mem, a, n) # "ok"
             /\ WasmerGetUint32(mem, a) # "ok" /\ WasmerPutUint32(mem, a) # "ok"
             /\ WasmerGetByte(mem, a) # "ok" /\ WasmerPutByte(mem, a) # "ok"
  BY <1>1, <1>6 DEF WasmerGetMemory, WasmerPutMemory, WasmerGetUint32, WasmerPutUint32,
     WasmerGetByte, WasmerPutByte
<1> QED BY <1>3, <1>4, <1>5, <1>6

\* The environment never changes, and the memory it says fits in Word.
LEMMA EnvironmentStays == Spec => [](env \in Environments)
<1>1. Init => env \in Environments
  BY DEF Init
<1>2. env \in Environments /\ [Next]_vars => (env \in Environments)'
  BY DEF Next, vars, outside, CallExport, GuestReturns, GuestTraps, CallHost, BackToGuest,
     At, Object, Check, Read, NonEmpty, Decode, Invoke, Change, Splice, Get, IsEmpty,
     Range, Slice, Malloc, PutContent, PutCount, PutPairs, PutUint32, ReturnOk
<1> QED BY <1>1, <1>2, PTL DEF Spec

\* The engines agree on what guest memory is: an access that is not to a negative
\* address and of a negative size succeeds on both or fails in the same way on both, but
\* for a byte one past the end; wasmer never serves an address from 2 GiB on.
THEOREM EnginesAgree == Spec => []AccessorsAgree
<1>1. env \in Environments => AccessorsAgree
  <2> SUFFICES ASSUME env \in Environments, NEW a \in Int32, NEW n \in Int32
               PROVE  LET mem == env.mem
                          pairs == {<<WazeroGetMemory(mem, a, n), WasmerGetMemory(mem, a, n)>>,
                                    <<WazeroPutMemory(mem, a, n, n), WasmerPutMemory(mem, a, n)>>,
                                    <<WazeroGetUint32(mem, a), WasmerGetUint32(mem, a)>>,
                                    <<WazeroPutUint32(mem, a), WasmerPutUint32(mem, a)>>}
                          bytes == {<<WazeroGetByte(mem, a), WasmerGetByte(mem, a)>>,
                                    <<WazeroPutByte(mem, a), WasmerPutByte(mem, a)>>}
                      IN  /\ a >= 0 /\ n >= 0 => \A p \in pairs : p[1] = p[2]
                          /\ a >= 0 => \A p \in bytes :
                               p[1] = p[2] \/ (a = mem /\ p = <<"err", "panic">>)
                          /\ a < 0 => \A p \in pairs \cup bytes : p[2] # "ok"
    BY DEF AccessorsAgree
  <2>1. env.mem \in 1..Word
    BY MemoriesAssumption DEF Environments, MemoriesAssumption
  <2> QED BY <2>1, SameMemory
<1> QED BY <1>1, EnvironmentStays, PTL

-------------------------------------------------------------------------------
(* The steps of a host call                                                      *)

HostStep ==
  \/ Object \/ Check \/ Read \/ NonEmpty \/ Decode \/ Invoke \/ Change \/ Splice
  \/ Get \/ IsEmpty \/ Range \/ Slice \/ Malloc \/ PutContent \/ PutCount
  \/ PutPairs \/ PutUint32

Frames ==
  [done : BOOLEAN, given : SUBSET Parts, len : {0, 1}, n : Int32, addr : Int32,
   size : 0..MaxLen, whole : 0..MaxLen, start : Int32, asked : Int32,
   from : Int, sent : 0..(MaxLen + 1)]

\* Where the call is: inside of its steps while the host runs, and at the end of them
\* or at the step that refused when it has answered. Only then there is a result.
Placed ==
  /\ pc \in {"host", "answered"} => call \in DOMAIN HostFunctions
  /\ pc = "host" => at \in 1..(Len(steps) + 1)
  /\ pc # "answered" => result = "none"

Typed == TypeOK /\ Placed /\ f \in Frames /\ caller \in Shapes \cup {"none", "_start"}

\* A step that refuses: it answers with a code of its kind, and the host has neither
\* acted nor given anything in it.
RefusesAs(op, code) ==
  \/ code = "panic"
  \/ op \in (Asking \cup Acts) \ {"Decode"} /\ code \in Refusals
  \/ op \in Answering \cup {"Read"} /\ code = "InvalidMemoryAccess"
  \/ op \in Answering /\ code = "InternalFailure"

Refuse ==
  /\ Return(result')
  /\ f' = [f EXCEPT !.len = f'.len]
  /\ RefusesAs(steps[at].op, result')

\* The default handlers answer with Ok or refuse the request.
LEMMA HandlerAnswers == \A m : DefaultHandler(m) \subseteq Refusals \cup {"Ok"}
  BY DEF DefaultHandler, V1!DefaultHandler, V2!DefaultHandler, Refusals, Codes

\* What an access of guest memory can come to.
LEMMA Outcomes ==
  /\ \A a, n : GetMemory(a, n) \in {"ok", "err", "panic"}
  /\ \A a : PutWord(a) \in {"ok", "err", "panic"}
  /\ \A a, n, c : PutMemory(a, n, c) \in {"ok", "err", "panic"}
  BY DEF GetMemory, PutWord, PutMemory, Access, OkOrErr, WazeroGetMemory, WasmerGetMemory,
     WazeroPutUint32, WasmerPutUint32, WazeroPutMemory, WasmerPutMemory

\* Every step of a host call goes on to the next one or refuses.
LEMMA HostMoves ==
  ASSUME Typed, HostStep
  PROVE  /\ pc = "host" /\ call \in DOMAIN HostFunctions /\ at \in 1..Len(steps)
         /\ UNCHANGED <<outside, call>>
         /\ Continue \/ Refuse
<1> DEFINE c == HostFunctions[call]
<1>1. pc = "host" /\ at <= Len(steps) /\ UNCHANGED outside
  BY DEF HostStep, At, Object, Check, Read, NonEmpty, Decode, Invoke, Change, Splice,
     Get, IsEmpty, Range, Slice, Malloc, PutContent, PutCount, PutPairs, PutUint32
<1>2. call \in DOMAIN HostFunctions /\ at \in 1..(Len(steps) + 1)
  BY <1>1 DEF Typed, Placed
<1>3. InOrder(c) /\ c.steps = steps
  BY <1>2, Calls DEF Fits, steps
<1>4. at \in 1..Len(steps)
  BY <1>1, <1>2, <1>3 DEF InOrder
<1>5. /\ steps[at].op \in {"Object", "Check", "NonEmpty", "Get", "IsEmpty", "Range", "Cas",
                           "Splice"} => arg \in Refusals
      /\ steps[at].op \in {"Malloc", "PutMemory", "PutCount"} => arg \in Faults
      /\ steps[at].op = "Read" => arg = "InvalidMemoryAccess"
  BY <1>3, <1>4 DEF InOrder, arg
<1>6. /\ f' = f => f' = [f EXCEPT !.len = f'.len]
      /\ Continue => call' = call
      /\ \A code : Return(code) => call' = call /\ result' = code /\ Return(result')
  <2>1. f \in Frames
    BY DEF Typed
  <2> QED BY <2>1 DEF Frames, Continue, Return
<1> HIDE DEF c
<1>7. CASE Object \/ Check \/ NonEmpty \/ Get \/ IsEmpty
  <2>1. /\ steps[at].op \in {"Object", "Check", "NonEmpty", "Get", "IsEmpty"}
        /\ Continue \/ (Return(arg) /\ f' = f)
    BY <1>7 DEF Object, Check, NonEmpty, Get, IsEmpty, At
  <2> QED BY <2>1, <1>1, <1>2, <1>4, <1>5, <1>6 DEF Refuse, RefusesAs, Asking
<1>8. CASE Read
  <2>1. /\ steps[at].op = "Read"
        /\ Continue \/ Return(arg) \/ Panic
        /\ f' = [f EXCEPT !.len = f'.len]
    <3>1. PICK a, n \in Samples : /\ Follow(GetMemory(a, n), arg)
                                 /\ f' = [f EXCEPT !.len = IF n = 0 THEN 0 ELSE 1]
      BY <1>8 DEF Read
    <3>2. Continue \/ Return(arg) \/ Panic
      BY <3>1, Outcomes DEF Follow
    <3>3. f' = [f EXCEPT !.len = f'.len]
      BY <3>1 DEF Typed, Frames
    <3> QED BY <1>8, <3>2, <3>3 DEF Read, At
  <2> QED BY <2>1, <1>1, <1>2, <1>4, <1>5, <1>6 DEF Refuse, RefusesAs, Panic
<1>9. CASE Decode \/ Slice
  <2>1. Continue \/ (Panic /\ f' = f)
    BY <1>9 DEF Decode, Slice
  <2> QED BY <2>1, <1>1, <1>2, <1>4, <1>6 DEF Refuse, RefusesAs, Panic
<1>10. CASE Invoke
  <2>1. Answers \ {"Ok"} \subseteq Refusals
    BY HandlerAnswers DEF Answers, Refusals, Codes
  <2>2. /\ steps[at].op = "Invoke"
        /\ \/ \E code \in Refusals : Return(code) /\ f' = f
           \/ Continue
           \/ Panic /\ f' = f
    BY <1>10, <2>1 DEF Invoke, At
  <2> QED BY <2>2, <1>1, <1>2, <1>4, <1>6 DEF Refuse, RefusesAs, Panic, Acts
<1>11. CASE Change \/ Splice
  <2>1. \/ Continue
        \/ Panic /\ f' = f
        \/ steps[at].op \in {"Cas", "Splice"} /\ Return(arg) /\ f' = f
    BY <1>11 DEF Change, Splice, At
  <2> QED BY <2>1, <1>1, <1>2, <1>4, <1>5, <1>6 DEF Refuse, RefusesAs, Panic, Acts
<1>12. CASE Range
  <2>1. steps[at].op = "Range" /\ (Continue \/ (Return(arg) /\ f' = f))
    BY <1>12 DEF Range, At
  <2> QED BY <2>1, <1>1, <1>2, <1>4, <1>5, <1>6 DEF Refuse, RefusesAs, Asking
<1>13. CASE Malloc \/ PutContent \/ PutCount
  <2>1. /\ steps[at].op \in {"Malloc", "PutMemory", "PutCount"}
        /\ Continue \/ ((Return(arg) \/ Panic) /\ f' = f)
    BY <1>13, Outcomes DEF Malloc, PutContent, PutCount, At, Follow
  <2> QED BY <2>1, <1>1, <1>2, <1>4, <1>5, <1>6 DEF Refuse, RefusesAs, Panic,
           Answering, Faults
<1>14. CASE PutPairs
  <2>1. Continue \/ (Panic /\ f' = f)
    BY <1>14 DEF PutPairs
  <2> QED BY <2>1, <1>1, <1>2, <1>4, <1>6 DEF Refuse, RefusesAs, Panic
<1>15. CASE PutUint32
  <2>1. /\ steps[at].op = "PutUint32"
        /\ Continue \/ ((Return("InvalidMemoryAccess") \/ Panic) /\ f' = f)
    BY <1>15, Outcomes DEF PutUint32, At, Follow
  <2> QED BY <2>1, <1>1, <1>2, <1>4, <1>6 DEF Refuse, RefusesAs, Panic, Answering
<1> QED BY <1>7, <1>8, <1>9, <1>10, <1>11, <1>12, <1>13, <1>14, <1>15 DEF HostStep

-------------------------------------------------------------------------------
(* Types                                                                         *)

\* What an entry of a map, a value and a range of a buffer come to is an int32.
LEMMA Sizes ==
  ASSUME NEW k \in 0..MaxLen
  PROVE  /\ k \in Int /\ k >= 0 /\ k <= MaxLen /\ k \in Int32
         /\ PairsSize(k) \in Int32 /\ PairsSize(k) = 12 * k + 4
         /\ MaxLen \in Nat
<1>1. MaxLen \in Nat /\ 4 + MaxLen * 12 < Word \div 2
  BY MaxLenAssumption DEF MaxLenAssumption, PairsSize, u32Len
<1> DEFINE H == Word \div 2
<1>2. H \in Nat /\ Word = 2 * H
  BY Half
<1>3. Int32 = -H..(H - 1)
  BY DEF Int32
<1> HIDE DEF H
<1>4. 4 + MaxLen * 12 < H
  BY <1>1 DEF H
<1>5. k \in Int /\ k >= 0 /\ k <= MaxLen
  BY <1>1
<1>6. PairsSize(k) = 12 * k + 4
  BY <1>5 DEF PairsSize, u32Len
<1> QED BY <1>1, <1>2, <1>3, <1>4, <1>5, <1>6

\* The length of a clipped range.
LEMMA ClippedRange ==
  ASSUME f \in Frames, NEW start \in Int32, NEW length \in Int32
  PROVE  /\ Clipped(start, length) \in Int32
         /\ (start \in 0..f.size /\ length >= 0 /\ start <= ToInt32(start + length)) =>
              Clipped(start, length) =
                IF length <= f.size - start THEN length ELSE f.size - start
<1>1. PICK s \in 0..MaxLen : s = f.size
  BY DEF Frames
<1>2. start \in Int /\ length \in Int /\ s \in Int32 /\ s \in Int /\ s >= 0
  BY Half, Sizes DEF Int32
<1>3. ToInt32(s - start) \in Int32
  BY <1>2, Signed
<1>4. CASE ~(start \in 0..s /\ length >= 0 /\ start <= ToInt32(start + length))
  BY <1>1, <1>3, <1>4 DEF Clipped
<1>5. CASE start \in 0..s /\ length >= 0 /\ start <= ToInt32(start + length)
  <2>1. ToInt32(s - start) = s - start
    BY <1>2, <1>5, Half, Signed DEF Int32
  <2>2. 0 <= start + length /\ start + length < Word /\ start + length \in Int
    BY <1>2, <1>5, Half DEF Int32
  <2>3. start + length < Word \div 2
    BY <1>2, <1>5, <2>2, Half, Signed
  <2>4. ToInt32(start + length) = start + length
    BY <2>2, <2>3, Half, Signed DEF Int32
  <2> QED BY <1>1, <1>2, <1>3, <1>5, <2>1, <2>4 DEF Clipped
<1> QED BY <1>4, <1>5

\* What wasmer copies of a content that fits in memory is no more than there is.
LEMMA Copied ==
  ASSUME NEW mem \in 1..Word, NEW a \in Int32, NEW n \in Int32, NEW size \in 0..MaxLen,
         WasmerPutMemory(mem, a, n) = "ok"
  PROVE  /\ WasmerCopied(mem, a, n, size) \in 0..size
         /\ n \in 0..size => WasmerCopied(mem, a, n, size) = n
<1>1. a \in Int /\ n \in Int /\ mem \in Int /\ size \in Int /\ size >= 0
  BY Half, Sizes DEF Int32
<1>2. 0 <= a /\ a <= mem /\ a + n <= mem
  BY <1>1 DEF WasmerPutMemory, Beyond
<1> QED BY <1>1, <1>2 DEF WasmerCopied

LEMMA MemoryFits ==
  ASSUME Typed
  PROVE  env.mem \in 1..Word /\ env.mem \in Int
<1>1. env.mem \in 1..Word
  BY MemoriesAssumption DEF Typed, TypeOK, Environments, MemoriesAssumption
<1> QED BY <1>1, Half

LEMMA FrameKept ==
  ASSUME Typed, HostStep
  PROVE  f' \in Frames
<1>1. f \in Frames
  BY DEF Typed
<1>2. Samples \subseteq Int32 /\ Starts \subseteq Int32 /\ Lengths \subseteq Int32
  BY SamplesAssumption DEF SamplesAssumption
<1>3. CASE Object
  <2>1. f' = f \/ \E k \in 0..MaxLen : f' = [f EXCEPT !.size = k, !.n = PairsSize(k)]
    BY <1>3 DEF Object
  <2> QED BY <1>1, <2>1, Sizes DEF Frames
<1>4. CASE Read
  <2>1. \E n \in Samples : f' = [f EXCEPT !.len = IF n = 0 THEN 0 ELSE 1]
    BY <1>4 DEF Read
  <2> QED BY <1>1, <2>1 DEF Frames
<1>5. CASE Invoke
  <2>1. f' = f \/ \E k \in 0..MaxLen : f' = [f EXCEPT !.done = TRUE, !.size = k, !.n = k]
    BY <1>5 DEF Invoke
  <2> QED BY <1>1, <2>1, Sizes DEF Frames
<1>6. CASE Change \/ Splice
  <2>1. f' = f \/ f' = [f EXCEPT !.done = TRUE]
    BY <1>6 DEF Change, Splice
  <2> QED BY <1>1, <2>1 DEF Frames
<1>7. CASE Get
  <2>1. f' = f \/ \E k \in 0..MaxLen : f' = [f EXCEPT !.size = k, !.n = k]
    BY <1>7 DEF Get
  <2> QED BY <1>1, <2>1, Sizes DEF Frames
<1>8. CASE Range
  <2>1. \/ f' = f
        \/ \E start \in Starts, length \in Lengths :
             f' = [f EXCEPT !.whole = f.size, !.start = start, !.asked = length,
                            !.n = Clipped(start, length)]
    BY <1>8 DEF Range
  <2>2. \A start \in Starts, length \in Lengths :
          start \in Int32 /\ length \in Int32 /\ Clipped(start, length) \in Int32
    BY <1>1, <1>2, ClippedRange
  <2>3. CASE f' = f
    BY <1>1, <2>3
  <2>4. ASSUME NEW start \in Int32, NEW length \in Int32, NEW n \in Int32,
               f' = [f EXCEPT !.whole = f.size, !.start = start, !.asked = length, !.n = n]
        PROVE  f' \in Frames
    BY <1>1, <2>4 DEF Frames
  <2> QED BY <2>1, <2>2, <2>3, <2>4
<1>9. CASE Slice
  <2>1. \/ f' = f
        \/ /\ 0 <= f.start /\ 0 <= f.n /\ f.start + f.n <= f.size
           /\ f' = [f EXCEPT !.size = f.n, !.from = f.start]
    BY <1>9 DEF Slice
  <2>2. f.start \in Int /\ f.n \in Int /\ f.size \in 0..MaxLen /\ MaxLen \in Nat
    BY <1>1, Half, Sizes DEF Frames, Int32
  <2>3. 0 <= f.start /\ 0 <= f.n /\ f.start + f.n <= f.size => f.n \in 0..MaxLen
    BY <2>2
  <2> QED BY <1>1, <2>1, <2>2, <2>3 DEF Frames
<1>10. CASE Malloc
  <2>1. f' = f \/ \E a \in Samples : f' = [f EXCEPT !.addr = a]
    BY <1>10 DEF Malloc
  <2> QED BY <1>1, <1>2, <2>1 DEF Frames
<1>11. CASE PutContent
  <2>1. PICK capacity \in f.size .. f.size + 1 :
          f' = IF PutMemory(f.addr, f.n, capacity) # "ok" THEN f
               ELSE [f EXCEPT !.given = @ \cup {"bytes"},
                              !.sent = IF env.engine = "wazero" THEN f.n
                                       ELSE WasmerCopied(env.mem, f.addr, f.n, f.size)]
    BY <1>11 DEF PutContent
  <2>2. CASE PutMemory(f.addr, f.n, capacity) # "ok"
    BY <1>1, <2>1, <2>2
  <2>3. CASE PutMemory(f.addr, f.n, capacity) = "ok"
    <3>1. f.addr \in Int32 /\ f.n \in Int32 /\ f.size \in 0..MaxLen
      BY <1>1 DEF Frames
    <3>2. env.mem \in 1..Word
      BY MemoryFits
    <3>3. MaxLen \in Nat /\ f.size \in Int /\ capacity \in Int
      BY <3>1, Sizes
    <3>4. (IF env.engine = "wazero" THEN f.n
           ELSE WasmerCopied(env.mem, f.addr, f.n, f.size)) \in 0..(MaxLen + 1)
      <4>1. CASE env.engine = "wazero"
        <5>1. f.n \in 0..capacity
          BY <2>3, <4>1 DEF PutMemory, Access, WazeroPutMemory
        <5> QED BY <5>1, <4>1, <3>1, <3>3
      <4>2. CASE env.engine # "wazero"
        <5>1. WasmerPutMemory(env.mem, f.addr, f.n) = "ok"
          BY <2>3, <4>2 DEF PutMemory, Access
        <5>2. WasmerCopied(env.mem, f.addr, f.n, f.size) \in 0..f.size
          BY <5>1, <3>1, <3>2, Copied
        <5> QED BY <5>2, <4>2, <3>1, <3>3
      <4> QED BY <4>1, <4>2
    <3> HIDE DEF WasmerCopied
    <3>5. "bytes" \in Parts
      BY DEF Parts
    <3> QED BY <1>1, <2>1, <2>3, <3>4, <3>5 DEF Frames
  <2> QED BY <2>2, <2>3
<1>12. CASE PutPairs
  <2>1. f' = f \/ f' = [f EXCEPT !.given = @ \cup {"bytes"}]
    BY <1>12 DEF PutPairs
  <2> QED BY <1>1, <2>1 DEF Frames, Parts
<1>13. CASE PutUint32
  <2>1. f' = f \/ f' = [f EXCEPT !.given = @ \cup {arg}]
    BY <1>13 DEF PutUint32
  <2>2. steps[at].op = "PutUint32"
    BY <1>13 DEF PutUint32, At
  <2>3. arg \in Parts
    BY <2>2, HostMoves, Calls DEF Fits, Written, arg, steps
  <2> QED BY <1>1, <2>1, <2>3 DEF Frames
<1>14. CASE Check \/ NonEmpty \/ Decode \/ IsEmpty \/ PutCount
  BY <1>1, <1>14 DEF Check, NonEmpty, Decode, IsEmpty, PutCount
<1> QED BY <1>3, <1>4, <1>5, <1>6, <1>7, <1>8, <1>9, <1>10, <1>11, <1>12, <1>13, <1>14
        DEF HostStep

\* The host call and its table stay the same while the host runs.
LEMMA SameCall ==
  ASSUME UNCHANGED <<outside, call>>
  PROVE  /\ HostFunctions' = HostFunctions /\ Exports' = Exports
         /\ steps' = steps /\ Outs' = Outs /\ MustAct' = MustAct
         /\ env' = env /\ started' = started /\ caller' = caller /\ out' = out
  BY DEF outside, HostFunctions, Exports, steps, Outs, MustAct

LEMMA TypedAtFirst == Init => Typed
<1> SUFFICES ASSUME Init PROVE Typed
  OBVIOUS
<1>1. MaxLen \in Nat
  BY MaxLenAssumption DEF MaxLenAssumption
<1>2. 0 \in Int32
  BY Half DEF Int32
<1>3. f \in Frames
  BY <1>1, <1>2 DEF Init, NoFrame, Frames
<1>4. f.n \in Int32 /\ f.addr \in Int32 /\ f.size \in 0..MaxLen /\ f.sent \in 0..(MaxLen + 1)
  BY <1>3 DEF Frames
<1> QED BY <1>3, <1>4 DEF Init, Nothing, Typed, TypeOK, Placed, Codes, Shapes

LEMMA TypedKept == Typed /\ [Next]_vars => Typed'
<1> SUFFICES ASSUME Typed, [Next]_vars PROVE Typed'
  OBVIOUS
<1>1. /\ env \in Environments /\ started \in BOOLEAN /\ f \in Frames
      /\ caller \in Shapes \cup {"none", "_start"}
      /\ out.end \in {"none", "ok", "err", "panic"}
      /\ out.val \in {"none", "i32", "Wait", "Pause"}
      /\ out.missed \in DOMAIN Exports \cup {"none"}
  BY DEF Typed, TypeOK
<1>2. NoFrame \in Frames
  <2>1. MaxLen \in Nat
    BY MaxLenAssumption DEF MaxLenAssumption
  <2>2. 0 \in Int32
    BY Half DEF Int32
  <2> QED BY <2>1, <2>2 DEF NoFrame, Frames
<1>3. ASSUME f' \in Frames
      PROVE  /\ f'.n \in Int32 /\ f'.addr \in Int32 /\ f'.size \in 0..MaxLen
             /\ f'.sent \in 0..(MaxLen + 1)
  BY <1>3 DEF Frames
<1>4. UNCHANGED env => Exports' = Exports /\ HostFunctions' = HostFunctions
  BY DEF Exports, HostFunctions
<1>5. CASE UNCHANGED vars
  BY <1>5 DEF vars, Typed, TypeOK, Placed, steps, HostFunctions, Exports
<1>6. CASE HostStep
  <2>1. f' \in Frames
    BY <1>6, FrameKept
  <2>2. Placed' /\ pc' \in {"host", "answered"} /\ result' \in Codes \cup {"none", "panic"}
    <3>1. /\ pc = "host" /\ call \in DOMAIN HostFunctions /\ at \in 1..Len(steps)
          /\ UNCHANGED <<outside, call>>
          /\ Continue \/ Refuse
      BY <1>6, HostMoves
    <3>2. InOrder(HostFunctions[call])
      BY <3>1, Calls DEF Fits
    <3>3. Len(steps) \in Nat
      BY <3>2 DEF InOrder, steps
    <3>4. steps' = steps /\ HostFunctions' = HostFunctions /\ call' = call
      BY <3>1, SameCall
    <3>5. result = "none"
      BY <3>1 DEF Typed, Placed
    <3>6. CASE Continue
      BY <3>1, <3>3, <3>4, <3>5, <3>6 DEF Continue, Placed
    <3>7. CASE Refuse
      <4>1. pc' = "answered" /\ RefusesAs(steps[at].op, result')
        BY <3>7 DEF Refuse, Return
      <4>2. result' \in Codes \cup {"panic"}
        BY <4>1 DEF RefusesAs, Refusals, Codes
      <4> QED BY <3>1, <3>4, <4>1, <4>2 DEF Placed
    <3> QED BY <3>1, <3>6, <3>7
  <2>3. UNCHANGED outside
    BY <1>6, HostMoves
  <2>4. (pc = "host" => call \in DOMAIN HostFunctions /\ at \in 1..(Len(steps) + 1))'
    BY <2>2 DEF Placed
  <2> QED BY <1>1, <1>3, <1>4, <2>1, <2>2, <2>3, <2>4 DEF outside, Typed, TypeOK
<1>7. CASE ReturnOk
  <2>1. /\ pc = "host" /\ pc' = "answered" /\ result' = "Ok"
        /\ UNCHANGED <<env, started, caller, out, call, f>>
    BY <1>7 DEF ReturnOk, Return, outside
  <2>2. call \in DOMAIN HostFunctions
    BY <2>1 DEF Typed, Placed
  <2> QED BY <1>1, <1>3, <1>4, <2>1, <2>2 DEF Typed, TypeOK, Placed, Codes
<1>8. ASSUME NEW e \in DOMAIN Exports, CallExport(e)
      PROVE  Typed'
  <2>1. pc' \in {"embedder", "guest"} /\ result' = "none" /\ UNCHANGED <<env, started, f>>
    BY <1>8 DEF CallExport, Typed, Placed
  <2>2. caller' \in Shapes \cup {"none", "_start"}
    BY <1>1, <1>8, ExportShapes DEF CallExport
  <2>3. /\ out'.end \in {"none", "ok", "err", "panic"}
        /\ out'.val \in {"none", "i32", "Wait", "Pause"}
        /\ out'.missed \in DOMAIN Exports \cup {"none"}
    BY <1>8 DEF CallExport, Nothing, Failed, Outcome
  <2> QED BY <1>1, <1>3, <1>4, <2>1, <2>2, <2>3 DEF Typed, TypeOK, Placed, Shapes
<1>9. ASSUME NEW v \in {"none", "i32", "i64", "ref"}, GuestReturns(v)
      PROVE  Typed'
  <2>1. /\ pc' = "embedder" /\ caller' = "none" /\ started' = TRUE
        /\ result' = "none" /\ UNCHANGED <<env, f>>
    BY <1>9 DEF GuestReturns, Typed, Placed
  <2>2. /\ out'.end \in {"none", "ok", "err", "panic"}
        /\ out'.val \in {"none", "i32", "Wait", "Pause"}
        /\ out'.missed = "none"
    BY <1>9 DEF GuestReturns, Returned, Failed, Outcome
  <2> QED BY <1>1, <1>3, <1>4, <2>1, <2>2 DEF Typed, TypeOK, Placed, Shapes
<1>10. CASE GuestTraps
  BY <1>1, <1>3, <1>4, <1>10 DEF GuestTraps, Failed, Outcome, Typed, TypeOK, Placed, Shapes
<1>11. ASSUME NEW h \in DOMAIN HostFunctions, CallHost(h)
       PROVE  Typed'
  <2>1. /\ call' = h /\ at' = 1 /\ f' = NoFrame /\ UNCHANGED <<env, started, caller, out>>
        /\ \/ pc' = "answered" /\ result' = "panic"
           \/ pc' = "host" /\ result' = "none"
    BY <1>11 DEF CallHost, outside
  <2>2. steps' = HostFunctions[h].steps
    BY <1>4, <2>1 DEF steps
  <2>3. Len(HostFunctions[h].steps) \in Nat
    BY Calls DEF Fits, InOrder
  <2>4. at' \in 1..(Len(steps') + 1)
    BY <2>1, <2>2, <2>3
  <2> QED BY <1>1, <1>2, <1>3, <1>4, <2>1, <2>4 DEF Typed, TypeOK, Placed, Codes
<1>12. CASE BackToGuest
  <2>1. /\ pc' \in {"embedder", "guest"} /\ result' = "none" /\ f' = NoFrame
        /\ UNCHANGED <<env, started>>
        /\ \/ caller' = "none" /\ out' = Failed(caller)
           \/ UNCHANGED <<caller, out>>
    BY <1>12 DEF BackToGuest
  <2>2. /\ out'.end \in {"none", "ok", "err", "panic"}
        /\ out'.val \in {"none", "i32", "Wait", "Pause"}
        /\ out'.missed \in DOMAIN Exports \cup {"none"}
    BY <1>1, <2>1 DEF Failed, Outcome
  <2> QED BY <1>1, <1>2, <1>3, <1>4, <2>1, <2>2 DEF Typed, TypeOK, Placed, Shapes
<1> QED BY <1>5, <1>6, <1>7, <1>8, <1>9, <1>10, <1>11, <1>12 DEF Next, HostStep

LEMMA AlwaysTyped == Spec => []Typed
  BY TypedAtFirst, TypedKept, PTL DEF Spec

\* Whatever the guest passes and the handler answers, a host call knows its next step and
\* ends in a code or a panic, and what it keeps meanwhile are int32 numbers and lengths.
THEOREM TypeCorrect == Spec => []TypeOK
<1>1. Typed => TypeOK
  BY DEF Typed
<1> QED BY <1>1, AlwaysTyped, PTL

-------------------------------------------------------------------------------
(* Whether the host has acted                                                    *)

\* Of the steps before the one after k, the last is k.
LEMMA BeforeNext ==
  ASSUME NEW c, NEW k \in Nat \ {0}, NEW ops
  PROVE  Before(c, k + 1, ops) <=> Before(c, k, ops) \/ c.steps[k].op \in ops
  BY DEF Before

LEMMA NothingBefore ==
  ASSUME NEW c, NEW ops
  PROVE  ~Before(c, 1, ops)
  BY DEF Before

\* Where the host call stands, over one of its steps.
LEMMA Standing ==
  ASSUME Typed, HostStep
  PROVE  /\ HostFunctions' = HostFunctions /\ call' = call
         /\ steps = HostFunctions[call].steps
         /\ at \in Nat \ {0} /\ at \in 1..Len(steps) /\ Len(steps) \in Nat
         /\ call \in DOMAIN HostFunctions
         /\ Fits(HostFunctions[call], Unwritten(call))
         /\ Outs' = Outs /\ MustAct' = MustAct /\ steps' = steps
         /\ UNCHANGED <<env, started>> /\ pc = "host" /\ f \in Frames
<1>1. /\ pc = "host" /\ call \in DOMAIN HostFunctions /\ at \in 1..Len(steps)
      /\ UNCHANGED <<outside, call>>
  BY HostMoves
<1>2. Fits(HostFunctions[call], Unwritten(call))
  BY <1>1, Calls
<1>3. Len(steps) \in Nat
  BY <1>2 DEF Fits, InOrder, steps
<1> QED BY <1>1, <1>2, <1>3, SameCall DEF Typed, steps

\* A step acts if it is one of Acts and goes on.
LEMMA StepActs ==
  ASSUME Typed, HostStep, Continue
  PROVE  f'.done <=> f.done \/ steps[at].op \in Acts
<1>1. f \in Frames /\ pc' = "host"
  BY HostMoves DEF Typed, Continue
<1>2. CASE Invoke
  BY <1>1, <1>2 DEF Invoke, Return, Panic, At, Acts, Frames
<1>3. CASE Change
  BY <1>1, <1>3 DEF Change, Return, Panic, At, Acts, Frames
<1>4. CASE Splice
  BY <1>1, <1>4 DEF Splice, Return, At, Acts, Frames
<1>5. CASE Object \/ Check \/ Read \/ NonEmpty \/ Decode \/ Get \/ IsEmpty
  <2>1. f'.done = f.done
    BY <1>1, <1>5 DEF Object, Check, Read, NonEmpty, Decode, Get, IsEmpty, Frames
  <2>2. steps[at].op \notin Acts
    BY <1>5 DEF Object, Check, Read, NonEmpty, Decode, Get, IsEmpty, At, Acts
  <2> QED BY <2>1, <2>2
<1>6. CASE Range \/ Slice \/ Malloc \/ PutContent
  <2>1. f'.done = f.done
    BY <1>1, <1>6 DEF Range, Slice, Malloc, PutContent, Frames
  <2>2. steps[at].op \notin Acts
    BY <1>6 DEF Range, Slice, Malloc, PutContent, At, Acts
  <2> QED BY <2>1, <2>2
<1>7. CASE PutCount \/ PutPairs \/ PutUint32
  <2>1. f'.done = f.done
    BY <1>1, <1>7 DEF PutCount, PutPairs, PutUint32, Frames
  <2>2. steps[at].op \notin Acts
    BY <1>7 DEF PutCount, PutPairs, PutUint32, At, Acts
  <2> QED BY <2>1, <2>2
<1> QED BY <1>2, <1>3, <1>4, <1>5, <1>6, <1>7 DEF HostStep

EffectInv ==
  /\ pc = "host" => (f.done <=> Before(HostFunctions[call], at, Acts))
  /\ ResultTellsEffect

LEMMA EffectKept == Typed /\ EffectInv /\ [Next]_vars => EffectInv'
<1> SUFFICES ASSUME Typed, EffectInv, [Next]_vars PROVE EffectInv'
  OBVIOUS
<1>1. CASE UNCHANGED vars
  BY <1>1 DEF vars, EffectInv, ResultTellsEffect, HostFunctions, MustAct, Outs, steps
<1>2. CASE HostStep
  <2> DEFINE c == HostFunctions[call]
             op == steps[at].op
  <2>1. InOrder(c)
    BY <1>2, Standing DEF Fits
  <2>2. CASE Continue
    <3>1. pc' = "host" /\ at' = at + 1
      BY <1>2, <2>2, Standing DEF Continue
    <3>2. Before(c, at + 1, Acts) <=> Before(c, at, Acts) \/ op \in Acts
      BY <1>2, Standing, BeforeNext
    <3>3. f'.done <=> f.done \/ op \in Acts
      BY <1>2, <2>2, StepActs
    <3>4. f.done <=> Before(c, at, Acts)
      BY <1>2, Standing DEF EffectInv
    <3>5. c' = c
      BY <1>2, Standing
    <3>6. f'.done <=> Before(c', at', Acts)
      BY <3>1, <3>2, <3>3, <3>4, <3>5
    <3> QED BY <3>1, <3>6 DEF EffectInv, ResultTellsEffect
  <2>3. CASE Refuse
    <3>1. pc' = "answered" /\ RefusesAs(op, result')
      BY <2>3 DEF Refuse, Return
    <3>2. f'.done = f.done
      BY <1>2, <2>3, Standing DEF Refuse, Frames
    <3>3. op \notin Answering => ~f.done
      <4>1. op \notin Answering => ~Before(c, at, Acts)
        BY <1>2, <2>1, Standing DEF InOrder, Before
      <4> QED BY <1>2, <4>1, Standing DEF EffectInv
    <3>4. op \in Answering => Outs # {}
      BY <1>2, <2>1, Standing DEF InOrder, Outs
    <3>5. op \in (Asking \cup Acts) \cup {"Read"} => op \notin Answering
      BY DEF Asking, Acts, Answering
    <3> HIDE DEF op
    <3>6. /\ result' # "Ok"
          /\ result' \in Refusals => ~f'.done
          /\ result' = "InvalidMemoryAccess" /\ Outs = {} => ~f'.done
      BY <3>1, <3>2, <3>3, <3>4, <3>5 DEF RefusesAs, Refusals, Codes
    <3> QED BY <1>2, <3>1, <3>6, Standing DEF EffectInv, ResultTellsEffect, Refusals
  <2> QED BY <1>2, <2>2, <2>3, HostMoves
<1>3. CASE ReturnOk
  <2>1. /\ pc = "host" /\ at = Len(steps) + 1 /\ pc' = "answered" /\ result' = "Ok"
        /\ f' = f /\ UNCHANGED <<outside, call>>
    BY <1>3 DEF ReturnOk, Return
  <2>2. InOrder(HostFunctions[call])
    BY <2>1, Calls DEF Typed, Placed, Fits
  <2>3. MustAct => Before(HostFunctions[call], at, Acts)
    BY <2>1, <2>2 DEF MustAct, Before, steps, InOrder
  <2>4. MustAct => f.done
    BY <2>1, <2>3 DEF EffectInv
  <2> QED BY <2>1, <2>4, SameCall DEF EffectInv, ResultTellsEffect, Codes
<1>4. ASSUME NEW h \in DOMAIN HostFunctions, CallHost(h)
      PROVE  EffectInv'
  <2>1. /\ at' = 1 /\ ~f'.done
        /\ (pc' = "answered" /\ result' = "panic") \/ pc' = "host"
    BY <1>4 DEF CallHost, NoFrame
  <2>2. ~Before((HostFunctions[call])', at', Acts)
    BY <2>1, NothingBefore
  <2> QED BY <2>1, <2>2 DEF EffectInv, ResultTellsEffect, Codes
<1>5. ASSUME pc' \in {"embedder", "guest"}
      PROVE  EffectInv'
  BY <1>5 DEF EffectInv, ResultTellsEffect
<1>6. ASSUME NEW e \in DOMAIN Exports, CallExport(e)
      PROVE  pc' \in {"embedder", "guest"}
  BY <1>6 DEF CallExport
<1>7. ASSUME NEW v \in {"none", "i32", "i64", "ref"}, GuestReturns(v)
      PROVE  pc' \in {"embedder", "guest"}
  BY <1>7 DEF GuestReturns
<1>8. GuestTraps \/ BackToGuest => pc' \in {"embedder", "guest"}
  BY DEF GuestTraps, BackToGuest
<1> QED BY <1>1, <1>2, <1>3, <1>4, <1>5, <1>6, <1>7, <1>8 DEF Next, HostStep

\* Ok tells the guest that the host has acted, a refusal that it has not, and so does a
\* memory error of a call with nothing to answer: on both ABIs, for every host call.
THEOREM ResultTrusted == Spec => []ResultTellsEffect
<1>1. Init => EffectInv
  BY DEF Init, EffectInv, ResultTellsEffect
<1>2. EffectInv => ResultTellsEffect
  BY DEF EffectInv
<1> QED BY <1>1, <1>2, EffectKept, AlwaysTyped, PTL DEF Spec

-------------------------------------------------------------------------------
(* What the guest is given                                                       *)

\* A number in a block of memory, at an offset from its beginning.
LEMMA InBlock ==
  ASSUME NEW mem \in 1..Word, NEW a \in Int32, NEW off \in Nat, NEW length \in Nat \ {0},
         Uint32(a) + off + length <= mem
  PROVE  /\ a + off \in Int /\ Uint32(a + off) = Uint32(a) + off
         /\ HasSize(mem, a + off, length)
         /\ a >= 0 => a + off >= 0 /\ a + off + length <= mem
         /\ a < 0 => a + off + length <= 0
<1>1. /\ Word \in Nat /\ mem \in Nat /\ mem <= Word /\ a \in Int
      /\ a >= 0 => Uint32(a) = a
      /\ a < 0 => Uint32(a) = a + Word
      /\ -Word <= a
  BY Half, UnsignedInt32 DEF Int32
<1>2. a + off \in Int
  BY <1>1
<1>3. a >= 0 => Uint32(a + off) = a + off
  BY <1>1, <1>2, Unsigned
<1>4. a < 0 => Uint32(a + off) = a + off + Word
  BY <1>1, <1>2, Unsigned
<1> QED BY <1>1, <1>2, <1>3, <1>4 DEF HasSize

\* Inside of a block that lies in memory every write succeeds, but for wasmer's panic at
\* an address that is negative.
LEMMA WritesInBlock ==
  ASSUME Typed, started, NEW off \in Nat,
         NEW a \in Int32
  PROVE  /\ Uint32(a) + off + u32Len <= env.mem =>
              /\ PutWord(a + off) \in {"ok", "panic"}
              /\ env.engine = "wazero" \/ a >= 0 => PutWord(a + off) = "ok"
         /\ Uint32(a) + off + 1 <= env.mem =>
              /\ PutMemory(a + off, 1, 1) \in {"ok", "panic"}
              /\ PutByte(a + off) \in {"ok", "panic"}
              /\ env.engine = "wazero" \/ a >= 0 =>
                   PutMemory(a + off, 1, 1) = "ok" /\ PutByte(a + off) = "ok"
<1>1. PICK mem \in 1..Word : mem = env.mem
  BY MemoryFits
<1>2. mem \in Int /\ a \in Int /\ a + off \in Int /\ 4 \in Nat \ {0} /\ 1 \in Nat \ {0}
  BY Half DEF Int32
<1>3. ASSUME Uint32(a) + off + 4 <= mem
      PROVE  /\ PutWord(a + off) \in {"ok", "panic"}
             /\ env.engine = "wazero" \/ a >= 0 => PutWord(a + off) = "ok"
  <2>1. /\ HasSize(mem, a + off, 4)
        /\ a >= 0 => a + off >= 0 /\ a + off + 4 <= mem
        /\ a < 0 => a + off + 4 <= 0
    BY <1>2, <1>3, InBlock
  <2>2. WazeroPutUint32(mem, a + off) = "ok"
    BY <2>1 DEF WazeroPutUint32, OkOrErr, u32Len
  <2>3. /\ WasmerPutUint32(mem, a + off) \in {"ok", "panic"}
        /\ a >= 0 => WasmerPutUint32(mem, a + off) = "ok"
    BY <1>2, <2>1 DEF WasmerPutUint32, Beyond, u32Len
  <2> QED BY <1>1, <2>2, <2>3 DEF PutWord, Access
<1>4. ASSUME Uint32(a) + off + 1 <= mem
      PROVE  /\ PutMemory(a + off, 1, 1) \in {"ok", "panic"} /\ PutByte(a + off) \in {"ok", "panic"}
             /\ env.engine = "wazero" \/ a >= 0 =>
                  PutMemory(a + off, 1, 1) = "ok" /\ PutByte(a + off) = "ok"
  <2>1. /\ HasSize(mem, a + off, 1)
        /\ a >= 0 => a + off >= 0 /\ a + off + 1 <= mem
        /\ a < 0 => a + off + 1 <= 0
    BY <1>2, <1>4, InBlock
  <2>2. WazeroPutMemory(mem, a + off, 1, 1) = "ok" /\ WazeroPutByte(mem, a + off) = "ok"
    BY <2>1 DEF WazeroPutMemory, WazeroPutByte, OkOrErr
  <2>3. /\ WasmerPutMemory(mem, a + off, 1) \in {"ok", "panic"}
        /\ WasmerPutByte(mem, a + off) \in {"ok", "panic"}
        /\ a >= 0 => WasmerPutMemory(mem, a + off, 1) = "ok" /\ WasmerPutByte(mem, a + off) = "ok"
    BY <1>2, <2>1 DEF WasmerPutMemory, WasmerPutByte, Beyond
  <2> QED BY <1>1, <2>2, <2>3 DEF PutMemory, PutByte, Access
<1> QED BY <1>1, <1>3, <1>4 DEF u32Len

\* The entries of a map are all written into the block that was allocated for them.
LEMMA PairsFit ==
  ASSUME Typed, started, f.n = PairsSize(f.size), Uint32(f.n) + Uint32(f.addr) <= env.mem
  PROVE  /\ PairsOutcomes \subseteq {"ok", "panic"}
         /\ env.engine = "wazero" \/ f.addr >= 0 => PairsOutcomes \subseteq {"ok"}
<1>1. PICK a \in Int32, size \in 0..MaxLen : a = f.addr /\ size = f.size
  BY DEF Typed, Frames
<1>2. f.n \in Int32 /\ f.n = 12 * size + 4 /\ size \in Int /\ size >= 0
  BY <1>1, Sizes
<1>3. PICK mem \in Int : mem = env.mem
  BY MemoryFits
<1>4. Uint32(a) \in Int /\ 12 * size + 4 + Uint32(a) <= mem
  BY <1>1, <1>2, <1>3, UnsignedInt32, Half
<1>5. ASSUME NEW i \in 1..size
      PROVE  LET lenPtr == a + u32Len + (u32Len + u32Len) * (i - 1)
                 dataPtr == a + u32Len + (u32Len + u32Len) * size + 4 * (i - 1)
                 writes == {PutWord(lenPtr), PutWord(lenPtr + u32Len),
                            PutMemory(dataPtr, 1, 1), PutByte(dataPtr + 1),
                            PutMemory(dataPtr + 2, 1, 1), PutByte(dataPtr + 3)}
             IN  /\ writes \subseteq {"ok", "panic"}
                 /\ env.engine = "wazero" \/ a >= 0 => writes \subseteq {"ok"}
  <2> DEFINE first == 4 + 8 * (i - 1)
             second == 4 + 8 * size + 4 * (i - 1)
  <2>1. /\ first \in Nat /\ first + 4 \in Nat /\ second \in Nat /\ second + 1 \in Nat
        /\ second + 2 \in Nat /\ second + 3 \in Nat /\ a \in Int
    BY <1>2, Half DEF Int32
  <2>2. /\ Uint32(a) + first + 4 <= mem /\ Uint32(a) + (first + 4) + 4 <= mem
        /\ Uint32(a) + second + 1 <= mem /\ Uint32(a) + (second + 1) + 1 <= mem
        /\ Uint32(a) + (second + 2) + 1 <= mem /\ Uint32(a) + (second + 3) + 1 <= mem
    BY <1>2, <1>4
  <2>3. /\ a + u32Len + (u32Len + u32Len) * (i - 1) = a + first
        /\ a + u32Len + (u32Len + u32Len) * (i - 1) + u32Len = a + (first + 4)
        /\ a + u32Len + (u32Len + u32Len) * size + 4 * (i - 1) = a + second
        /\ (a + second) + 1 = a + (second + 1)
        /\ (a + second) + 2 = a + (second + 2)
        /\ (a + second) + 3 = a + (second + 3)
    BY <1>2, <2>1 DEF u32Len
  <2> HIDE DEF first, second
  <2>4. /\ PutWord(a + first) \in {"ok", "panic"} /\ PutWord(a + (first + 4)) \in {"ok", "panic"}
        /\ PutMemory(a + second, 1, 1) \in {"ok", "panic"}
        /\ PutByte(a + (second + 1)) \in {"ok", "panic"}
        /\ PutMemory(a + (second + 2), 1, 1) \in {"ok", "panic"}
        /\ PutByte(a + (second + 3)) \in {"ok", "panic"}
    BY <1>3, <2>1, <2>2, WritesInBlock DEF u32Len
  <2>5. env.engine = "wazero" \/ a >= 0 =>
          /\ PutWord(a + first) = "ok" /\ PutWord(a + (first + 4)) = "ok"
          /\ PutMemory(a + second, 1, 1) = "ok" /\ PutByte(a + (second + 1)) = "ok"
          /\ PutMemory(a + (second + 2), 1, 1) = "ok" /\ PutByte(a + (second + 3)) = "ok"
    BY <1>3, <2>1, <2>2, WritesInBlock DEF u32Len
  <2> HIDE DEF PutWord, PutMemory, PutByte
  <2> QED BY <2>3, <2>4, <2>5
<1> QED BY <1>1, <1>5 DEF PairsOutcomes

\* What a step that goes on adds to the answer.
LEMMA StepGives ==
  ASSUME Typed, HostStep, Continue
  PROVE  LET op == steps[at].op
         IN  /\ op = "PutMemory" => f'.given = f.given \cup {"bytes"}
             /\ op = "PutUint32" => f'.given = f.given \cup {steps[at].arg}
             /\ op = "PutPairs" =>
                  /\ f'.given \in {f.given, f.given \cup {"bytes"}}
                  /\ "panic" \notin PairsOutcomes
                  /\ PairsOutcomes \subseteq {"ok"} => f'.given = f.given \cup {"bytes"}
             /\ op \notin {"PutMemory", "PutPairs", "PutUint32"} => f'.given = f.given
             /\ op = "Malloc" => started
<1>1. f \in Frames /\ pc' = "host"
  BY HostMoves DEF Typed, Continue
<1>2. CASE Object \/ Check \/ Read \/ NonEmpty \/ Decode \/ Get \/ IsEmpty
  <2>1. f'.given = f.given
    BY <1>1, <1>2 DEF Object, Check, Read, NonEmpty, Decode, Get, IsEmpty, Frames
  <2>2. steps[at].op \in {"Object", "Check", "Read", "NonEmpty", "Decode", "Get", "IsEmpty"}
    BY <1>2 DEF Object, Check, Read, NonEmpty, Decode, Get, IsEmpty, At
  <2> QED BY <2>1, <2>2
<1>3. CASE Invoke \/ Change \/ Splice \/ Range \/ Slice \/ PutCount
  <2>1. f'.given = f.given
    BY <1>1, <1>3 DEF Invoke, Change, Splice, Range, Slice, PutCount, Frames
  <2>2. steps[at].op \in {"Invoke", "Set", "Del", "Cas", "Splice", "Range", "Slice", "PutCount"}
    BY <1>3 DEF Invoke, Change, Splice, Range, Slice, PutCount, At
  <2> QED BY <2>1, <2>2
<1>4. CASE Malloc
  <2>1. steps[at].op = "Malloc" /\ f'.given = f.given
    BY <1>1, <1>4 DEF Malloc, At, Frames
  <2>2. started
    BY <1>1, <1>4 DEF Malloc, Return, Panic
  <2> QED BY <2>1, <2>2
<1>5. CASE PutContent
  <2>1. PICK capacity \in f.size .. f.size + 1 :
          /\ Follow(PutMemory(f.addr, f.n, capacity), arg)
          /\ f' = IF PutMemory(f.addr, f.n, capacity) # "ok" THEN f
                  ELSE [f EXCEPT !.given = @ \cup {"bytes"},
                                 !.sent = IF env.engine = "wazero" THEN f.n
                                          ELSE WasmerCopied(env.mem, f.addr, f.n, f.size)]
    BY <1>5 DEF PutContent
  <2>2. PutMemory(f.addr, f.n, capacity) = "ok"
    BY <1>1, <2>1, Outcomes DEF Follow, Return, Panic
  <2>3. steps[at].op = "PutMemory"
    BY <1>5 DEF PutContent, At
  <2> QED BY <1>1, <2>1, <2>2, <2>3 DEF Frames
<1>6. CASE PutPairs
  <2>1. steps[at].op = "PutPairs"
    BY <1>6 DEF PutPairs, At
  <2>2. "panic" \notin PairsOutcomes
    BY <1>1, <1>6 DEF PutPairs, Return, Panic
  <2>3. f' = IF PairsOutcomes \subseteq {"ok"} THEN [f EXCEPT !.given = @ \cup {"bytes"}] ELSE f
    BY <1>6 DEF PutPairs
  <2> QED BY <1>1, <2>1, <2>2, <2>3 DEF Frames
<1>7. CASE PutUint32
  <2>1. PICK a \in Samples :
          /\ Follow(PutWord(a), "InvalidMemoryAccess")
          /\ f' = IF PutWord(a) = "ok" THEN [f EXCEPT !.given = @ \cup {arg}] ELSE f
    BY <1>7 DEF PutUint32
  <2>2. PutWord(a) = "ok"
    BY <1>1, <2>1, Outcomes DEF Follow, Return, Panic
  <2>3. steps[at].op = "PutUint32"
    BY <1>7 DEF PutUint32, At
  <2> QED BY <1>1, <2>1, <2>2, <2>3 DEF Frames, arg
<1> QED BY <1>2, <1>3, <1>4, <1>5, <1>6, <1>7 DEF HostStep

\* Which steps change what is asked of malloc, what it gave, and the size of the value.
LEMMA StepCounts ==
  ASSUME Typed, HostStep, Continue
  PROVE  LET op == steps[at].op
         IN  /\ op = "Object" => f'.n = PairsSize(f'.size)
             /\ op \in {"Invoke", "Get"} => f'.n = f'.size
             /\ op \notin {"Object", "Invoke", "Get", "Range"} => f'.n = f.n
             /\ op \notin {"Object", "Invoke", "Get", "Slice"} => f'.size = f.size
             /\ op # "Malloc" => f'.addr = f.addr
<1>1. f \in Frames /\ pc' = "host"
  BY HostMoves DEF Typed, Continue
<1>2. CASE Object
  <2>1. \E m \in 0..MaxLen : f' = [f EXCEPT !.size = m, !.n = PairsSize(m)]
    BY <1>1, <1>2 DEF Object, Return
  <2>2. f'.n = PairsSize(f'.size) /\ f'.addr = f.addr
    BY <1>1, <2>1 DEF Frames
  <2>3. steps[at].op = "Object"
    BY <1>2 DEF Object, At
  <2> QED BY <2>2, <2>3
<1>3. CASE Invoke \/ Get
  <2>1. \/ \E m \in 0..MaxLen : f' = [f EXCEPT !.done = TRUE, !.size = m, !.n = m]
        \/ \E m \in 0..MaxLen : f' = [f EXCEPT !.size = m, !.n = m]
    BY <1>1, <1>3 DEF Invoke, Get, Return, Panic
  <2>2. f'.n = f'.size /\ f'.addr = f.addr
    BY <1>1, <2>1 DEF Frames
  <2>3. steps[at].op \in {"Invoke", "Get"}
    BY <1>3 DEF Invoke, Get, At
  <2> QED BY <2>2, <2>3
<1>5. CASE Range
  BY <1>1, <1>5 DEF Range, Return, At, Frames
<1>6. CASE Slice
  BY <1>1, <1>6 DEF Slice, Return, Panic, At, Frames
<1>7. CASE Malloc
  BY <1>1, <1>7 DEF Malloc, Return, Panic, At, Frames
<1>8. CASE Check \/ Read \/ NonEmpty \/ Decode \/ IsEmpty \/ Change \/ Splice
  <2>1. f'.n = f.n /\ f'.size = f.size /\ f'.addr = f.addr
    BY <1>1, <1>8 DEF Check, Read, NonEmpty, Decode, IsEmpty, Change, Splice, Frames
  <2>2. steps[at].op \in {"Check", "Read", "NonEmpty", "Decode", "IsEmpty", "Set", "Del", "Cas",
                          "Splice"}
    BY <1>8 DEF Check, Read, NonEmpty, Decode, IsEmpty, Change, Splice, At
  <2> QED BY <2>1, <2>2
<1>9. CASE PutContent \/ PutCount \/ PutPairs \/ PutUint32
  <2>1. f'.n = f.n /\ f'.size = f.size /\ f'.addr = f.addr
    BY <1>1, <1>9 DEF PutContent, PutCount, PutPairs, PutUint32, Frames
  <2>2. steps[at].op \in {"PutMemory", "PutCount", "PutPairs", "PutUint32"}
    BY <1>9 DEF PutContent, PutCount, PutPairs, PutUint32, At
  <2> QED BY <2>1, <2>2
<1> QED BY <1>2, <1>3, <1>5, <1>6, <1>7, <1>8, <1>9 DEF HostStep

\* The steps before k have given what they write; a map is written with the size that was
\* asked of malloc for it.
Gave(c, k, given) ==
  /\ \A i \in 1..(k - 1) : c.steps[i].op = "PutUint32" => c.steps[i].arg \in given
  /\ Before(c, k, {"PutMemory"}) => "bytes" \in given
  /\ given # {} => Before(c, k, {"PutMemory", "PutPairs", "PutUint32"})

Mapped(c, k, n, size) ==
  (c.steps[1].op = "Object" /\ k > 1 /\ ~Before(c, k, {"Invoke", "Get", "Range", "Slice"}))
    => n = PairsSize(size)

AnswerInv ==
  /\ pc = "host" =>
       /\ Gave(HostFunctions[call], at, f.given)
       /\ Mapped(HostFunctions[call], at, f.n, f.size)
       /\ Before(HostFunctions[call], at, {"PutPairs"}) /\ Promised => "bytes" \in f.given
       /\ Before(HostFunctions[call], at, {"Malloc"}) => started
  /\ AnswerWhole

LEMMA MappedStep ==
  ASSUME NEW c, NEW k \in 1..Len(c.steps), Measured(c), Len(c.steps) \in Nat,
         NEW n, NEW size, Mapped(c, k, n, size), NEW m, NEW length,
         c.steps[k].op = "Object" => m = PairsSize(length),
         c.steps[k].op \notin {"Object", "Invoke", "Get", "Range"} => m = n,
         c.steps[k].op \notin {"Object", "Invoke", "Get", "Slice"} => length = size
  PROVE  Mapped(c, k + 1, m, length)
<1> SUFFICES ASSUME c.steps[1].op = "Object",
                    ~Before(c, k + 1, {"Invoke", "Get", "Range", "Slice"})
             PROVE  m = PairsSize(length)
  BY DEF Mapped
<1>1. /\ ~Before(c, k, {"Invoke", "Get", "Range", "Slice"})
      /\ c.steps[k].op \notin {"Invoke", "Get", "Range", "Slice"}
  <2>1. k \in Nat \ {0}
    OBVIOUS
  <2> QED BY <2>1, BeforeNext
<1>2. CASE c.steps[k].op = "Object"
  BY <1>2
<1>3. CASE c.steps[k].op # "Object"
  <2>1. k > 1
    BY <1>3
  <2>2. n = PairsSize(size)
    BY <1>1, <2>1 DEF Mapped
  <2>3. m = n /\ length = size
    BY <1>1, <1>3
  <2> QED BY <2>2, <2>3
<1> QED BY <1>2, <1>3

LEMMA GaveStep ==
  ASSUME NEW c, NEW k \in 1..Len(c.steps), Len(c.steps) \in Nat,
         NEW given, NEW after, Gave(c, k, given),
         c.steps[k].op = "PutMemory" => after = given \cup {"bytes"},
         c.steps[k].op = "PutUint32" => after = given \cup {c.steps[k].arg},
         c.steps[k].op = "PutPairs" => after \in {given, given \cup {"bytes"}},
         c.steps[k].op \notin {"PutMemory", "PutPairs", "PutUint32"} => after = given
  PROVE  Gave(c, k + 1, after)
<1>1. given \subseteq after
  OBVIOUS
<1>2. \A ops : Before(c, k + 1, ops) <=> Before(c, k, ops) \/ c.steps[k].op \in ops
  <2>1. k \in Nat \ {0}
    OBVIOUS
  <2> QED BY <2>1, BeforeNext
<1>3. \A i \in 1..(k + 1 - 1) : i \in 1..(k - 1) \/ i = k
  OBVIOUS
<1>4. \A i \in 1..(k + 1 - 1) : c.steps[i].op = "PutUint32" => c.steps[i].arg \in after
  BY <1>1, <1>3 DEF Gave
<1>5. Before(c, k + 1, {"PutMemory"}) => "bytes" \in after
  BY <1>1, <1>2 DEF Gave
<1>6. after # {} => Before(c, k + 1, {"PutMemory", "PutPairs", "PutUint32"})
  BY <1>2 DEF Gave
<1> QED BY <1>4, <1>5, <1>6 DEF Gave

LEMMA AnswerKept == Typed /\ AnswerInv /\ [Next]_vars => AnswerInv'
<1> SUFFICES ASSUME Typed, AnswerInv, [Next]_vars PROVE AnswerInv'
  OBVIOUS
<1>1. CASE UNCHANGED vars
  BY <1>1 DEF vars, AnswerInv, AnswerWhole, HostFunctions, Outs, Promised
<1>2. CASE HostStep
  <2>1. PICK c, k : c = HostFunctions[call] /\ k = at
    OBVIOUS
  <2>2. /\ InOrder(c) /\ Measured(c) /\ k \in 1..Len(c.steps) /\ Len(c.steps) \in Nat
        /\ k \in Nat \ {0} /\ c = (HostFunctions[call])' /\ steps = c.steps
    BY <1>2, <2>1, Standing DEF Fits
  <2>3. /\ Gave(c, k, f.given) /\ Mapped(c, k, f.n, f.size)
        /\ Before(c, k, {"PutPairs"}) /\ Promised => "bytes" \in f.given
        /\ Before(c, k, {"Malloc"}) => started
    BY <1>2, <2>1, Standing DEF AnswerInv
  <2>4. CASE Continue
    <3>1. pc' = "host" /\ at' = k + 1 /\ started' = started /\ env' = env
      BY <1>2, <2>1, <2>4, Standing DEF Continue
    <3>2. /\ c.steps[k].op = "PutMemory" => f'.given = f.given \cup {"bytes"}
          /\ c.steps[k].op = "PutUint32" => f'.given = f.given \cup {c.steps[k].arg}
          /\ c.steps[k].op = "PutPairs" => f'.given \in {f.given, f.given \cup {"bytes"}}
          /\ c.steps[k].op \notin {"PutMemory", "PutPairs", "PutUint32"} => f'.given = f.given
          /\ c.steps[k].op = "Malloc" => started
      BY <1>2, <2>1, <2>2, <2>4, StepGives
    <3>3. /\ c.steps[k].op = "Object" => f'.n = PairsSize(f'.size)
          /\ c.steps[k].op \notin {"Object", "Invoke", "Get", "Range"} => f'.n = f.n
          /\ c.steps[k].op \notin {"Object", "Invoke", "Get", "Slice"} => f'.size = f.size
          /\ c.steps[k].op # "Malloc" => f'.addr = f.addr
      BY <1>2, <2>1, <2>2, <2>4, StepCounts
    <3>4. Gave(c, k + 1, f'.given)
      BY <2>2, <2>3, <3>2, GaveStep
    <3>5. Mapped(c, k + 1, f'.n, f'.size)
      BY <2>2, <2>3, <3>3, MappedStep
    <3>6. Before(c, k + 1, {"Malloc"}) => started'
      BY <2>2, <2>3, <3>1, <3>2, BeforeNext
    <3>7. ASSUME Before(c, k + 1, {"PutPairs"}), Promised'
          PROVE  "bytes" \in f'.given
      <4>1. CASE c.steps[k].op = "PutPairs"
        <5>1. f'.n = f.n /\ f'.addr = f.addr
          BY <3>3, <4>1
        <5>2. Uint32(f.n) + Uint32(f.addr) <= env.mem
          BY <3>1, <3>7, <5>1 DEF Promised
        <5>3. /\ c.steps[1].op = "Object" /\ k > 1
              /\ ~Before(c, k, {"Invoke", "Get", "Range", "Slice"})
          BY <2>2, <4>1 DEF Measured
        <5>4. f.n = PairsSize(f.size)
          BY <2>3, <5>3 DEF Mapped
        <5>5. started
          BY <2>2, <2>3, <4>1 DEF Measured
        <5>6. PairsOutcomes \subseteq {"ok", "panic"}
          BY <5>2, <5>4, <5>5, PairsFit
        <5>7. /\ "panic" \notin PairsOutcomes
              /\ PairsOutcomes \subseteq {"ok"} => f'.given = f.given \cup {"bytes"}
          BY <1>2, <2>1, <2>2, <2>4, <4>1, StepGives
        <5> QED BY <5>6, <5>7
      <4>2. CASE c.steps[k].op # "PutPairs"
        <5>1. Before(c, k, {"PutPairs"})
          BY <2>2, <3>7, <4>2, BeforeNext
        <5>2. c.steps[k].op \in Answering \ {"Malloc"}
          BY <2>2, <5>1 DEF Before, InOrder, Measured, Answering
        <5>3. f'.n = f.n /\ f'.addr = f.addr
          BY <3>3, <5>2 DEF Answering
        <5>4. Promised
          BY <3>1, <3>7, <5>3 DEF Promised
        <5>5. "bytes" \in f.given
          BY <2>3, <5>1, <5>4
        <5>6. f.given \subseteq f'.given
          BY <3>2
        <5> QED BY <5>5, <5>6
      <4> QED BY <4>1, <4>2
    <3>8. (pc = "host" =>
             /\ Gave(HostFunctions[call], at, f.given)
             /\ Mapped(HostFunctions[call], at, f.n, f.size)
             /\ Before(HostFunctions[call], at, {"PutPairs"}) /\ Promised => "bytes" \in f.given
             /\ Before(HostFunctions[call], at, {"Malloc"}) => started)'
      BY <2>2, <3>1, <3>4, <3>5, <3>6, <3>7
    <3> QED BY <3>1, <3>8 DEF AnswerInv, AnswerWhole
  <2>5. CASE Refuse
    <3>1. pc' = "answered" /\ RefusesAs(c.steps[k].op, result')
      BY <2>1, <2>2, <2>5 DEF Refuse, Return
    <3>2. f'.given = f.given
      BY <1>2, <2>5, Standing DEF Refuse, Frames
    <3>3. c.steps[k].op \in Asking \cup Acts => ~Before(c, k, Answering)
      <4>1. \A i \in 1..(k - 1) : i \in 1..Len(c.steps) /\ i < k
        BY <2>2
      <4>2. \A op \in Asking \cup Acts : op \notin Answering
        BY DEF Asking, Acts, Answering
      <4> QED BY <2>2, <4>1, <4>2 DEF InOrder, Before
    <3>4. ~Before(c, k, Answering) => ~Before(c, k, {"PutMemory", "PutPairs", "PutUint32"})
      BY DEF Before, Answering
    <3>5. c.steps[k].op \in Asking \cup Acts => f'.given = {}
      BY <2>3, <3>2, <3>3, <3>4 DEF Gave
    <3>6. result' \in Refusals => f'.given = {}
      BY <3>1, <3>5 DEF RefusesAs, Refusals, Codes
    <3>7. result' # "Ok"
      BY <3>1 DEF RefusesAs, Refusals, Codes
    <3> QED BY <3>1, <3>6, <3>7 DEF AnswerInv, AnswerWhole, Refusals
  <2> QED BY <1>2, <2>4, <2>5, HostMoves
<1>3. CASE ReturnOk
  <2>1. /\ pc = "host" /\ at = Len(steps) + 1 /\ pc' = "answered" /\ result' = "Ok"
        /\ f' = f /\ UNCHANGED <<outside, call>>
    BY <1>3 DEF ReturnOk, Return
  <2>2. PICK c, but : c = HostFunctions[call] /\ but = Unwritten(call)
    OBVIOUS
  <2>3. InOrder(c) /\ Written(c, but) /\ steps = c.steps /\ Outs = c.outs
    BY <2>1, <2>2, Calls DEF Typed, Placed, Fits, steps, Outs
  <2>4. Len(c.steps) \in Nat /\ at = Len(c.steps) + 1 /\ at - 1 = Len(c.steps)
    BY <2>1, <2>3 DEF InOrder
  <2>5. /\ Gave(c, at, f.given)
        /\ Before(c, at, {"PutPairs"}) /\ Promised => "bytes" \in f.given
    BY <2>1, <2>2 DEF AnswerInv
  <2>6. Outs \ f.given \subseteq but
    BY <2>3, <2>4, <2>5 DEF Written, Gave
  <2>7. "data" \in Outs /\ Promised => "bytes" \in f.given
    <3>1. "data" \in Outs => Before(c, at, {"PutMemory"}) \/ Before(c, at, {"PutPairs"})
      BY <2>3, <2>4 DEF Written, Before
    <3> QED BY <2>5, <3>1 DEF Gave
  <2>8. Outs' = Outs /\ call' = call /\ (Promised' <=> Promised)
    BY <2>1, SameCall DEF Promised
  <2> QED BY <2>1, <2>2, <2>6, <2>7, <2>8 DEF AnswerInv, AnswerWhole, Codes
<1>4. ASSUME NEW h \in DOMAIN HostFunctions, CallHost(h)
      PROVE  AnswerInv'
  <2>1. /\ at' = 1 /\ f'.given = {}
        /\ (pc' = "answered" /\ result' = "panic") \/ pc' = "host"
    BY <1>4 DEF CallHost, NoFrame
  <2>2. \A c, ops : ~Before(c, at', ops)
    BY <2>1, NothingBefore
  <2>3. \A c, n, size : Gave(c, at', {}) /\ Mapped(c, at', n, size)
    BY <2>1, <2>2 DEF Gave, Mapped
  <2> QED BY <2>1, <2>2, <2>3 DEF AnswerInv, AnswerWhole, Codes
<1>5. ASSUME pc' \in {"embedder", "guest"}
      PROVE  AnswerInv'
  BY <1>5 DEF AnswerInv, AnswerWhole
<1>6. ASSUME NEW e \in DOMAIN Exports, CallExport(e)
      PROVE  pc' \in {"embedder", "guest"}
  BY <1>6 DEF CallExport
<1>7. ASSUME NEW v \in {"none", "i32", "i64", "ref"}, GuestReturns(v)
      PROVE  pc' \in {"embedder", "guest"}
  BY <1>7 DEF GuestReturns
<1>8. GuestTraps \/ BackToGuest => pc' \in {"embedder", "guest"}
  BY DEF GuestTraps, BackToGuest
<1> QED BY <1>1, <1>2, <1>3, <1>4, <1>5, <1>6, <1>7, <1>8 DEF Next, HostStep

\* Ok comes with every part of the answer but the three high halves and the cas that no
\* call writes, and with its bytes if malloc gave what it was asked for; a refusal comes
\* with nothing: for maps and values of any length.
THEOREM AnswersWhole == Spec => []AnswerWhole
<1>1. Init => AnswerInv
  BY DEF Init, AnswerInv, AnswerWhole
<1>2. AnswerInv => AnswerWhole
  BY DEF AnswerInv
<1> QED BY <1>1, <1>2, AnswerKept, AlwaysTyped, PTL DEF Spec

-------------------------------------------------------------------------------
(* The bytes of a buffer                                                         *)

BufferCalls == {"proxy_get_buffer_bytes", "proxy_get_buffer"}

\* A call for the bytes of a buffer takes a range of it once, cuts it out at most once and
\* after that, and puts what it has then into memory.
Buffered(c, sliced) ==
  /\ \A i \in 1..Len(c.steps) :
       /\ c.steps[i].op \notin {"Invoke", "Get"}
       /\ c.steps[i].op \in {"Object", "Range"} => ~Before(c, i, {"Range", "Slice", "PutMemory"})
       /\ c.steps[i].op = "Slice" =>
            Before(c, i, {"Range"}) /\ ~Before(c, i, {"Slice", "PutMemory"})
       /\ c.steps[i].op = "PutMemory" => Before(c, i, {"Range"})
  /\ Before(c, Len(c.steps) + 1, {"Range"}) /\ Before(c, Len(c.steps) + 1, {"PutMemory"})
  /\ sliced => Before(c, Len(c.steps) + 1, {"Slice"})

LEMMA BufferTables ==
  ASSUME call \in DOMAIN HostFunctions, call \in BufferCalls
  PROVE  Buffered(HostFunctions[call], env.abi # "v1")
<1>1. Buffered(V1!ProxyGetBufferBytes, FALSE)
  BY DEF Buffered, Before, V1!ProxyGetBufferBytes, V1!HostCall, V1!Step, V1!GetBuffer,
     V1!Object, V1!Range, V1!Malloc, V1!PutMemory, V1!PutUint32
<1>2. Buffered(V2!ProxyGetBuffer, TRUE)
  BY DEF Buffered, Before, V2!ProxyGetBuffer, V2!HostCall, V2!Step, V2!GetBuffer,
     V2!Object, V2!IsEmpty, V2!Range, V2!Slice, V2!copyIntoInstance, V2!Malloc,
     V2!PutMemory, V2!PutUint32
<1>3. env.abi = "v1" => HostFunctions[call] = V1!ProxyGetBufferBytes
  BY DEF HostFunctions, V1!HostFunctions, BufferCalls
<1>4. env.abi # "v1" => HostFunctions[call] = V2!ProxyGetBuffer
  BY DEF HostFunctions, V2!HostFunctions, BufferCalls
<1> QED BY <1>1, <1>2, <1>3, <1>4

\* What is there of a range that begins inside of the buffer.
Inside(g) == g.start \in 0..g.whole /\ g.asked >= 0
Rest(g) == IF g.asked <= g.whole - g.start THEN g.asked ELSE g.whole - g.start

\* What the steps before k have made of the range.
Ranged(c, k, g) ==
  Before(c, k, {"Range"}) =>
    /\ Inside(g) => g.n = Rest(g)
    /\ Before(c, k, {"Slice"}) => g.size = g.n /\ g.from = g.start
    /\ ~Before(c, k, {"Slice"}) => g.size = g.whole
    /\ Before(c, k, {"PutMemory"}) /\ Inside(g) => g.sent = g.n

BufferInv ==
  /\ pc = "host" /\ call \in BufferCalls => Ranged(HostFunctions[call], at, f)
  /\ BufferAsAsked

\* The fields that say which bytes of the buffer are sent.
SameRange(g, h) ==
  /\ h.n = g.n /\ h.size = g.size /\ h.whole = g.whole /\ h.start = g.start
  /\ h.asked = g.asked /\ h.from = g.from /\ h.sent = g.sent

LEMMA StepRange ==
  ASSUME Typed, HostStep, Continue
  PROVE  LET op == steps[at].op
         IN  /\ op = "Range" =>
                  /\ f'.whole = f.size /\ f'.size = f.size
                  /\ Inside(f') => f'.n = Rest(f')
             /\ op = "Slice" =>
                  /\ f'.size = f.n /\ f'.from = f.start /\ f'.n = f.n /\ f'.start = f.start
                  /\ f'.whole = f.whole /\ f'.asked = f.asked
             /\ op = "PutMemory" =>
                  /\ SameRange([f EXCEPT !.sent = f'.sent], f')
                  /\ f.n \in 0..f.size => f'.sent = f.n
             /\ op \notin {"Object", "Invoke", "Get", "Range", "Slice", "PutMemory"} =>
                  SameRange(f, f')
<1>1. f \in Frames /\ pc' = "host"
  BY HostMoves DEF Typed, Continue
<1>2. CASE Range
  <2>1. PICK start \in Starts, length \in Lengths :
          /\ ~(start > ToInt32(start + length))
          /\ f' = [f EXCEPT !.whole = f.size, !.start = start, !.asked = length,
                            !.n = Clipped(start, length)]
    BY <1>1, <1>2 DEF Range, Return
  <2>2. start \in Int32 /\ length \in Int32 /\ start <= ToInt32(start + length)
    <3>1. start \in Int32 /\ length \in Int32
      BY SamplesAssumption DEF SamplesAssumption
    <3>2. start \in Int /\ start + length \in Int
      BY <3>1, Half DEF Int32
    <3>3. ToInt32(start + length) \in Int
      BY <3>2, Half, Signed DEF Int32
    <3> QED BY <2>1, <3>1, <3>2, <3>3
  <2>3. /\ f'.whole = f.size /\ f'.size = f.size /\ f'.start = start /\ f'.asked = length
        /\ f'.n = Clipped(start, length)
    BY <1>1, <2>1 DEF Frames
  <2>4. Inside(f') => f'.n = Rest(f')
    BY <1>1, <2>1, <2>2, <2>3, ClippedRange DEF Inside, Rest
  <2>5. steps[at].op = "Range"
    BY <1>2 DEF Range, At
  <2> QED BY <2>3, <2>4, <2>5
<1>3. CASE Slice
  <2>1. f' = [f EXCEPT !.size = f.n, !.from = f.start]
    BY <1>1, <1>3 DEF Slice, Return, Panic
  <2>2. /\ f'.size = f.n /\ f'.from = f.start /\ f'.n = f.n /\ f'.start = f.start
        /\ f'.whole = f.whole /\ f'.asked = f.asked
    BY <1>1, <2>1 DEF Frames
  <2>3. steps[at].op = "Slice"
    BY <1>3 DEF Slice, At
  <2> QED BY <2>2, <2>3
<1>4. CASE PutContent
  <2>1. PICK capacity \in f.size .. f.size + 1 :
          /\ Follow(PutMemory(f.addr, f.n, capacity), arg)
          /\ f' = IF PutMemory(f.addr, f.n, capacity) # "ok" THEN f
                  ELSE [f EXCEPT !.given = @ \cup {"bytes"},
                                 !.sent = IF env.engine = "wazero" THEN f.n
                                          ELSE WasmerCopied(env.mem, f.addr, f.n, f.size)]
    BY <1>4 DEF PutContent
  <2>2. PutMemory(f.addr, f.n, capacity) = "ok"
    BY <1>1, <2>1, Outcomes DEF Follow, Return, Panic
  <2>3. f.addr \in Int32 /\ f.n \in Int32 /\ f.size \in 0..MaxLen
    BY <1>1 DEF Frames
  <2>4. ASSUME f.n \in 0..f.size, env.engine # "wazero"
        PROVE  WasmerCopied(env.mem, f.addr, f.n, f.size) = f.n
    <3>1. WasmerPutMemory(env.mem, f.addr, f.n) = "ok"
      BY <2>2, <2>4 DEF PutMemory, Access
    <3> QED BY <2>3, <2>4, <3>1, Copied, MemoryFits
  <2> HIDE DEF WasmerCopied
  <2>5. f.n \in 0..f.size => f'.sent = f.n
    BY <1>1, <2>1, <2>2, <2>4 DEF Frames
  <2>6. SameRange([f EXCEPT !.sent = f'.sent], f')
    BY <1>1, <2>1, <2>2 DEF Frames, SameRange
  <2>7. steps[at].op = "PutMemory"
    BY <1>4 DEF PutContent, At
  <2> QED BY <2>5, <2>6, <2>7
<1>5. CASE Object \/ Invoke \/ Get
  BY <1>5 DEF Object, Invoke, Get, At
<1>6. CASE Check \/ Read \/ NonEmpty \/ Decode \/ IsEmpty
  <2>1. SameRange(f, f')
    BY <1>1, <1>6 DEF Check, Read, NonEmpty, Decode, IsEmpty, Frames, SameRange
  <2>2. steps[at].op \in {"Check", "Read", "NonEmpty", "Decode", "IsEmpty"}
    BY <1>6 DEF Check, Read, NonEmpty, Decode, IsEmpty, At
  <2> QED BY <2>1, <2>2
<1>7. CASE Change \/ Splice
  <2>1. SameRange(f, f')
    BY <1>1, <1>7 DEF Change, Splice, Frames, SameRange
  <2>2. steps[at].op \in {"Set", "Del", "Cas", "Splice"}
    BY <1>7 DEF Change, Splice, At
  <2> QED BY <2>1, <2>2
<1>8. CASE Malloc \/ PutCount \/ PutPairs \/ PutUint32
  <2>1. SameRange(f, f')
    BY <1>1, <1>8 DEF Malloc, PutCount, PutPairs, PutUint32, Frames, SameRange
  <2>2. steps[at].op \in {"Malloc", "PutCount", "PutPairs", "PutUint32"}
    BY <1>8 DEF Malloc, PutCount, PutPairs, PutUint32, At
  <2> QED BY <2>1, <2>2
<1> QED BY <1>2, <1>3, <1>4, <1>5, <1>6, <1>7, <1>8 DEF HostStep

LEMMA RangedStep ==
  ASSUME Typed, HostStep, Continue, call \in BufferCalls,
         Ranged(HostFunctions[call], at, f)
  PROVE  Ranged(HostFunctions[call], at + 1, f')
<1>1. PICK c, k : c = HostFunctions[call] /\ k = at
  OBVIOUS
<1>2. k \in 1..Len(c.steps) /\ k \in Nat \ {0} /\ steps = c.steps /\ f \in Frames
  BY <1>1, Standing
<1>3. Buffered(c, env.abi # "v1")
  BY <1>1, Standing, BufferTables
<1>4. \A ops : Before(c, k + 1, ops) <=> Before(c, k, ops) \/ c.steps[k].op \in ops
  BY <1>2, BeforeNext
<1>5. /\ f.n \in Int /\ f.size \in Int /\ f.size >= 0 /\ f.whole \in Int /\ f.whole >= 0
      /\ f.start \in Int /\ f.asked \in Int
  <2>1. /\ f.n \in Int32 /\ f.start \in Int32 /\ f.asked \in Int32
        /\ f.size \in 0..MaxLen /\ f.whole \in 0..MaxLen
    BY <1>2 DEF Frames
  <2> QED BY <2>1, Half, Sizes DEF Int32
<1>6. /\ c.steps[k].op \notin {"Invoke", "Get"}
      /\ c.steps[k].op \in {"Object", "Range"} =>
           ~Before(c, k, {"Range"}) /\ ~Before(c, k, {"Slice"}) /\ ~Before(c, k, {"PutMemory"})
      /\ c.steps[k].op = "Slice" =>
           Before(c, k, {"Range"}) /\ ~Before(c, k, {"Slice"}) /\ ~Before(c, k, {"PutMemory"})
      /\ c.steps[k].op = "PutMemory" => Before(c, k, {"Range"})
  BY <1>2, <1>3 DEF Buffered, Before
<1> SUFFICES ASSUME Before(c, k + 1, {"Range"})
             PROVE  /\ Inside(f') => f'.n = Rest(f')
                    /\ Before(c, k + 1, {"Slice"}) => f'.size = f'.n /\ f'.from = f'.start
                    /\ ~Before(c, k + 1, {"Slice"}) => f'.size = f'.whole
                    /\ Before(c, k + 1, {"PutMemory"}) /\ Inside(f') => f'.sent = f'.n
  BY <1>1 DEF Ranged
<1>7. Before(c, k, {"Range"}) =>
        /\ Inside(f) => f.n = Rest(f)
        /\ Before(c, k, {"Slice"}) => f.size = f.n /\ f.from = f.start
        /\ ~Before(c, k, {"Slice"}) => f.size = f.whole
        /\ Before(c, k, {"PutMemory"}) /\ Inside(f) => f.sent = f.n
  BY <1>1 DEF Ranged
<1>8. CASE c.steps[k].op = "Range"
  <2>1. f'.whole = f.size /\ f'.size = f.size /\ (Inside(f') => f'.n = Rest(f'))
    BY <1>1, <1>2, <1>8, StepRange
  <2>2. ~Before(c, k + 1, {"Slice"}) /\ ~Before(c, k + 1, {"PutMemory"})
    BY <1>4, <1>6, <1>8
  <2> QED BY <2>1, <2>2
<1>9. CASE c.steps[k].op = "Slice"
  <2>1. /\ f'.size = f.n /\ f'.from = f.start /\ f'.n = f.n /\ f'.start = f.start
        /\ f'.whole = f.whole /\ f'.asked = f.asked
    BY <1>1, <1>2, <1>9, StepRange
  <2>2. Before(c, k + 1, {"Slice"}) /\ ~Before(c, k + 1, {"PutMemory"})
    BY <1>4, <1>6, <1>9
  <2>3. Inside(f') => f'.n = Rest(f')
    BY <1>6, <1>7, <1>9, <2>1 DEF Inside, Rest
  <2> QED BY <2>1, <2>2, <2>3
<1>10. CASE c.steps[k].op = "PutMemory"
  <2>1. /\ SameRange([f EXCEPT !.sent = f'.sent], f')
        /\ f.n \in 0..f.size => f'.sent = f.n
    BY <1>1, <1>2, <1>10, StepRange
  <2>2. /\ f'.n = f.n /\ f'.size = f.size /\ f'.whole = f.whole /\ f'.start = f.start
        /\ f'.asked = f.asked /\ f'.from = f.from
    BY <1>2, <2>1 DEF SameRange, Frames
  <2>3. Inside(f) => f.n = Rest(f)
    BY <1>6, <1>7, <1>10
  <2>4. f.size = f.n \/ f.size = f.whole
    BY <1>6, <1>7, <1>10
  <2>5. Inside(f) => f.n \in 0..f.size
    BY <1>5, <2>3, <2>4 DEF Inside, Rest
  <2>6. Inside(f') <=> Inside(f)
    BY <2>2 DEF Inside
  <2>7. Before(c, k + 1, {"Slice"}) <=> Before(c, k, {"Slice"})
    BY <1>4, <1>10
  <2>8. Rest(f') = Rest(f)
    BY <2>2 DEF Rest
  <2> QED BY <1>6, <1>7, <1>10, <2>1, <2>2, <2>3, <2>5, <2>6, <2>7, <2>8
<1>11. CASE c.steps[k].op \notin {"Range", "Slice", "PutMemory"}
  <2>1. Before(c, k, {"Range"})
    BY <1>4, <1>11
  <2>2. SameRange(f, f')
    BY <1>1, <1>2, <1>6, <1>11, <2>1, StepRange
  <2>3. (Inside(f') <=> Inside(f)) /\ Rest(f') = Rest(f)
    BY <2>2 DEF SameRange, Inside, Rest
  <2>4. /\ Before(c, k + 1, {"Slice"}) <=> Before(c, k, {"Slice"})
        /\ Before(c, k + 1, {"PutMemory"}) <=> Before(c, k, {"PutMemory"})
    BY <1>4, <1>11
  <2> QED BY <1>7, <2>1, <2>2, <2>3, <2>4 DEF SameRange
<1> QED BY <1>8, <1>9, <1>10, <1>11

LEMMA BufferKept == Typed /\ BufferInv /\ [Next]_vars => BufferInv'
<1> SUFFICES ASSUME Typed, BufferInv, [Next]_vars PROVE BufferInv'
  OBVIOUS
<1>1. CASE UNCHANGED vars
  BY <1>1 DEF vars, BufferInv, BufferAsAsked, HostFunctions
<1>2. CASE HostStep
  <2>1. CASE Continue
    <3>1. /\ pc' = "host" /\ at' = at + 1 /\ call' = call /\ pc = "host"
          /\ (HostFunctions[call])' = HostFunctions[call]
      BY <1>2, <2>1, Standing DEF Continue
    <3>2. call \in BufferCalls => Ranged(HostFunctions[call], at + 1, f')
      BY <1>2, <2>1, <3>1, RangedStep DEF BufferInv
    <3> QED BY <3>1, <3>2 DEF BufferInv, BufferAsAsked
  <2>2. CASE Refuse
    <3>1. pc' = "answered" /\ result' # "Ok"
      BY <2>2 DEF Refuse, Return, RefusesAs, Refusals, Codes
    <3> QED BY <3>1 DEF BufferInv, BufferAsAsked
  <2> QED BY <1>2, <2>1, <2>2, HostMoves
<1>3. CASE ReturnOk
  <2>1. /\ pc = "host" /\ at = Len(steps) + 1 /\ pc' = "answered"
        /\ f' = f /\ UNCHANGED <<outside, call>>
    BY <1>3 DEF ReturnOk, Return
  <2>2. ASSUME call \in BufferCalls, Inside(f)
        PROVE  f.n = Rest(f) /\ f.sent = f.n /\ (env.abi = "v2" => f.from = f.start)
    <3>1. PICK c : c = HostFunctions[call]
      OBVIOUS
    <3>2. Buffered(c, env.abi # "v1") /\ at = Len(c.steps) + 1
      BY <2>1, <2>2, <3>1, BufferTables DEF Typed, Placed, steps
    <3>3. /\ Before(c, at, {"Range"}) /\ Before(c, at, {"PutMemory"})
          /\ env.abi # "v1" => Before(c, at, {"Slice"})
      BY <3>2 DEF Buffered
    <3>4. Ranged(c, at, f)
      BY <2>1, <2>2, <3>1 DEF BufferInv
    <3> QED BY <2>2, <3>3, <3>4 DEF Ranged
  <2>3. call' = call /\ env' = env
    BY <2>1, SameCall
  <2> QED BY <2>1, <2>2, <2>3 DEF BufferInv, BufferAsAsked, BufferCalls, Inside, Rest
<1>4. ASSUME NEW h \in DOMAIN HostFunctions, CallHost(h)
      PROVE  BufferInv'
  <2>1. /\ at' = 1
        /\ (pc' = "answered" /\ result' = "panic") \/ pc' = "host"
    BY <1>4 DEF CallHost
  <2>2. \A c, g : Ranged(c, at', g)
    BY <2>1, NothingBefore DEF Ranged
  <2> QED BY <2>1, <2>2 DEF BufferInv, BufferAsAsked
<1>5. ASSUME pc' \in {"embedder", "guest"}
      PROVE  BufferInv'
  BY <1>5 DEF BufferInv, BufferAsAsked
<1>6. ASSUME NEW e \in DOMAIN Exports, CallExport(e)
      PROVE  pc' \in {"embedder", "guest"}
  BY <1>6 DEF CallExport
<1>7. ASSUME NEW v \in {"none", "i32", "i64", "ref"}, GuestReturns(v)
      PROVE  pc' \in {"embedder", "guest"}
  BY <1>7 DEF GuestReturns
<1>8. GuestTraps \/ BackToGuest => pc' \in {"embedder", "guest"}
  BY DEF GuestTraps, BackToGuest
<1> QED BY <1>1, <1>2, <1>3, <1>4, <1>5, <1>6, <1>7, <1>8 DEF Next, HostStep

\* A range that begins inside of a buffer is answered with as many bytes as are asked for
\* and are there, whatever start and length the guest passes, up to those whose sum
\* overflows an int32; on v2 they are the bytes of the range.
THEOREM RangesAsAsked == Spec => []BufferAsAsked
<1>1. Init => BufferInv
  BY DEF Init, BufferInv, BufferAsAsked
<1>2. BufferInv => BufferAsAsked
  BY DEF BufferInv
<1> QED BY <1>1, <1>2, BufferKept, AlwaysTyped, PTL DEF Spec

-------------------------------------------------------------------------------
(* Guests and handlers that keep to what is asked of them                        *)

\* An access that lies in memory succeeds, on wasmer if memory is smaller than 2 GiB.
LEMMA Served ==
  ASSUME Typed, started, env.engine = "wazero" \/ env.mem < Word \div 2,
         NEW a \in Int32, NEW n \in Int32
  PROVE  /\ HasSize(env.mem, a, Uint32(n)) => GetMemory(a, n) = "ok"
         /\ HasSize(env.mem, a, u32Len) => PutWord(a) = "ok"
         /\ HasSize(env.mem, a, Uint32(n)) =>
              \A capacity \in Nat : n \in 0..capacity => PutMemory(a, n, capacity) = "ok"
<1>1. PICK mem \in Int : mem = env.mem
  BY MemoryFits
<1>2. /\ a \in Int /\ n \in Int /\ Word \div 2 \in Nat
      /\ a >= 0 => Uint32(a) = a
      /\ a < 0 => Uint32(a) >= Word \div 2
      /\ n >= 0 => Uint32(n) = n
      /\ n < 0 => Uint32(n) >= Word \div 2
      /\ Uint32(a) \in Nat /\ Uint32(n) \in Nat
  BY Half, UnsignedInt32, Unsigned DEF Int32
<1>3. ASSUME HasSize(mem, a, Uint32(n))
      PROVE  /\ WazeroGetMemory(mem, a, n) = "ok"
             /\ mem < Word \div 2 => WasmerGetMemory(mem, a, n) = "ok"
             /\ mem < Word \div 2 => WasmerPutMemory(mem, a, n) = "ok"
             /\ \A capacity \in Nat :
                  n \in 0..capacity => WazeroPutMemory(mem, a, n, capacity) = "ok"
  <2>1. Uint32(a) + Uint32(n) <= mem
    BY <1>3 DEF HasSize
  <2>2. WazeroGetMemory(mem, a, n) = "ok"
    BY <1>3 DEF WazeroGetMemory, OkOrErr
  <2>3. mem < Word \div 2 => a >= 0 /\ n >= 0 /\ a + n <= mem /\ a <= mem
    BY <1>1, <1>2, <2>1
  <2>4. mem < Word \div 2 => WasmerGetMemory(mem, a, n) = "ok" /\ WasmerPutMemory(mem, a, n) = "ok"
    BY <1>1, <1>2, <2>3 DEF WasmerGetMemory, WasmerPutMemory, Beyond
  <2>5. \A capacity \in Nat : n \in 0..capacity => WazeroPutMemory(mem, a, n, capacity) = "ok"
    BY <1>2, <1>3 DEF WazeroPutMemory, OkOrErr
  <2> QED BY <2>2, <2>4, <2>5
<1>4. ASSUME HasSize(mem, a, u32Len)
      PROVE  /\ WazeroPutUint32(mem, a) = "ok"
             /\ mem < Word \div 2 => WasmerPutUint32(mem, a) = "ok"
  <2>1. Uint32(a) + 4 <= mem
    BY <1>4 DEF HasSize, u32Len
  <2>2. mem < Word \div 2 => a >= 0 /\ a + 4 <= mem
    BY <1>1, <1>2, <2>1
  <2> QED BY <1>1, <1>2, <1>4, <2>2 DEF WazeroPutUint32, WasmerPutUint32, OkOrErr, Beyond, u32Len
<1> QED BY <1>1, <1>3, <1>4 DEF GetMemory, PutWord, PutMemory, Access

\* What the steps before k have asked of malloc and measured, for a sound guest: the block
\* that malloc gave lies in memory, what is put there is not more than there is of it, and
\* a range lies inside of the buffer.
Allocated(c, k, g, mem) == Before(c, k, {"Malloc"}) => HasSize(mem, g.addr, Uint32(g.n))
Sized(c, k, g) == Before(c, k, {"Invoke", "Get", "Range"}) => g.n \in 0..g.size
Cut(c, k, g) == k > 1 /\ c.steps[k - 1].op = "Range" => 0 <= g.start /\ g.start + g.n <= g.size

SoundInv ==
  /\ env.sound /\ pc = "host" =>
       /\ Allocated(HostFunctions[call], at, f, env.mem)
       /\ Sized(HostFunctions[call], at, f)
       /\ Cut(HostFunctions[call], at, f)
  /\ pc # "embedder" => out = Nothing
  /\ SoundIsServed

\* No step of a sound call fails, but before the start, where only wazero panics, and on
\* wasmer with a memory of 2 GiB or more.
LEMMA SoundStep ==
  ASSUME Typed, AnswerInv, SoundInv, env.sound, HostStep, Refuse
  PROVE  /\ started /\ (env.engine = "wazero" \/ env.mem < Word \div 2) =>
              result' \notin {"InvalidMemoryAccess", "InternalFailure", "panic"}
         /\ ~started /\ env.engine = "wasmer" => result' # "panic"
<1>1. PICK c, k : c = HostFunctions[call] /\ k = at
  OBVIOUS
<1>2. /\ k \in 1..Len(c.steps) /\ k \in Nat \ {0} /\ steps = c.steps /\ f \in Frames
      /\ pc = "host" /\ InOrder(c) /\ Measured(c) /\ Len(c.steps) \in Nat
  BY <1>1, Standing DEF Fits
<1>3. /\ Allocated(c, k, f, env.mem) /\ Sized(c, k, f) /\ Cut(c, k, f)
      /\ Mapped(c, k, f.n, f.size) /\ (Before(c, k, {"Malloc"}) => started)
  BY <1>1, <1>2 DEF SoundInv, AnswerInv
<1>4. pc' = "answered" /\ RefusesAs(steps[at].op, result') /\ ~Continue
  BY <1>2 DEF Refuse, Return, Continue
<1>5. /\ f.n \in Int32 /\ f.addr \in Int32 /\ f.size \in 0..MaxLen /\ f.start \in Int32
      /\ f.n \in Int /\ f.size \in Int /\ f.size >= 0 /\ f.start \in Int
  <2>1. f.n \in Int32 /\ f.addr \in Int32 /\ f.size \in 0..MaxLen /\ f.start \in Int32
    BY <1>2 DEF Frames
  <2> QED BY <2>1, Half, Sizes DEF Int32
<1>6. ~HandlerMayPanic
  BY DEF HandlerMayPanic
<1>7. arg = c.steps[k].arg /\ steps[at].op = c.steps[k].op
  BY <1>1, <1>2 DEF arg
<1>8. Samples \subseteq Int32
  BY SamplesAssumption DEF SamplesAssumption
<1>9. CASE Object \/ Check \/ NonEmpty \/ Get \/ IsEmpty \/ Range
  <2>1. result' = arg
    BY <1>4, <1>9 DEF Object, Check, NonEmpty, Get, IsEmpty, Range, Return
  <2>2. c.steps[k].op \in {"Object", "Check", "NonEmpty", "Get", "IsEmpty", "Range"}
    BY <1>7, <1>9 DEF Object, Check, NonEmpty, Get, IsEmpty, Range, At
  <2>3. result' \in Refusals
    BY <1>2, <1>7, <2>1, <2>2 DEF InOrder
  <2> QED BY <2>3 DEF Refusals, Codes
<1>10. CASE Invoke
  <2>1. Answers \ {"Ok"} \subseteq Refusals
    BY HandlerAnswers DEF Answers, Refusals, Codes
  <2>2. result' \in Refusals
    BY <1>4, <1>6, <1>10, <2>1 DEF Invoke, Return
  <2> QED BY <2>2 DEF Refusals, Codes
<1>11. CASE Change \/ Splice
  <2>1. result' = arg /\ c.steps[k].op \in {"Cas", "Splice"}
    BY <1>4, <1>6, <1>7, <1>11 DEF Change, Splice, Return, At
  <2>2. result' \in Refusals
    BY <1>2, <1>7, <2>1 DEF InOrder
  <2> QED BY <2>2 DEF Refusals, Codes
<1>12. CASE Decode
  BY <1>4, <1>12 DEF Decode
<1>13. CASE Slice
  <2>1. c.steps[k].op = "Slice"
    BY <1>7, <1>13 DEF Slice, At
  <2>2. k > 1 /\ c.steps[k - 1].op = "Range"
    BY <1>2, <2>1 DEF Measured
  <2>3. Before(c, k, {"Invoke", "Get", "Range"})
    BY <1>2, <2>2 DEF Before
  <2>4. 0 <= f.start /\ 0 <= f.n /\ f.start + f.n <= f.size
    BY <1>3, <1>5, <2>2, <2>3 DEF Cut, Sized
  <2> QED BY <1>4, <1>13, <2>4 DEF Slice
<1>14. CASE Read
  <2>1. PICK a, n \in Samples : Sound(a, n) /\ Follow(GetMemory(a, n), arg)
    BY <1>14 DEF Read
  <2>2. GetMemory(a, n) # "ok"
    BY <1>4, <2>1 DEF Follow
  <2>3. a \in Int32 /\ n \in Int32 /\ HasSize(env.mem, a, Uint32(n))
    BY <1>8, <2>1 DEF Sound
  <2>4. ~(started /\ (env.engine = "wazero" \/ env.mem < Word \div 2))
    BY <2>2, <2>3, Served
  <2>5. arg = "InvalidMemoryAccess"
    BY <1>2, <1>7, <1>14 DEF Read, At, InOrder
  <2>6. ~started /\ env.engine = "wasmer" => GetMemory(a, n) = "err"
    BY DEF GetMemory, Access
  <2> QED BY <2>1, <2>4, <2>5, <2>6 DEF Follow, Return
<1>15. CASE Malloc
  <2>1. ~started /\ result' = arg
    BY <1>4, <1>15 DEF Malloc, Return
  <2>2. arg \in Faults
    BY <1>2, <1>7, <1>15 DEF Malloc, At, InOrder
  <2> QED BY <2>1, <2>2 DEF Faults
<1>16. CASE PutContent
  <2>1. PICK capacity \in f.size .. f.size + 1 : Follow(PutMemory(f.addr, f.n, capacity), arg)
    BY <1>16 DEF PutContent
  <2>2. PutMemory(f.addr, f.n, capacity) # "ok"
    BY <1>4, <2>1 DEF Follow
  <2>3. Before(c, k, {"Malloc"}) /\ Before(c, k, {"Invoke", "Get", "Range"})
    BY <1>2, <1>7, <1>16 DEF PutContent, At, Measured
  <2>4. started /\ HasSize(env.mem, f.addr, Uint32(f.n)) /\ f.n \in 0..f.size
    BY <1>3, <2>3 DEF Allocated, Sized
  <2>5. capacity \in Nat /\ f.n \in 0..capacity
    BY <1>5, <2>4
  <2>6. ~(env.engine = "wazero" \/ env.mem < Word \div 2)
    BY <1>5, <2>2, <2>4, <2>5, Served
  <2> QED BY <2>4, <2>6
<1>17. CASE PutCount \/ PutPairs
  <2>1. /\ Before(c, k, {"Malloc"}) /\ c.steps[1].op = "Object" /\ k > 1
        /\ ~Before(c, k, {"Invoke", "Get", "Range", "Slice"})
    BY <1>2, <1>7, <1>17 DEF PutCount, PutPairs, At, Measured
  <2>2. started /\ HasSize(env.mem, f.addr, Uint32(f.n)) /\ f.n = PairsSize(f.size)
    BY <1>3, <2>1 DEF Allocated, Mapped
  <2>3. PICK mem \in Int : mem = env.mem
    BY MemoryFits
  <2>4. /\ f.n >= 4 /\ Uint32(f.n) = f.n /\ Uint32(f.addr) \in Int
        /\ f.addr < 0 => Uint32(f.addr) >= Word \div 2
    BY <1>5, <2>2, Sizes, Half, UnsignedInt32
  <2>5. Uint32(f.addr) + f.n <= mem
    BY <2>2, <2>3, <2>4 DEF HasSize
  <2>6. CASE PutCount
    <3>1. HasSize(env.mem, f.addr, u32Len)
      BY <1>5, <2>3, <2>4, <2>5 DEF HasSize, u32Len
    <3>2. PutWord(f.addr) # "ok"
      BY <1>4, <2>6 DEF PutCount, Follow
    <3>3. ~(env.engine = "wazero" \/ env.mem < Word \div 2)
      BY <1>5, <2>2, <3>1, <3>2, Served
    <3> QED BY <2>2, <3>3
  <2>7. CASE PutPairs
    <3>1. "panic" \in PairsOutcomes
      BY <1>4, <2>7 DEF PutPairs
    <3>2. Uint32(f.n) + Uint32(f.addr) <= env.mem
      BY <1>5, <2>3, <2>4, <2>5
    <3>3. ~(env.engine = "wazero" \/ f.addr >= 0)
      BY <2>2, <3>1, <3>2, PairsFit
    <3>4. f.addr < 0 /\ f.addr \in Int
      BY <1>5, <3>3, Half DEF Int32
    <3>5. ~(env.mem < Word \div 2)
      BY <1>5, <2>3, <2>4, <2>5, <3>4, Half
    <3> QED BY <2>2, <3>3, <3>5
  <2> QED BY <1>17, <2>6, <2>7
<1>18. CASE PutUint32
  <2>1. PICK a \in Samples : Sound(a, u32Len) /\ Follow(PutWord(a), "InvalidMemoryAccess")
    BY <1>18 DEF PutUint32
  <2>2. PutWord(a) # "ok"
    BY <1>4, <2>1 DEF Follow
  <2>3. Uint32(u32Len) = u32Len
    BY Unsigned, WordAssumption DEF u32Len, WordAssumption
  <2>4. a \in Int32 /\ HasSize(env.mem, a, u32Len)
    BY <1>8, <2>1, <2>3 DEF Sound
  <2>5. ~(started /\ (env.engine = "wazero" \/ env.mem < Word \div 2))
    BY <1>5, <2>2, <2>4, Served
  <2>6. ~started /\ env.engine = "wasmer" => PutWord(a) = "err"
    BY DEF PutWord, Access
  <2> QED BY <2>1, <2>5, <2>6 DEF Follow, Return
<1> QED BY <1>9, <1>10, <1>11, <1>12, <1>13, <1>14, <1>15, <1>16, <1>17, <1>18 DEF HostStep

\* What sound guests and handlers keep to in a step.
LEMMA StepSound ==
  ASSUME Typed, HostStep, Continue, env.sound
  PROVE  LET op == steps[at].op
         IN  /\ op = "Malloc" => HasSize(env.mem, f'.addr, Uint32(f'.n))
             /\ op = "Range" => Inside(f')
             /\ op = "Slice" => 0 <= f.n
<1>1. f \in Frames /\ pc' = "host"
  BY HostMoves DEF Typed, Continue
<1>2. CASE Malloc
  <2>1. PICK a \in Samples : Sound(a, f.n) /\ f' = [f EXCEPT !.addr = a]
    BY <1>1, <1>2 DEF Malloc, Return, Panic
  <2>2. f'.addr = a /\ f'.n = f.n
    BY <1>1, <2>1 DEF Frames
  <2>3. steps[at].op = "Malloc"
    BY <1>2 DEF Malloc, At
  <2> QED BY <2>1, <2>2, <2>3 DEF Sound
<1>3. CASE Range
  <2>1. PICK start \in Starts, length \in Lengths :
          /\ start \in 0..f.size /\ length >= 0
          /\ f' = [f EXCEPT !.whole = f.size, !.start = start, !.asked = length,
                            !.n = Clipped(start, length)]
    BY <1>1, <1>3 DEF Range, Return
  <2>2. f'.whole = f.size /\ f'.start = start /\ f'.asked = length
    BY <1>1, <2>1 DEF Frames
  <2>3. steps[at].op = "Range"
    BY <1>3 DEF Range, At
  <2> QED BY <2>1, <2>2, <2>3 DEF Inside
<1>4. CASE Slice
  <2>1. 0 <= f.n
    BY <1>1, <1>4 DEF Slice, Return, Panic
  <2>2. steps[at].op = "Slice"
    BY <1>4 DEF Slice, At
  <2> QED BY <2>1, <2>2
<1>5. CASE ~(Malloc \/ Range \/ Slice)
  <2>1. steps[at].op \notin {"Malloc", "Range", "Slice"}
    BY <1>5 DEF HostStep, Object, Check, Read, NonEmpty, Decode, Invoke, Change, Splice,
       Get, IsEmpty, PutContent, PutCount, PutPairs, PutUint32, At
  <2> QED BY <2>1
<1> QED BY <1>2, <1>3, <1>4, <1>5

LEMMA SoundGoesOn ==
  ASSUME Typed, SoundInv, env.sound, HostStep, Continue
  PROVE  /\ Allocated(HostFunctions[call], at + 1, f', env.mem)
         /\ Sized(HostFunctions[call], at + 1, f')
         /\ Cut(HostFunctions[call], at + 1, f')
<1>1. PICK c, k : c = HostFunctions[call] /\ k = at
  OBVIOUS
<1>2. /\ k \in 1..Len(c.steps) /\ k \in Nat \ {0} /\ steps = c.steps /\ f \in Frames
      /\ pc = "host" /\ InOrder(c) /\ Measured(c) /\ Len(c.steps) \in Nat
  BY <1>1, Standing DEF Fits
<1>3. Allocated(c, k, f, env.mem) /\ Sized(c, k, f) /\ Cut(c, k, f)
  BY <1>1, <1>2 DEF SoundInv
<1>4. \A ops : Before(c, k + 1, ops) <=> Before(c, k, ops) \/ c.steps[k].op \in ops
  BY <1>2, BeforeNext
<1>5. \A g \in Frames : /\ g.n \in Int /\ g.size \in Int /\ g.size >= 0 /\ g.start \in Int
                        /\ g.whole \in Int /\ g.asked \in Int
  <2>1. \A g \in Frames : /\ g.n \in Int32 /\ g.start \in Int32 /\ g.asked \in Int32
                          /\ g.size \in 0..MaxLen /\ g.whole \in 0..MaxLen
    BY DEF Frames
  <2> QED BY <2>1, Half, Sizes DEF Int32
<1>6. f' \in Frames
  BY FrameKept
<1>7. /\ c.steps[k].op \in {"Invoke", "Get"} => f'.n = f'.size
      /\ c.steps[k].op \notin {"Object", "Invoke", "Get", "Range"} => f'.n = f.n
      /\ c.steps[k].op \notin {"Object", "Invoke", "Get", "Slice"} => f'.size = f.size
      /\ c.steps[k].op # "Malloc" => f'.addr = f.addr
  BY <1>1, <1>2, StepCounts
<1>8. /\ c.steps[k].op = "Malloc" => HasSize(env.mem, f'.addr, Uint32(f'.n))
      /\ c.steps[k].op = "Range" => Inside(f')
      /\ c.steps[k].op = "Slice" => 0 <= f.n
  BY <1>1, <1>2, StepSound
<1>9. /\ c.steps[k].op = "Range" => /\ f'.whole = f.size /\ f'.size = f.size
                                    /\ Inside(f') => f'.n = Rest(f')
      /\ c.steps[k].op = "Slice" => f'.size = f.n /\ f'.n = f.n
  BY <1>1, <1>2, StepRange
<1>10. Allocated(c, k + 1, f', env.mem)
  <2>1. CASE c.steps[k].op = "Malloc"
    BY <1>8, <2>1 DEF Allocated
  <2>2. CASE c.steps[k].op # "Malloc" /\ Before(c, k, {"Malloc"})
    <3>1. c.steps[k].op \in Answering
      <4>1. \A i \in 1..(k - 1) : i \in 1..Len(c.steps) /\ i < k
        BY <1>2
      <4>2. "Malloc" \in Answering
        BY DEF Answering
      <4> QED BY <1>2, <2>2, <4>1, <4>2 DEF Before, InOrder
    <3>2. f'.n = f.n /\ f'.addr = f.addr
      BY <1>7, <2>2, <3>1 DEF Answering
    <3> QED BY <1>3, <2>2, <3>2 DEF Allocated
  <2>3. CASE c.steps[k].op # "Malloc" /\ ~Before(c, k, {"Malloc"})
    BY <1>4, <2>3 DEF Allocated
  <2> QED BY <2>1, <2>2, <2>3
<1>11. c.steps[k].op = "Range" =>
         f'.n \in 0..f'.size /\ 0 <= f'.start /\ f'.start + f'.n <= f'.size
  BY <1>5, <1>6, <1>8, <1>9 DEF Inside, Rest
<1>12. Sized(c, k + 1, f')
  <2>1. CASE c.steps[k].op \in {"Invoke", "Get"}
    BY <1>5, <1>6, <1>7, <2>1 DEF Sized
  <2>2. CASE c.steps[k].op = "Range"
    BY <1>11, <2>2 DEF Sized
  <2>3. CASE c.steps[k].op = "Object"
    <3>1. k = 1
      BY <1>2, <2>3 DEF Measured
    <3>2. ~Before(c, k + 1, {"Invoke", "Get", "Range"})
      BY <1>4, <2>3, <3>1, NothingBefore
    <3> QED BY <3>2 DEF Sized
  <2>4. CASE c.steps[k].op = "Slice"
    BY <1>2, <1>5, <1>8, <1>9, <2>4 DEF Sized
  <2>5. CASE c.steps[k].op \notin {"Object", "Invoke", "Get", "Range", "Slice"}
    BY <1>3, <1>4, <1>7, <2>5 DEF Sized
  <2> QED BY <2>1, <2>2, <2>3, <2>4, <2>5
<1>13. Cut(c, k + 1, f')
  <2> SUFFICES ASSUME c.steps[k + 1 - 1].op = "Range"
               PROVE  0 <= f'.start /\ f'.start + f'.n <= f'.size
    BY <1>2, <1>5, <1>6 DEF Cut
  <2>1. c.steps[k].op = "Range"
    BY <1>2
  <2> QED BY <1>11, <2>1
<1> QED BY <1>1, <1>10, <1>12, <1>13

LEMMA SoundKept == Typed /\ AnswerInv /\ SoundInv /\ [Next]_vars => SoundInv'
<1> SUFFICES ASSUME Typed, AnswerInv, SoundInv, [Next]_vars PROVE SoundInv'
  OBVIOUS
<1> DEFINE Reported(o, begun) == env.sound =>
             /\ (begun /\ o.missed # "none") => env.engine = "wazero" /\ o.missed \in TypedExports
             /\ o.end = "panic" => env.imports = "nil"
           Replied(h, code) == env.sound =>
             /\ (started /\ code \in {"InvalidMemoryAccess", "InternalFailure", "panic"}) =>
                  env.engine = "wasmer" /\ (HostFunctions[h].typed \/ env.mem >= Word \div 2)
             /\ (~started /\ code = "panic") => env.engine = "wazero" \/ HostFunctions[h].typed
<1>1. Reported(out, started) /\ Reported(Nothing, started)
  BY DEF SoundInv, SoundIsServed, Nothing
<1>2. \A shape : Reported(Failed(shape), started)
  BY DEF Failed, Outcome
<1>3. UNCHANGED env => TypedExports' = TypedExports /\ HostFunctions' = HostFunctions
  BY DEF TypedExports, HostFunctions
<1>4. ASSUME UNCHANGED env, Reported(out', started'), result' = "none"
      PROVE  SoundIsServed'
  <2>1. TypedExports' = TypedExports
    BY <1>3, <1>4
  <2> QED BY <1>4, <2>1 DEF SoundIsServed
<1>5. ASSUME UNCHANGED <<env, started>>, out' = Nothing, Replied(call', result')
      PROVE  SoundIsServed'
  <2>1. HostFunctions' = HostFunctions
    BY <1>3, <1>5
  <2>2. out'.missed = "none" /\ out'.end = "none"
    BY <1>5 DEF Nothing
  <2> QED BY <1>5, <2>1, <2>2 DEF SoundIsServed
<1>6. ASSUME UNCHANGED <<env, started>>, Reported(out', started'),
             pc' \in {"embedder", "guest"}, pc' # "embedder" => out' = Nothing, result' = "none"
      PROVE  SoundInv'
  BY <1>4, <1>6 DEF SoundInv
<1>7. CASE UNCHANGED vars
  BY <1>7 DEF vars, SoundInv, SoundIsServed, HostFunctions, TypedExports
<1>8. CASE HostStep
  <2>1. /\ UNCHANGED <<env, started, call, out>> /\ pc = "host"
        /\ HostFunctions' = HostFunctions /\ result = "none"
    BY <1>3, <1>8, HostMoves DEF outside, Typed, Placed
  <2>2. out' = Nothing
    BY <2>1 DEF SoundInv
  <2>3. CASE Continue
    <3>1. pc' = "host" /\ at' = at + 1 /\ result' = "none"
      BY <2>1, <2>3 DEF Continue
    <3>2. env.sound => /\ Allocated(HostFunctions[call], at + 1, f', env.mem)
                       /\ Sized(HostFunctions[call], at + 1, f')
                       /\ Cut(HostFunctions[call], at + 1, f')
      BY <1>8, <2>3, SoundGoesOn
    <3>3. SoundIsServed'
      BY <1>1, <1>4, <2>1, <2>2, <3>1
    <3> QED BY <2>1, <2>2, <3>1, <3>2, <3>3 DEF SoundInv
  <2>4. CASE Refuse
    <3>1. pc' = "answered"
      BY <2>4 DEF Refuse, Return
    <3>2. env.engine \in {"wazero", "wasmer"}
      BY DEF Typed, TypeOK, Environments
    <3>3. env.sound =>
            /\ started /\ (env.engine = "wazero" \/ env.mem < Word \div 2) =>
                 result' \notin {"InvalidMemoryAccess", "InternalFailure", "panic"}
            /\ ~started /\ env.engine = "wasmer" => result' # "panic"
      BY <1>8, <2>4, SoundStep
    <3>4. ~(env.mem < Word \div 2) => env.mem >= Word \div 2
      BY MemoryFits, Half
    <3>5. Replied(call', result')
      BY <3>2, <3>3, <3>4
    <3> QED BY <1>5, <2>1, <2>2, <3>1, <3>5 DEF SoundInv
  <2> QED BY <1>8, <2>3, <2>4, HostMoves
<1>9. CASE ReturnOk
  <2>1. /\ pc = "host" /\ pc' = "answered" /\ result' = "Ok" /\ UNCHANGED <<env, started, out>>
    BY <1>9 DEF ReturnOk, Return, outside
  <2>2. out' = Nothing /\ Replied(call', result')
    BY <2>1 DEF SoundInv
  <2> QED BY <1>5, <2>1, <2>2 DEF SoundInv
<1>10. ASSUME NEW e \in DOMAIN Exports, CallExport(e)
       PROVE  SoundInv'
  <2>1. UNCHANGED <<env, started>> /\ pc' \in {"embedder", "guest"} /\ result' = "none"
    BY <1>10 DEF CallExport, Typed, Placed
  <2>2. CASE pc' = "guest"
    <3>1. out' = Nothing
      BY <1>10, <2>2 DEF CallExport
    <3> QED BY <1>1, <1>6, <2>1, <3>1
  <2>3. CASE pc' = "embedder"
    <3>1. /\ ~started \/ Refused(e) \/ ~env.sound
          /\ out' = [Failed(Exports[e]) EXCEPT !.missed = e]
      BY <1>10, <2>3 DEF CallExport
    <3>2. out'.missed = e /\ out'.end = "err"
      BY <3>1 DEF Failed, Outcome
    <3>3. Reported(out', started')
      BY <2>1, <3>1, <3>2 DEF Refused
    <3> QED BY <1>6, <2>1, <2>3, <3>3
  <2> QED BY <2>1, <2>2, <2>3
<1>11. ASSUME NEW v \in {"none", "i32", "i64", "ref"}, GuestReturns(v)
       PROVE  SoundInv'
  <2>1. pc' = "embedder" /\ env' = env /\ result' = "none"
    BY <1>11 DEF GuestReturns, Typed, Placed
  <2>2. out'.missed = "none"
    BY <1>11 DEF GuestReturns, Returned, Failed, Outcome
  <2>3. env.sound /\ out'.end = "panic" => env.imports = "nil"
    <3> SUFFICES ASSUME env.sound, env.imports # "nil" PROVE out'.end # "panic"
      OBVIOUS
    <3>1. v # "ref" /\ (caller = "int32" => v = "i32")
      BY <1>11 DEF GuestReturns
    <3>2. out' = Outcome("ok", "none") \/ out' = Returned(caller, v)
      BY <1>11, <3>1 DEF GuestReturns
    <3> QED BY <3>1, <3>2 DEF Returned, Outcome
  <2>4. SoundIsServed'
    BY <1>4, <2>1, <2>2, <2>3
  <2> QED BY <2>1, <2>4 DEF SoundInv
<1>12. CASE GuestTraps
  <2>1. /\ UNCHANGED <<env, started>> /\ pc' = "embedder" /\ result' = "none"
        /\ out' = Failed(caller)
    BY <1>12 DEF GuestTraps, Typed, Placed
  <2> QED BY <1>2, <1>6, <2>1
<1>13. ASSUME NEW h \in DOMAIN HostFunctions, CallHost(h)
       PROVE  SoundInv'
  <2>1. /\ at' = 1 /\ call' = h /\ pc = "guest" /\ UNCHANGED <<env, started, out>>
        /\ \/ /\ pc' = "answered" /\ result' = "panic"
              /\ HostFunctions[h].typed /\ env.engine = "wasmer"
           \/ pc' = "host" /\ result' = "none"
    BY <1>13 DEF CallHost, outside
  <2>2. out' = Nothing /\ Replied(call', result')
    BY <2>1 DEF SoundInv
  <2>3. \A c, g, mem : Allocated(c, at', g, mem) /\ Sized(c, at', g) /\ Cut(c, at', g)
    BY <2>1, NothingBefore DEF Allocated, Sized, Cut
  <2>4. SoundIsServed'
    BY <1>5, <2>1, <2>2
  <2> QED BY <2>1, <2>2, <2>3, <2>4 DEF SoundInv
<1>14. CASE BackToGuest
  <2>1. /\ UNCHANGED <<env, started>> /\ pc = "answered" /\ result' = "none"
        /\ \/ pc' = "embedder" /\ out' = Failed(caller)
           \/ pc' = "guest" /\ out' = out
    BY <1>14 DEF BackToGuest
  <2>2. out = Nothing
    BY <2>1 DEF SoundInv
  <2> QED BY <1>1, <1>2, <1>6, <2>1, <2>2
<1> QED BY <1>7, <1>8, <1>9, <1>10, <1>11, <1>12, <1>13, <1>14 DEF Next, HostStep

\* A guest and a handler that keep to what is asked of them are served by every host call
\* and reached by every export, but for the exceptions that SoundIsServed names: in a
\* memory of any size, at any address in it, with buffers and maps of any length.
THEOREM SoundServed == Spec => []SoundIsServed
<1>1. Init => AnswerInv /\ SoundInv
  BY DEF Init, AnswerInv, AnswerWhole, SoundInv, SoundIsServed, Nothing
<1>2. SoundInv => SoundIsServed
  BY DEF SoundInv
<1> QED BY <1>1, <1>2, AnswerKept, SoundKept, AlwaysTyped, PTL DEF Spec
===============================================================================
