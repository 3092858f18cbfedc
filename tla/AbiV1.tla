--------------------------------- MODULE AbiV1 ---------------------------------
(* The host calls (internal/imports/v1) and the exports (proxywasm/v1/exports.go)*)
(* of ABI 0.1.0, and what the default handler answers (proxywasm/v1/default.go). *)
EXTENDS AbiSteps

\* A key, name or function name that must not be empty: every call starts so that
\* takes one by which something is looked up.
ReadKey == <<Read, NonEmpty>>
copyIntoInstance ==
  <<Malloc, PutMemory("InvalidMemoryAccess"), PutUint32("data"), PutUint32("size")>>
copyBytesIntoInstance ==
  <<Malloc, PutMemory("InvalidMemoryAccess"), PutUint32("data"), PutUint32("size")>>

\* The getters: any of them may give nil.
GetBuffer == Object("NotFound")
GetMap == Object("NotFound")

-------------------------------------------------------------------------------
(* imports.go, l4.go                                                             *)

ProxyLog == HostCall({}, <<Read, Invoke("Log")>>)
ProxySetEffectiveContext == HostCall({}, <<Invoke("SetEffectiveContextID")>>)
ProxySetTickPeriodMilliseconds == HostCall({}, <<Invoke("SetTickPeriodMilliseconds")>>)
\* uint32(nano): the high half of the time is never written.
ProxyGetCurrentTimeNanoseconds ==
  HostCall({"value", "high"}, <<Invoke("GetCurrentTimeNanoseconds"), PutUint32("value")>>)
ProxyDone == HostCall({}, <<Invoke("Done")>>)
ProxyCallForeignFunction == HostCall({"data", "size"},
  <<Read, Read, Invoke("CallForeignFunction")>> \o copyBytesIntoInstance)
ProxyResumeDownstream == HostCall({}, <<Invoke("ResumeDownstream")>>)
ProxyResumeUpstream == HostCall({}, <<Invoke("ResumeUpstream")>>)

-------------------------------------------------------------------------------
(* shared.go                                                                     *)

ProxyGetProperty == HostCall({"data", "size"},
  ReadKey \o <<Invoke("GetProperty")>> \o copyIntoInstance)

\* The mutant acts before it has read the value.
ProxySetProperty_ActsFirst == HostCall({}, ReadKey \o <<Invoke("SetProperty"), Read>>)
ProxySetProperty == HostCall({}, ReadKey \o <<Read, Invoke("SetProperty")>>)
ProxyRegisterSharedQueue == HostCall({"value"},
  ReadKey \o <<Invoke("RegisterSharedQueue"), PutUint32("value")>>)
ProxyRemoveSharedQueue == HostCall({}, <<Invoke("RemoveSharedQueue")>>)
ProxyResolveSharedQueue == HostCall({"value"},
  ReadKey \o <<Invoke("ResolveSharedQueue"), PutUint32("value")>>)
ProxyDequeueSharedQueue == HostCall({"data", "size"},
  <<Invoke("DequeueSharedQueue")>> \o copyIntoInstance)
ProxyEnqueueSharedQueue == HostCall({}, <<Read, Invoke("EnqueueSharedQueue")>>)
ProxyGetSharedData == HostCall({"data", "size", "cas"},
  ReadKey \o <<Invoke("GetSharedData")>> \o copyIntoInstance \o <<PutUint32("cas")>>)
ProxySetSharedData == HostCall({}, ReadKey \o <<Read, Invoke("SetSharedData")>>)

-------------------------------------------------------------------------------
(* buffer.go, header.go                                                          *)

\* The bytes are taken from the beginning of the buffer whatever start is.
ProxyGetBufferBytes == HostCall({"data", "size"},
  <<GetBuffer, Range("BadArgument"), Malloc, PutMemory("InternalFailure"),
    PutUint32("data"), PutUint32("size")>>)
ProxySetBufferBytes == HostCall({}, <<GetBuffer, Read, Splice("BadArgument")>>)

\* The mutant forgets to write the size.
ProxyGetHeaderMapPairs_NoSize == HostCall({"data", "size"},
  <<GetMap, Malloc, PutCount, PutPairs, PutUint32("data")>>)
ProxyGetHeaderMapPairs == HostCall({"data", "size"},
  <<GetMap, Malloc, PutCount, PutPairs, PutUint32("data"), PutUint32("size")>>)
ProxySetHeaderMapPairs == HostCall({}, <<GetMap, Read, Decode, Set>>)
ProxyGetHeaderMapValue == HostCall({"data", "size"},
  <<GetMap>> \o ReadKey \o <<Get("NotFound")>> \o copyIntoInstance)
ProxyReplaceHeaderMapValue == HostCall({}, <<GetMap>> \o ReadKey \o <<Read, NonEmpty, Set>>)
ProxyAddHeaderMapValue == HostCall({}, <<GetMap>> \o ReadKey \o <<Read, Set>>)
ProxyRemoveHeaderMapValue == HostCall({}, <<GetMap>> \o ReadKey \o <<Del>>)

-------------------------------------------------------------------------------
(* http.go, grpc.go, metrics.go                                                  *)

ProxyResumeHttpRequest == HostCall({}, <<Invoke("ResumeHttpRequest")>>)
ProxyResumeHttpResponse == HostCall({}, <<Invoke("ResumeHttpResponse")>>)
ProxySendHttpResponse == HostCall({}, <<Read, Read, Read, Decode, Invoke("SendHttpResp")>>)
ProxyHttpCall == HostCall({"value"},
  <<Read, Read, Decode, Read, Read, Decode, Invoke("HttpCall"), PutUint32("value")>>)

ProxyOpenGrpcStream == HostCall({"value"},
  <<Read, Read, Read, Invoke("OpenGrpcStream"), PutUint32("value")>>)
ProxySendGrpcCallMessage == HostCall({}, <<Read, Invoke("SendGrpcCallMsg")>>)
ProxyCancelGrpcCall == HostCall({}, <<Invoke("CancelGrpcCall")>>)
ProxyCloseGrpcCall == HostCall({}, <<Invoke("CloseGrpcCall")>>)
ProxyGrpcCall == HostCall({"value"},
  <<Read, Read, Read, Read, Invoke("GrpcCall"), PutUint32("value")>>)

ProxyDefineMetric == HostCall({"value"},
  <<Check("BadArgument")>> \o ReadKey \o <<Invoke("DefineMetric"), PutUint32("value")>>)
ProxyIncrementMetric == HostCall({}, <<Invoke("IncrementMetric")>>)
ProxyRecordMetric == HostCall({}, <<Invoke("RecordMetric")>>)
\* uint32(value): the high half of the metric is never written.
ProxyGetMetric == HostCall({"value", "high"}, <<Invoke("GetMetric"), PutUint32("value")>>)
ProxyRemoveMetric == HostCall({}, <<Invoke("RemoveMetric")>>)

\* The names under which the guest finds them.
HostFunctions ==
  [proxy_log |-> ProxyLog,
   proxy_set_effective_context |-> ProxySetEffectiveContext,
   proxy_get_property |-> ProxyGetProperty,
   proxy_set_property |-> ProxySetProperty,
   proxy_get_buffer_bytes |-> ProxyGetBufferBytes,
   proxy_set_buffer_bytes |-> ProxySetBufferBytes,
   proxy_get_header_map_pairs |-> ProxyGetHeaderMapPairs,
   proxy_set_header_map_pairs |-> ProxySetHeaderMapPairs,
   proxy_get_header_map_value |-> ProxyGetHeaderMapValue,
   proxy_replace_header_map_value |-> ProxyReplaceHeaderMapValue,
   proxy_add_header_map_value |-> ProxyAddHeaderMapValue,
   proxy_remove_header_map_value |-> ProxyRemoveHeaderMapValue,
   proxy_set_tick_period_milliseconds |-> ProxySetTickPeriodMilliseconds,
   proxy_get_current_time_nanoseconds |-> ProxyGetCurrentTimeNanoseconds,
   proxy_resume_downstream |-> ProxyResumeDownstream,
   proxy_resume_upstream |-> ProxyResumeUpstream,
   proxy_open_grpc_stream |-> ProxyOpenGrpcStream,
   proxy_send_grpc_call_message |-> ProxySendGrpcCallMessage,
   proxy_cancel_grpc_call |-> ProxyCancelGrpcCall,
   proxy_close_grpc_call |-> ProxyCloseGrpcCall,
   proxy_grpc_call |-> ProxyGrpcCall,
   proxy_dispatch_grpc_call |-> ProxyGrpcCall,
   proxy_resume_http_request |-> ProxyResumeHttpRequest,
   proxy_resume_http_response |-> ProxyResumeHttpResponse,
   proxy_send_http_response |-> ProxySendHttpResponse,
   proxy_http_call |-> ProxyHttpCall,
   proxy_dispatch_http_call |-> ProxyHttpCall,
   proxy_define_metric |-> ProxyDefineMetric,
   proxy_remove_metric |-> ProxyRemoveMetric,
   proxy_increment_metric |-> ProxyIncrementMetric,
   proxy_record_metric |-> ProxyRecordMetric,
   proxy_get_metric |-> ProxyGetMetric,
   proxy_register_shared_queue |-> ProxyRegisterSharedQueue,
   proxy_remove_shared_queue |-> ProxyRemoveSharedQueue,
   proxy_resolve_shared_queue |-> ProxyResolveSharedQueue,
   proxy_dequeue_shared_queue |-> ProxyDequeueSharedQueue,
   proxy_enqueue_shared_queue |-> ProxyEnqueueSharedQueue,
   proxy_get_shared_data |-> ProxyGetSharedData,
   proxy_set_shared_data |-> ProxySetSharedData,
   proxy_done |-> ProxyDone,
   proxy_call_foreign_function |-> ProxyCallForeignFunction]

\* The codes with which the default handler may answer a method. SharedData and
\* SharedQueue say which of theirs the last seven give and when.
DefaultHandler(method) ==
  CASE method \in {"Log", "GetProperty", "GetCurrentTimeNanoseconds", "RegisterSharedQueue"}
         -> {"Ok"}
    [] method \in {"RemoveSharedQueue", "ResolveSharedQueue", "EnqueueSharedQueue",
                   "GetSharedData"} -> {"Ok", "NotFound"}
    [] method = "DequeueSharedQueue" -> {"Ok", "NotFound", "Empty"}
    [] method = "SetSharedData" -> {"Ok", "CasMismatch", "BadArgument"}
    [] OTHER -> {"Unimplemented"}

-------------------------------------------------------------------------------
(* The exports, by what they make of the outcome of CallWasmFunction: its error, *)
(* the int32 that the guest returned, or the action that the handler's Wait gave.*)

LifecycleExports ==
  [proxy_on_context_create |-> "error", proxy_on_done |-> "int32",
   proxy_on_log |-> "error", proxy_on_vm_start |-> "int32", proxy_on_delete |-> "error",
   proxy_on_configure |-> "int32", proxy_on_tick |-> "error"]

StreamExports ==
  [proxy_on_new_connection |-> "action", proxy_on_downstream_data |-> "action",
   proxy_on_downstream_connection_close |-> "error", proxy_on_upstream_data |-> "action",
   proxy_on_upstream_connection_close |-> "error"]

HttpExports ==
  [proxy_on_request_headers |-> "action", proxy_on_request_body |-> "action",
   proxy_on_request_trailers |-> "action", proxy_on_request_metadata |-> "action",
   proxy_on_response_headers |-> "action", proxy_on_response_body |-> "action",
   proxy_on_response_trailers |-> "action", proxy_on_response_metadata |-> "action"]

CalloutExports ==
  [proxy_on_http_call_response |-> "error", proxy_on_queue_ready |-> "error",
   proxy_on_memory_allocate |-> "int32",
   proxy_on_grpc_call_response_header_metadata |-> "error",
   proxy_on_grpc_call_response_message |-> "error",
   proxy_on_grpc_call_response_trailer_metadata |-> "error",
   proxy_on_grpc_call_close |-> "error"]

ExportGroups == {LifecycleExports, StreamExports, HttpExports, CalloutExports}
Exports == [e \in UNION {DOMAIN group : group \in ExportGroups} |->
              (CHOOSE group \in ExportGroups : e \in DOMAIN group)[e]]

\* The exports that pass an argument of a named type to the guest.
TypedExports == {}
===============================================================================
