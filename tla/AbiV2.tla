--------------------------------- MODULE AbiV2 ---------------------------------
(* The host calls (internal/imports/v2) and the exports (proxywasm/v2/exports.go)*)
(* of ABI 0.2.0, and what the default handler answers (proxywasm/v2/default.go). *)
EXTENDS AbiSteps

ReadKey == <<Read, NonEmpty>>
copyIntoInstance ==
  <<Malloc, PutMemory("InvalidMemoryAccess"), PutUint32("data"), PutUint32("size")>>

-------------------------------------------------------------------------------
(* Context, streams and HTTP                                                     *)

ProxyLog == HostCall({}, <<Read, Invoke("Log")>>)
ProxySetEffectiveContext == HostCall({}, <<Invoke("SetEffectiveContext")>>)
ProxyContextFinalize == HostCall({}, <<Invoke("ContextFinalize")>>)
ProxyResumeStream == TypedHostCall({}, <<Invoke("ResumeStream")>>)
ProxyCloseStream == TypedHostCall({}, <<Invoke("CloseStream")>>)
ProxySendHttpResponse == HostCall({}, <<Read, Read, Read, Decode, Invoke("SendHttpResp")>>)
ProxyResumeHttpStream == TypedHostCall({}, <<Check("BadArgument"), Invoke("ResumeStream")>>)
ProxyCloseHttpStream == TypedHostCall({}, <<Check("BadArgument"), Invoke("CloseStream")>>)

-------------------------------------------------------------------------------
(* Buffers and maps                                                              *)

\* The getters: any of them may give nil.
GetBuffer == Object("BadArgument")
GetMap == Object("NotFound")

ProxyGetBuffer == HostCall({"data", "size"},
  <<GetBuffer, IsEmpty("Empty"), Range("BadArgument"), Slice>> \o copyIntoInstance)
ProxySetBuffer == TypedHostCall({}, <<GetBuffer, Read, Splice("BadArgument")>>)

ProxyGetHeaderMapPairs == HostCall({"data", "size"},
  <<GetMap, Malloc, PutCount, PutPairs, PutUint32("data"), PutUint32("size")>>)
\* A key of no bytes is not found, before it is read.
ProxyGetHeaderMapValue == HostCall({"data", "size"},
  <<GetMap, Check("NotFound")>> \o ReadKey \o <<Get("NotFound")>> \o copyIntoInstance)
ProxyReplaceHeaderMapValue == HostCall({}, <<GetMap, Read, Read, Set>>)

-------------------------------------------------------------------------------
(* Shared stores and queues                                                      *)

KvStore == Object("BadArgument")  \* GetSharedKvstore may give nil

ProxyOpenSharedKvstore == HostCall({"value"},
  ReadKey \o <<Invoke("OpenSharedKvstore"), PutUint32("value")>>)
\* The cas that the guest asks for is never written.
ProxyGetSharedKvstoreKeyValues == HostCall({"data", "size", "cas"},
  <<KvStore>> \o ReadKey \o <<Get("NotFound")>> \o copyIntoInstance)
ProxySetSharedKvstoreKeyValues == HostCall({},
  <<KvStore>> \o ReadKey \o <<Read, Cas("CompareAndSwapMismatch")>>)
ProxyAddSharedKvstoreKeyValues == HostCall({},
  <<KvStore>> \o ReadKey \o <<Read, Cas("CompareAndSwapMismatch")>>)
ProxyRemoveSharedKvstoreKey == HostCall({},
  <<KvStore>> \o ReadKey \o <<Cas("CompareAndSwapMismatch")>>)
ProxyDeleteSharedKvstore == HostCall({}, <<Invoke("DeleteSharedKvstore")>>)

ProxyOpenSharedQueue == HostCall({"value"},
  ReadKey \o <<Invoke("OpenSharedQueue"), PutUint32("value")>>)
ProxyDequeueSharedQueueItem == HostCall({"data", "size"},
  <<Invoke("DequeueSharedQueueItem")>> \o copyIntoInstance)
ProxyEnqueueSharedQueueItem == HostCall({}, <<Read, Invoke("EnqueueSharedQueueItem")>>)
ProxyDeleteSharedQueue == HostCall({}, <<Invoke("DeleteSharedQueue")>>)

-------------------------------------------------------------------------------
(* Timers, metrics, callouts                                                     *)

ProxyCreateTimer == HostCall({"value"}, <<Invoke("CreateTimer"), PutUint32("value")>>)
ProxyDeleteTimer == HostCall({}, <<Invoke("DeleteTimer")>>)

ProxyCreateMetric == TypedHostCall({"value"},
  ReadKey \o <<Invoke("CreateMetric"), PutUint32("value")>>)
\* uint32(value): the high half of the metric is never written.
ProxyGetMetricValue ==
  HostCall({"value", "high"}, <<Invoke("GetMetricValue"), PutUint32("value")>>)
ProxySetMetricValue == HostCall({}, <<Invoke("SetMetricValue")>>)
ProxyIncrementMetricValue == HostCall({}, <<Invoke("IncrementMetricValue")>>)
ProxyDeleteMetric == HostCall({}, <<Invoke("DeleteMetric")>>)

ProxyDispatchHttpCall == HostCall({"value"},
  <<Read, Read, Decode, Read, Read, Decode, Invoke("DispatchHttpCall"), PutUint32("value")>>)
ProxyDispatchGrpcCall == HostCall({"value"},
  <<Read, Read, Read, Read, Decode, Read, Invoke("DispatchGrpcCall"), PutUint32("value")>>)
ProxyOpenGrpcStream == HostCall({"value"},
  <<Read, Read, Read, Read, Decode, Invoke("OpenGrpcStream"), PutUint32("value")>>)
ProxySendGrpcStreamMessage == HostCall({}, <<Read, Invoke("SendGrpcStreamMessage")>>)
ProxyCancelGrpcCall == HostCall({}, <<Invoke("CancelGrpcCall")>>)
ProxyCloseGrpcCall == HostCall({}, <<Invoke("CloseGrpcCall")>>)
ProxyCallCustomFunction == HostCall({"data", "size"},
  <<Read, Invoke("CallCustomFunction")>> \o copyIntoInstance)

-------------------------------------------------------------------------------
\* The names under which the guest finds them.
HostFunctions ==
  [proxy_log |-> ProxyLog,
   proxy_set_effective_context |-> ProxySetEffectiveContext,
   proxy_context_finalize |-> ProxyContextFinalize,
   proxy_resume_stream |-> ProxyResumeStream,
   proxy_close_stream |-> ProxyCloseStream,
   proxy_send_http_response |-> ProxySendHttpResponse,
   proxy_resume_http_stream |-> ProxyResumeHttpStream,
   proxy_close_http_stream |-> ProxyCloseHttpStream,
   proxy_get_buffer_bytes |-> ProxyGetBuffer,
   proxy_get_buffer |-> ProxyGetBuffer,
   proxy_set_buffer |-> ProxySetBuffer,
   proxy_get_header_map_pairs |-> ProxyGetHeaderMapPairs,
   proxy_get_header_map_value |-> ProxyGetHeaderMapValue,
   proxy_replace_header_map_value |-> ProxyReplaceHeaderMapValue,
   proxy_open_shared_kvstore |-> ProxyOpenSharedKvstore,
   proxy_get_shared_kvstore_key_values |-> ProxyGetSharedKvstoreKeyValues,
   proxy_set_shared_kvstore_key_values |-> ProxySetSharedKvstoreKeyValues,
   proxy_add_shared_kvstore_key_values |-> ProxyAddSharedKvstoreKeyValues,
   proxy_remove_shared_kvstore_key |-> ProxyRemoveSharedKvstoreKey,
   proxy_delete_shared_kvstore |-> ProxyDeleteSharedKvstore,
   proxy_open_shared_queue |-> ProxyOpenSharedQueue,
   proxy_dequeue_shared_queue_item |-> ProxyDequeueSharedQueueItem,
   proxy_enqueue_shared_queue_item |-> ProxyEnqueueSharedQueueItem,
   proxy_delete_shared_queue |-> ProxyDeleteSharedQueue,
   proxy_create_timer |-> ProxyCreateTimer,
   proxy_delete_timer |-> ProxyDeleteTimer,
   proxy_create_metric |-> ProxyCreateMetric,
   proxy_get_metric_value |-> ProxyGetMetricValue,
   proxy_set_metric_value |-> ProxySetMetricValue,
   proxy_increment_metric_value |-> ProxyIncrementMetricValue,
   proxy_delete_metric |-> ProxyDeleteMetric,
   proxy_http_call |-> ProxyDispatchHttpCall,
   proxy_dispatch_http_call |-> ProxyDispatchHttpCall,
   proxy_dispatch_grpc_call |-> ProxyDispatchGrpcCall,
   proxy_open_grpc_stream |-> ProxyOpenGrpcStream,
   proxy_send_grpc_stream_message |-> ProxySendGrpcStreamMessage,
   proxy_cancel_grpc_call |-> ProxyCancelGrpcCall,
   proxy_close_grpc_call |-> ProxyCloseGrpcCall,
   proxy_call_custom_function |-> ProxyCallCustomFunction]

\* The default handler implements nothing, not even Log.
DefaultHandler(method) == {"Unimplemented"}

-------------------------------------------------------------------------------
(* The exports, as in AbiV1.                                                     *)

LifecycleExports ==
  [proxy_on_memory_allocate |-> "int32", proxy_on_context_create |-> "error",
   proxy_on_done |-> "int32", proxy_on_delete |-> "error",
   proxy_on_vm_start |-> "int32", proxy_on_configure |-> "int32"]

StreamExports ==
  [proxy_on_new_connection |-> "action", proxy_on_downstream_data |-> "action",
   proxy_on_downstream_close |-> "error", proxy_on_upstream_data |-> "action",
   proxy_on_upstream_close |-> "error"]

HttpExports ==
  [proxy_on_request_headers |-> "action", proxy_on_request_body |-> "action",
   proxy_on_request_trailers |-> "action", proxy_on_request_metadata |-> "action",
   proxy_on_response_headers |-> "action", proxy_on_response_body |-> "action",
   proxy_on_response_trailers |-> "action", proxy_on_response_metadata |-> "action"]

CalloutExports ==
  [proxy_on_queue_ready |-> "error", proxy_on_timer_ready |-> "error",
   proxy_on_http_call_response |-> "error",
   proxy_on_grpc_call_response_header_metadata |-> "error",
   proxy_on_grpc_call_response_message |-> "error",
   proxy_on_grpc_call_response_trailer_metadata |-> "error",
   proxy_on_grpc_call_close |-> "error", proxy_on_custom_callback |-> "int32"]

ExportGroups == {LifecycleExports, StreamExports, HttpExports, CalloutExports}
Exports == [e \in UNION {DOMAIN group : group \in ExportGroups} |->
              (CHOOSE group \in ExportGroups : e \in DOMAIN group)[e]]

\* The exports that pass an argument of a named type to the guest.
TypedExports == {"proxy_on_downstream_close", "proxy_on_upstream_close"}
===============================================================================
