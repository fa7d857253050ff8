----------------------------- MODULE ThriftWire -----------------------------
(***************************************************************************)
(* What travels over a connection: the messages of the services            *)
(* waffle_thrift and waffle_thrift_response as the generated code writes   *)
(* and reads them (service/src/waffle_thrift.cpp,                          *)
(* waffle_thrift_response.cpp, proxy_types.cpp).                           *)
(*                                                                         *)
(* A struct is a function from field ids to typed fields.  Its layout says *)
(* which fields the code knows: read() takes a field whose id and type it  *)
(* knows and skips every other, write() writes the fields that are set.    *)
(* The text of an exception and the message sequence number, which is 0 in *)
(* every message and never looked at, are left out.                        *)
(***************************************************************************)
EXTENDS Integers, Sequences

Field(type, name) == [type |-> type, name |-> name]

\* The layout of a result has the one field 0, or none for a void method.
Success(type) == [f \in {0} |-> Field(type, "success")]
Void == <<>>

-----------------------------------------------------------------------------
(* Layouts: the args and the result struct of every method.                  *)

sequence_id == <<Field("i64", "client_id"), Field("i64", "client_seq_no"),
                 Field("i64", "server_seq_no")>>

get_client_id_args        == Void
get_client_id_result      == Success("i64")
register_client_id_args   == <<Field("i32", "block_id"), Field("i64", "client_id")>>
register_client_id_result == Void
async_get_args            == <<Field("struct", "seq_id"), Field("string", "key")>>
async_put_args            == <<Field("struct", "seq_id"), Field("string", "key"),
                               Field("string", "value")>>
async_get_batch_args      == <<Field("struct", "seq_id"), Field("list", "keys")>>
async_put_batch_args      == <<Field("struct", "seq_id"), Field("list", "keys"),
                               Field("list", "values")>>
get_args                  == <<Field("string", "key")>>
get_result                == Success("string")
put_args                  == <<Field("string", "key"), Field("string", "value")>>
put_result                == Void
get_batch_args            == <<Field("list", "keys")>>
get_batch_result          == Success("list")
put_batch_args            == <<Field("list", "keys"), Field("list", "values")>>
put_batch_result          == Void
search_args               == <<Field("string", "keys")>>
search_result             == Success("list")
async_response_args       == <<Field("struct", "seq_id"), Field("i32", "op_code"),
                               Field("list", "result")>>

\* write: the fields of v that the layout names, v's domain being what is set.
Write(layout, v) ==
  [f \in {g \in DOMAIN layout : layout[g].name \in DOMAIN v}
     |-> [type |-> layout[f].type, value |-> v[layout[f].name]]]

\* read: the fields that arrived with the id and the type of the layout; the domain of
\* the result is __isset.
Read(layout, body) ==
  LET known == {f \in DOMAIN layout \cap DOMAIN body : body[f].type = layout[f].type}
  IN  [n \in {layout[f].name : f \in known}
         |-> body[CHOOSE f \in known : layout[f].name = n].value]

\* A sequence_id inside args.  Its three fields are required, and always written: the
\* exception that read() throws for a missing one cannot occur.
SeqId(id, no) ==
  Write(sequence_id, [client_id |-> id, client_seq_no |-> no, server_seq_no |-> 0])

Message(fname, mtype, body) == [fname |-> fname, mtype |-> mtype, body |-> body]

-----------------------------------------------------------------------------
(* waffle_thriftClient: what each method sends.                              *)

send_get_client_id == Message("get_client_id", "call", Write(get_client_id_args, <<>>))
send_register_client_id(block, id) ==
  Message("register_client_id", "call",
          Write(register_client_id_args, [block_id |-> block, client_id |-> id]))
send_async_get(seq, key) ==
  Message("async_get", "oneway", Write(async_get_args, [seq_id |-> seq, key |-> key]))
send_async_put(seq, key, value) ==
  Message("async_put", "oneway",
          Write(async_put_args, [seq_id |-> seq, key |-> key, value |-> value]))
send_async_get_batch(seq, keys) ==
  Message("async_get_batch", "oneway",
          Write(async_get_batch_args, [seq_id |-> seq, keys |-> keys]))
send_async_put_batch(seq, keys, values) ==
  Message("async_put_batch", "oneway",
          Write(async_put_batch_args, [seq_id |-> seq, keys |-> keys, values |-> values]))
send_get(key) == Message("get", "call", Write(get_args, [key |-> key]))
send_put(key, value) == Message("put", "call", Write(put_args, [key |-> key, value |-> value]))
send_get_batch(keys) == Message("get_batch", "call", Write(get_batch_args, [keys |-> keys]))
send_put_batch(keys, values) ==
  Message("put_batch", "call", Write(put_batch_args, [keys |-> keys, values |-> values]))
send_search(pattern) == Message("search", "call", Write(search_args, [keys |-> pattern]))

\* waffle_thrift_responseClient: the one message of the response service.
send_async_response(seq, op, result) ==
  Message("async_response", "oneway",
          Write(async_response_args, [seq_id |-> seq, op_code |-> op, result |-> result]))

-----------------------------------------------------------------------------
(* What the client makes of the message it reads.                            *)

Return(value) == [kind |-> "return", value |-> value]
Throw         == [kind |-> "throw", value |-> <<>>]
\* Bytes are taken for what they are not, or a function ends without a value.
Undefined     == [kind |-> "undefined", value |-> <<>>]

\* The common shape of recv_X.  On a message that is no reply, or the reply of another
\* method, the code skips it and reads on, into whatever comes next.
Recv(fname, layout, m) ==
  IF m.mtype = "exception" THEN Throw
  ELSE IF m.mtype # "reply" \/ m.fname # fname THEN Undefined
  ELSE IF DOMAIN layout = {} THEN Return(<<>>)
  ELSE LET result == Read(layout, m.body)
       IN  IF "success" \in DOMAIN result THEN Return(result.success) ELSE Throw

recv_get_client_id(m)      == Recv("get_client_id", get_client_id_result, m)
recv_register_client_id(m) == Recv("register_client_id", register_client_id_result, m)
recv_get(m)                == Recv("get", get_result, m)
recv_put(m)                == Recv("put", put_result, m)
recv_get_batch(m)          == Recv("get_batch", get_batch_result, m)
recv_put_batch(m)          == Recv("put_batch", put_batch_result, m)
recv_search(m)             == Recv("search", search_result, m)

\* command_response_reader::recv_response never looks at the name: any message but an
\* exception is read as async_response_args.
recv_response(m) ==
  IF m.mtype = "exception" THEN Throw
  ELSE LET result == Read(async_response_args, m.body)
       IN  IF {"seq_id", "result"} \subseteq DOMAIN result
             THEN Return([no     |-> Read(sequence_id, result.seq_id).client_seq_no,
                          result |-> result.result])
             ELSE Undefined

-----------------------------------------------------------------------------
(* waffle_thriftProcessor: how each method is served.  A two-way method      *)
(* reads its args, calls the handler and writes the result, or an exception  *)
(* if the handler throws; a one-way method writes nothing in either case.    *)

TwoWay(args, result) == [args |-> args, result |-> result, oneway |-> FALSE]
OneWay(args)         == [args |-> args, result |-> Void, oneway |-> TRUE]

process_get_client_id      == TwoWay(get_client_id_args, get_client_id_result)
process_register_client_id == TwoWay(register_client_id_args, register_client_id_result)
process_async_get          == OneWay(async_get_args)
process_async_put          == OneWay(async_put_args)
process_async_get_batch    == OneWay(async_get_batch_args)
process_async_put_batch    == OneWay(async_put_batch_args)
process_get                == TwoWay(get_args, get_result)
process_put                == TwoWay(put_args, put_result)
process_get_batch          == TwoWay(get_batch_args, get_batch_result)
process_put_batch          == TwoWay(put_batch_args, put_batch_result)
\* Fault: search is served without a reply.
process_search_oneway      == OneWay(search_args)
process_search             == TwoWay(search_args, search_result)

processMap_ ==
  [get_client_id      |-> process_get_client_id,
   register_client_id |-> process_register_client_id,
   async_get          |-> process_async_get,
   async_put          |-> process_async_put,
   async_get_batch    |-> process_async_get_batch,
   async_put_batch    |-> process_async_put_batch,
   get                |-> process_get,
   put                |-> process_put,
   get_batch          |-> process_get_batch,
   put_batch          |-> process_put_batch,
   search             |-> process_search]

\* The messages that serving m puts on the connection, `out' being what the handler
\* returned or threw.
Replies(m, out) ==
  IF m.fname \notin DOMAIN processMap_ THEN <<Message(m.fname, "exception", Void)>>
  ELSE LET p == processMap_[m.fname]
       IN  IF p.oneway THEN <<>>
           ELSE IF out.kind = "throw" THEN <<Message(m.fname, "exception", Void)>>
           ELSE <<Message(m.fname, "reply", Write(p.result, [success |-> out.value]))>>
=============================================================================
