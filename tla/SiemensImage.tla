---------------------------- MODULE SiemensImage ----------------------------
(***************************************************************************)
(* The refinement mapping from SiemensPLC to ProcessImage.                 *)
(***************************************************************************)
EXTENDS SiemensPLC

\* Seen from the Modbus server the client is a process image: the mutex, the
\* transfer buffers the two threads share, the poll groups and the connection
\* can be forgotten.
IsReadRequest(r) == r.op \in ReadOps
Image == INSTANCE ProcessImage WITH
    Values <- Value,
    InitialCopy <- [i \in Items |-> Zeros(size(i))],
    StatusItem <- SIEMENS_STATUS,
    IsRead <- IsReadRequest,
    IsWritable <- IsDataItemWritable,
    memory <- device,
    delivered <- polled,
    copy <- localCopy,
    online <- Status,
    busy <- (modPc # "idle"),
    answer <- Readdata,
    code <- result,
    stored <- applied

ImplementsProcessImage == Image!Spec

=============================================================================
