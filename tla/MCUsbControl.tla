----------------------------- MODULE MCUsbControl -----------------------------
(* An instance of UsbControl for TLC: packets of three bytes, descriptors   *)
(* of less than a packet, of whole packets, and of some packets and a bit.  *)
(* Between two transfers nothing reads what the last one left of its        *)
(* descriptor and in the buffer, nor does a transfer that has no use for    *)
(* them: states that differ in that only are explored once.                 *)
EXTENDS UsbControl, TLC

Descriptors == "lang" :> 2 @@ "device" :> 6 @@ "config" :> 7

Transfer == <<USBFS_SetupReq, USBFS_SetupReqLen, UEP0_CTRL_H, Packet,
              IF USBFS_SetupReq.code = "GET_DESCRIPTOR" THEN pUSBFS_Descr ELSE <<>>>>
View     == <<IF host.stage = "idle" THEN <<>> ELSE Transfer,
              USBFS_DevAddr, DEV_ADDR, reg, host, hostAddr, believes, lost, addrLost>>

=============================================================================
