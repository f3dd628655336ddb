------------------------------ MODULE MCDevices ------------------------------
(***************************************************************************)
(* Small models for TLC: the PLIC routed as an operating system programs   *)
(* it, the UART, the I2C controller with its keyboard, the CLINT, and the  *)
(* machine stopped and reset at any moment.  They share no state, so a     *)
(* behaviour is one of theirs: part says whose, and the others keep their  *)
(* initial state.                                                          *)
(***************************************************************************)
EXTENDS MCPLIC, Uart, I2c, Clint, Machine

VARIABLE part

devicesVars == <<part, vars, uartVars, i2cVars, clintVars, machineVars>>

DevicesInit ==
  /\ part \in {"plic", "uart", "i2c", "clint", "machine"}
  /\ Init /\ UartInit /\ I2cInit /\ ClintInit /\ MachineInit
  /\ part # "i2c" => hid.cur_reg = 0
  /\ part # "clint" => mip = {}

DevicesNext ==
  /\ UNCHANGED part
  /\ \/ part = "plic" /\ UNCHANGED <<uartVars, i2cVars, clintVars, machineVars>> /\ RoutedNext
     \/ part = "uart" /\ UNCHANGED <<vars, i2cVars, clintVars, machineVars>> /\ UartNext
     \/ part = "i2c" /\ UNCHANGED <<vars, uartVars, clintVars, machineVars>> /\ I2cNext
     \/ part = "clint" /\ UNCHANGED <<vars, uartVars, i2cVars, machineVars>> /\ ClintNext
     \/ part = "machine" /\ UNCHANGED <<vars, uartVars, i2cVars, clintVars>> /\ MachineNext

DevicesSpec == DevicesInit /\ [][DevicesNext]_devicesVars
==============================================================================
