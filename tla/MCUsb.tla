---- MODULE MCUsb ----
EXTENDS Usb
====
