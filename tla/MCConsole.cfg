SPECIFICATION Spec
CONSTANTS
    boot = boot
    a = a
    b = b
    isr = isr
    Writers = {boot, a, b, isr}
    Boot = boot
    Width = 4
    Height = 2
    TabStop = 2
    Chars <- AllChars
    Programs <- AllPrograms
INVARIANTS
    WholeMessages
    ScreenShowsPaper
