CONSTANTS
    Tariff = {wall, floor}
    Amount = {1, 2}
    Price = {7, 8}
    ListPrice = 7
    MaxLines = 2
SPECIFICATION QuotePlanSpec
PROPERTY HandLinesStay
